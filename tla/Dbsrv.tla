-------------------------------- MODULE Dbsrv --------------------------------
(***************************************************************************)
(* Dbsrv of the global server (dbsrv/dbsrv.lua): the tables of a player,   *)
(* cached in a Redis hash per uid and stored in MySQL.  GET reads the      *)
(* cache and falls back to MySQL; SET writes the cache, and MySQL at once  *)
(* unless delay_write is on.                                               *)
(*                                                                         *)
(* A request is handled in one piece, because the calls to Redis and MySQL *)
(* block the event loop.  What interleaves are the requests of different   *)
(* game servers, the expiry of the cache, and the failures of the two      *)
(* stores, which may happen between any two calls of a handler.            *)
(***************************************************************************)
EXTENDS Integers, Sequences

CONSTANTS
  Uids,         \* player ids
  Games,        \* game servers that send requests
  Tables,       \* names of the tables of a player (table_conf)
  Configs,      \* settings: delay_write, and the tables whose NAME has a descriptor
  Asked,        \* the sets of tables that a GET names
  None,         \* Lua's nil: no field in the hash, no row in the table
  MaxReq,       \* bound: requests sent
  MaxQueue,     \* bound: requests of two games that wait
  MaxSqlFail,   \* bound: requests in which MySQL commands fail
  MaxRefuse,    \* bound: periods in which Redis refuses to write
  MaxBreak      \* bound: losses of the connection to Redis

ASSUME DbsrvAssumption ==
  /\ Configs \subseteq BOOLEAN \X SUBSET Tables
  /\ Asked \subseteq SUBSET Tables
  /\ None \notin Nat
  /\ MaxReq \in Nat /\ MaxQueue \in Nat /\ MaxSqlFail \in Nat /\ MaxRefuse \in Nat /\ MaxBreak \in Nat

VARIABLES
  cache,     \* the Redis hash of a uid: the version of a table, or None
  savelist,  \* the Redis list of what is to be saved, as pairs of uid and table
  rows,      \* MySQL: the version of the row of a uid in a table, or None
  redis,     \* the connection: "absent", "up", or "broken" (an unusable context)
  refusing,  \* Redis answers writes with an error (out of memory, read only)
  req,       \* the requests of a game that are not handled yet
  answer,    \* the request handled last, its result codes and its tables
  stuck,     \* games whose first request raised an error, and nothing arrived since
  delay_write, \* the option of that name
  described, \* the tables for which Pbc.get_descriptor(table_name) finds one
  \* history and bounds
  saves,     \* SETs handled: the version that the last one carried
  acked,     \* the version of a table in the last SET answered with 1
  missed,    \* tables of a uid whose cached copy missed a SET
  lapsed,    \* the uids whose hash expired
  asked, sqlfails, refusals, breaks

storeVars == <<cache, savelist, rows, redis, refusing>>
vars == <<cache, savelist, rows, redis, refusing, req, answer, saves, acked, missed,
          asked, sqlfails, refusals, breaks, stuck, delay_write, described, lapsed>>

\* check_redis_connections of main; nothing else connects again later.
Init ==
  /\ cache = [u \in Uids |-> [t \in Tables |-> None]]
  /\ savelist = {}
  /\ rows = [u \in Uids |-> [t \in Tables |-> None]]
  /\ redis \in {"absent", "up"}
  /\ refusing = FALSE
  /\ req = [g \in Games |-> <<>>]
  /\ answer = [type |-> "none"]
  /\ saves = 0
  /\ acked = [u \in Uids |-> [t \in Tables |-> 0]]
  /\ missed = [u \in Uids |-> {}]
  /\ \E c \in Configs : delay_write = c[1] /\ described = c[2]
  /\ stuck = {} /\ lapsed = {}
  /\ asked = 0 /\ sqlfails = 0 /\ refusals = 0 /\ breaks = 0

-----------------------------------------------------------------------------
(* The stores *)

\* The fields of the tables become data, for one uid.
Put(store, u, tables, data) ==
  [store EXCEPT ![u] = [t \in Tables |-> IF t \in tables THEN data[t] ELSE @[t]]]

\* What a handler finds out about Redis while it runs: the connection becomes
\* r, and f says whether Redis refuses writes from now on.
Fate(r, f) ==
  /\ redis' = r /\ refusing' = f
  /\ \/ r = redis /\ UNCHANGED breaks
     \/ /\ redis = "up" /\ r = "broken"
        /\ breaks < MaxBreak /\ breaks' = breaks + 1
  /\ \/ (f => refusing) /\ UNCHANGED refusals
     \/ /\ redis = "up" /\ f /\ ~refusing
        /\ refusals < MaxRefuse /\ refusals' = refusals + 1

\* HMSET takes effect on the hash of u.
Cached(u, tables, data) ==
  /\ cache' = Put(cache, u, tables, data)
  /\ missed' = [missed EXCEPT ![u] = @ \ tables]

\* HMSET of a SET does not take effect: a copy that is there grows old.
CacheMissed(u, tables) ==
  /\ UNCHANGED cache
  /\ missed' = [missed EXCEPT ![u] = @ \cup {t \in tables : cache[u][t] # None}]

\* The commands in bad fail.
SqlFails(bad) ==
  \/ bad = {} /\ UNCHANGED sqlfails
  \/ bad # {} /\ sqlfails < MaxSqlFail /\ sqlfails' = sqlfails + 1

\* Mutant: the hash is replaced by nil instead of losing its fields.
ExpireToNil(u) ==
  /\ \E t \in Tables : cache[u][t] # None
  /\ cache' = [cache EXCEPT ![u] = None]
  /\ missed' = [missed EXCEPT ![u] = {}]
  /\ lapsed' = lapsed \cup {u}
  /\ UNCHANGED <<savelist, rows, redis, refusing, req, answer, saves, acked,
                 asked, sqlfails, refusals, breaks, stuck, delay_write, described>>

\* Redis drops a hash expire_sec after its last EXPIRE.
Expire(u) ==
  /\ \E t \in Tables : cache[u][t] # None
  /\ cache' = [cache EXCEPT ![u] = [t \in Tables |-> None]]
  /\ missed' = [missed EXCEPT ![u] = {}]
  /\ lapsed' = lapsed \cup {u}
  /\ UNCHANGED <<savelist, rows, redis, refusing, req, answer, saves, acked,
                 asked, sqlfails, refusals, breaks, stuck, delay_write, described>>

\* Redis accepts writes again.
Recover ==
  /\ refusing
  /\ refusing' = FALSE
  /\ UNCHANGED <<cache, savelist, rows, redis, req, answer, saves, acked, missed,
                 asked, sqlfails, refusals, breaks, stuck, delay_write, described, lapsed>>

-----------------------------------------------------------------------------
(* Requests of the game servers *)

\* GETs may name any tables; a SET has all that player_logout finds in the player.
\* What arrives makes the dispatcher look at the receive buffer, from its start.
Ask(g, type, u, tables) ==
  /\ asked < MaxReq /\ asked' = asked + 1
  /\ \A h \in Games \ {g} : Len(req[g]) + Len(req[h]) < MaxQueue
  /\ req' = [req EXCEPT ![g] = Append(@, [type |-> type, uid |-> u, tables |-> tables])]
  /\ stuck' = stuck \ {g}
  /\ UNCHANGED <<storeVars, answer, saves, acked, missed, sqlfails, refusals, breaks,
                 delay_write, described, lapsed>>

Calls(g, type) == req[g] # <<>> /\ Head(req[g]).type = type

\* The request is handled, and answered with these result codes and tables.
Answer(g, results, data) ==
  /\ answer' = [type |-> Head(req[g]).type, uid |-> Head(req[g]).uid,
                results |-> results, data |-> data]
  /\ req' = [req EXCEPT ![g] = Tail(@)]

-----------------------------------------------------------------------------
(* GET *)

\* Every table that is asked for is in the hash: anything less is a miss.
Hit(m) == redis = "up" /\ \A t \in m.tables : cache[m.uid][t] # None

\* Mutant: the fields that the hash has are enough.
PartialHit(g) ==
  /\ Calls(g, "GET")
  /\ LET m == Head(req[g]) IN
     /\ redis = "up" /\ \E t \in m.tables : cache[m.uid][t] # None
     /\ Answer(g, <<1>>, [t \in m.tables |->
                 IF cache[m.uid][t] = None THEN 0 ELSE cache[m.uid][t]])
  /\ \E r \in {"up", "broken"} : Fate(r, refusing)
  /\ UNCHANGED <<cache, savelist, rows, saves, acked, missed, asked, sqlfails>>

\* get_from_redis answers; only its EXPIRE can still fail.
get_from_redis(g) ==
  /\ Calls(g, "GET")
  /\ LET m == Head(req[g]) IN
     /\ Hit(m)
     /\ Answer(g, <<1>>, [t \in m.tables |-> cache[m.uid][t]])
  /\ \E r \in {"up", "broken"} : Fate(r, refusing)
  /\ UNCHANGED <<cache, savelist, rows, saves, acked, missed, asked, sqlfails>>

\* HMGET finds the connection broken.  The handler raises an error while it
\* logs that, so the request stays in the receive buffer; it never comes to MySQL.
HmgetRaises(g) ==
  /\ Calls(g, "GET")
  /\ redis \in {"up", "broken"} /\ Fate("broken", refusing)
  /\ UNCHANGED <<cache, savelist, rows, req, answer, saves, acked, missed, asked, sqlfails>>

\* Mutant: without a connection to Redis, GET does not go to MySQL.
MissConnected(m) == redis = "up" /\ (~Hit(m) \/ refusing)

\* get_from_redis returns without an answer: no connection, a field that is
\* missing, or an error that Redis answers.
Miss(m) ==
  \/ redis = "absent"
  \/ redis = "up" /\ (~Hit(m) \/ refusing)

\* select_from_mysql finds the rows.  For a row of a table whose name has no
\* descriptor it reads a column that is not there, and raises an error.  (So it is
\* for every row in the configuration of the repository: its table is "user", and
\* descriptors go by package and class.)
Readable(m) == \A t \in m.tables : rows[m.uid][t] # None => t \in described

\* A player without a row gets an empty message.
Select(m) == [t \in m.tables |-> IF rows[m.uid][t] = None THEN 0 ELSE rows[m.uid][t]]

\* get_from_mysql answers, after it tried to put the rows into the cache.
get_from_mysql(g) ==
  /\ Calls(g, "GET")
  /\ LET m == Head(req[g]) IN
     /\ Miss(m) /\ Readable(m)
     /\ Answer(g, <<1>>, Select(m))
     /\ \/ /\ redis = "up" /\ ~refusing
           /\ \E r \in {"up", "broken"}, f \in BOOLEAN : Fate(r, f)
           /\ Cached(m.uid, m.tables, Select(m))
        \/ /\ redis = "up"
           /\ \E r \in {"up", "broken"}, f \in BOOLEAN :
                (r = "broken" \/ f) /\ Fate(r, f)
           /\ UNCHANGED <<cache, missed>>
        \/ /\ redis = "absent" /\ Fate("absent", refusing)
           /\ UNCHANGED <<cache, missed>>
  /\ UNCHANGED <<savelist, rows, saves, acked, asked, sqlfails>>

\* select_from_mysql raises, so the request stays in the receive buffer.
SelectRaises(g) ==
  /\ Calls(g, "GET")
  /\ Miss(Head(req[g])) /\ ~Readable(Head(req[g]))
  /\ UNCHANGED <<storeVars, req, answer, saves, acked, missed, asked, sqlfails, refusals, breaks>>

\* select_from_mysql fails for one of the tables.
GetFails(g) ==
  /\ Calls(g, "GET")
  /\ Miss(Head(req[g]))
  /\ SqlFails({"select"})
  /\ Answer(g, <<0>>, <<>>)
  /\ UNCHANGED <<storeVars, saves, acked, missed, asked, refusals, breaks>>

-----------------------------------------------------------------------------
(* SET *)

Version(m) == [t \in m.tables |-> saves + 1]

\* HMSET, EXPIRE and LPUSH; ok is what the function returns.
set_to_redis(m, ok) ==
  LET queued == savelist \cup ({m.uid} \X m.tables) IN
  \* all of them succeed
  \/ /\ ok /\ redis = "up" /\ ~refusing /\ Fate("up", FALSE)
     /\ Cached(m.uid, m.tables, Version(m))
     /\ savelist' = queued
  \* HMSET answers an error, which is taken for success, and the others succeed
  \/ /\ ok /\ redis = "up" /\ refusing /\ Fate("up", FALSE)
     /\ \E t \in Tables : cache[m.uid][t] # None
     /\ CacheMissed(m.uid, m.tables)
     /\ savelist' = queued
  \* HMSET takes effect, and the connection or a later command fails
  \/ /\ ~ok /\ redis = "up" /\ ~refusing
     /\ \E r \in {"up", "broken"}, f \in BOOLEAN : (r = "broken" \/ f) /\ Fate(r, f)
     /\ Cached(m.uid, m.tables, Version(m))
     /\ savelist' \in {savelist, queued}
  \* HMSET does not take effect
  \/ /\ ~ok
     /\ \E r \in {redis, "broken"}, f \in BOOLEAN :
          (r # "up" \/ f) /\ Fate(r, f)
     /\ CacheMissed(m.uid, m.tables)
     /\ UNCHANGED savelist

\* Mutant: a cache write that worked makes the direct write superfluous.
WritesOne(ok) == IF ok THEN {} ELSE {"instead"}

\* The MySQL writes of a SET: the one that makes up for a failed cache write,
\* and the one of a server that does not delay its writes.
Writes(ok) == (IF ok THEN {} ELSE {"instead"}) \cup (IF delay_write THEN {} ELSE {"direct"})

\* The tables that MySQL has taken after these writes, of which bad failed: a
\* write stops at its first failure, whose command may have taken effect.
set_to_mysql(m, writes, bad) ==
  IF writes # bad THEN {m.tables} ELSE IF bad = {} THEN {{}} ELSE SUBSET m.tables

\* Mutant: a failure of the last write is not looked at.
VerdictsOptimistic(bad) ==
  IF "instead" \in bad THEN <<0, 1>> ELSE <<1>>

\* The answers of a SET: a failure of the first write is answered, but the
\* handler goes on to the second one, or to the answer 1.
Verdicts(bad) ==
  (IF "instead" \in bad THEN <<0>> ELSE <<>>) \o (IF "direct" \in bad THEN <<0>> ELSE <<1>>)

SET(g) ==
  /\ Calls(g, "SET")
  /\ LET m == Head(req[g]) IN
     \E ok \in BOOLEAN : \E bad \in SUBSET Writes(ok) :
     \E written \in set_to_mysql(m, Writes(ok), bad) :
       /\ set_to_redis(m, ok)
       /\ rows' = Put(rows, m.uid, written, Version(m))
       /\ SqlFails(bad)
       /\ Answer(g, Verdicts(bad), <<>>)
       /\ acked' = IF Verdicts(bad) \in {<<1>>, <<0, 1>>}
                   THEN Put(acked, m.uid, m.tables, Version(m)) ELSE acked
  /\ saves' = saves + 1
  /\ UNCHANGED asked

-----------------------------------------------------------------------------
\* The global server handles the next request of a game.  After an error it waits
\* until more arrives from that game, and then tries the same request again.
Handle(g) ==
  /\ g \notin stuck
  /\ \/ /\ get_from_redis(g) \/ get_from_mysql(g) \/ GetFails(g) \/ SET(g)
        /\ UNCHANGED stuck
     \/ /\ HmgetRaises(g) \/ SelectRaises(g)
        /\ stuck' = stuck \cup {g}
  /\ UNCHANGED <<delay_write, described, lapsed>>

Next ==
  \/ \E g \in Games :
       \/ Handle(g)
       \/ \E u \in Uids, tables \in Asked : Ask(g, "GET", u, tables)
       \/ \E u \in Uids : Ask(g, "SET", u, Tables)
  \/ \E u \in Uids : Expire(u)
  \/ Recover

Spec == Init /\ [][Next]_vars

\* The event loop handles what a connection delivers, the requests in the receive
\* buffer one after the other.
FairSpec == Spec /\ \A g \in Games : WF_vars(Handle(g))

-----------------------------------------------------------------------------
(* Properties *)

Requests == [type : {"GET", "SET"}, uid : Uids, tables : Asked \cup {Tables}]

\* What the stores hold are versions, and requests name tables.
StoresOK ==
  /\ cache \in [Uids -> [Tables -> Nat \cup {None}]]
  /\ savelist \subseteq Uids \X Tables
  /\ rows \in [Uids -> [Tables -> Nat \cup {None}]]
  /\ redis \in {"absent", "up", "broken"}
  /\ refusing \in BOOLEAN
  /\ req \in [Games -> Seq(Requests)]
  /\ saves \in Nat
  /\ acked \in [Uids -> [Tables -> Nat]]
  /\ missed \in [Uids -> SUBSET Tables]
  /\ delay_write \in BOOLEAN /\ lapsed \subseteq Uids
  /\ asked \in Nat /\ sqlfails \in Nat /\ refusals \in Nat /\ breaks \in Nat

\* The stores hold versions, and requests name tables of the configuration.
TypeOK == StoresOK /\ described \subseteq Tables /\ stuck \subseteq Games

\* A SET that was answered with 1 is in MySQL: it is not undone by a later SET
\* that fails half-way, by the second write of the same SET, or by what GET does
\* to the cache.  With delayed writes it may instead be in the hash of the uid
\* and in the list of what is to be saved, through a broken connection and a
\* later SET that did not come to its end; of those, nothing is promised once
\* the hash expired, Redis refused a write, or a MySQL command failed.
AckedIsDurable ==
  \A u \in Uids, t \in Tables :
    acked[u][t] > 0 =>
      \/ rows[u][t] # None /\ rows[u][t] >= acked[u][t]
      \/ /\ delay_write
         /\ \/ cache[u][t] # None /\ cache[u][t] >= acked[u][t] /\ <<u, t>> \in savelist
            \/ u \in lapsed \/ refusals > 0 \/ sqlfails > 0

\* A load brings the tables of one save and does not mix two of them, although
\* loads of single tables fill the cache in parts, unless a MySQL command failed
\* or the cache has a copy of a table that a SET could not replace.
LoadIsWhole ==
  [][req' # req /\ asked' = asked /\ answer'.type = "GET" /\ sqlfails = 0 =>
       \A t, s \in DOMAIN answer'.data \ missed[answer'.uid] : answer'.data[t] = answer'.data[s]]_vars

\* The versions that a GET may answer: MySQL's, and that of the cache.
Loadable(u, t) ==
  {IF rows[u][t] = None THEN 0 ELSE rows[u][t]} \cup
  (IF redis = "up" /\ cache[u][t] # None THEN {cache[u][t]} ELSE {})

Store == INSTANCE PlayerStore WITH
  may <- [u \in Uids |-> [t \in Tables |-> Loadable(u, t)]],
  stale <- [u \in Uids |-> IF delay_write THEN Tables ELSE missed[u]]

\* GET and SET implement the registers that the login protocol relies on: what
\* a GET answers is what was saved last, from the cache or from MySQL, whatever
\* expired or failed in between, except for a table of which the cache has a
\* copy that a SET could not replace.
StoreKept == Store!Spec

\* No handler can come to the end of this request.
Unanswerable(m) == m.type = "GET" /\ (redis = "broken" \/ ~Readable(m))

\* A request is handled and answered, and so are the ones behind it: Login waits
\* for the answers of its GET and its SET without a timeout.  There are two
\* exceptions, in which the handler raised an error and the request holds up all
\* others of its game server: a GET over a broken connection to Redis, and a GET
\* of a player who is in MySQL, in a table whose name has no descriptor, and was
\* not in the cache.  A SET whose turn it is is always answered.
RequestsHandled ==
  \A g \in Games :
    []<>(req[g] = <<>> \/ (g \in stuck /\ Unanswerable(Head(req[g]))))
=============================================================================
