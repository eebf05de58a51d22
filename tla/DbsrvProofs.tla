----------------------------- MODULE DbsrvProofs -----------------------------
(* Proofs about Dbsrv, for any players, tables, games and numbers of requests *)
(* and failures.                                                              *)
EXTENDS Dbsrv, SequenceTheorems, TLAPS

(***************************************************************************)
(* The inductive invariant.                                                *)
(***************************************************************************)

\* A SET names all tables of the player.
Sent == {m \in Requests : m.type = "SET" => m.tables = Tables}
SetsAll == req \in [Games -> Seq(Sent)]

\* No version is newer than the last save.
Versions ==
  \A u \in Uids, t \in Tables :
    /\ acked[u][t] <= saves
    /\ rows[u][t] # None => rows[u][t] <= saves
    /\ cache[u][t] # None => cache[u][t] <= saves

\* What is queued is in the hash as a whole, until it expires, unless Redis
\* refused a write.
Queued ==
  /\ refusing => refusals > 0
  /\ \A u \in Uids, t \in Tables :
       <<u, t>> \in savelist =>
         u \in lapsed \/ refusals > 0 \/ \A s \in Tables : cache[u][s] # None

\* What a GET answers of a table without a copy in the cache.
Row(u, t) == IF rows[u][t] = None THEN 0 ELSE rows[u][t]

\* The tables of which the cache has a copy that no SET failed to replace.
Fresh(u) == {t \in Tables : cache[u][t] # None /\ t \notin missed[u]}

\* Unless MySQL failed, its rows are those of one SET, and the fresh copies are
\* copies of the rows, or those of one SET that wrote all of them.
Whole ==
  sqlfails = 0 =>
    \A u \in Uids :
      /\ \A t, s \in Tables : rows[u][t] = rows[u][s]
      /\ \/ \A t \in Fresh(u) : cache[u][t] = Row(u, t)
         \/ Fresh(u) = Tables /\ \A t, s \in Tables : cache[u][t] = cache[u][s]

Inv == StoresOK /\ SetsAll /\ Versions /\ Queued /\ AckedIsDurable /\ Whole

-----------------------------------------------------------------------------
(* The stores *)

\* What is known of Redis once a handler is done.
LEMMA FateFacts ==
  ASSUME StoresOK, Queued, NEW r \in {"absent", "up", "broken"}, NEW f \in BOOLEAN, Fate(r, f)
  PROVE  /\ redis' \in {"absent", "up", "broken"} /\ refusing' \in BOOLEAN
         /\ redis' = "up" => redis = "up"
         /\ refusals' \in Nat /\ refusals' >= refusals /\ breaks' \in Nat
         /\ refusing' => refusals' > 0
<1>1. refusals \in Nat /\ breaks \in Nat /\ (refusing => refusals > 0) /\ redis' = r /\ refusing' = f
  BY DEF StoresOK, Queued, Fate
<1>2. (refusals' = refusals /\ (f => refusing)) \/ refusals' = refusals + 1
  BY DEF Fate
<1>3. breaks' = breaks \/ breaks' = breaks + 1
  BY DEF Fate
<1>4. r = "up" => redis = "up"
  BY DEF Fate
<1> QED BY <1>1, <1>2, <1>3, <1>4

-----------------------------------------------------------------------------
(* Requests *)

LEMMA SentFields ==
  ASSUME NEW m \in Sent
  PROVE  /\ m.type \in {"GET", "SET"} /\ m.uid \in Uids /\ m.tables \subseteq Tables
         /\ m.type = "SET" => m.tables = Tables
  BY DbsrvAssumption DEF Sent, Requests

LEMMA Received ==
  ASSUME SetsAll, NEW g \in Games, NEW type, Calls(g, type)
  PROVE  /\ Head(req[g]) \in Sent /\ Head(req[g]).type = type
         /\ [req EXCEPT ![g] = Tail(@)] \in [Games -> Seq(Sent)]
<1>1. req[g] \in Seq(Sent) /\ req[g] # <<>>
  BY DEF SetsAll, Calls
<1>2. Tail(req[g]) \in Seq(Sent) /\ Head(req[g]) \in Sent
  BY <1>1
<1> QED BY <1>2 DEF SetsAll, Calls

LEMMA SentAreRequests ==
  ASSUME NEW q \in [Games -> Seq(Sent)]
  PROVE  q \in [Games -> Seq(Requests)]
<1>1. \A g \in Games : q[g] \in Seq(Requests)
  <2>1. Sent \subseteq Requests
    BY DEF Sent
  <2> QED BY <2>1
<1> QED BY <1>1

-----------------------------------------------------------------------------
(* SET *)

\* The hash of w has the new version of every table, the others are as before.
Replaced(w) ==
  /\ \A v \in Uids, t \in Tables : cache'[v][t] = IF v = w THEN saves + 1 ELSE cache[v][t]
  /\ \A v \in Uids : missed'[v] = IF v = w THEN {} ELSE missed[v]

\* The hashes are as before, and the copies in that of w are old now.
Outdated(w) ==
  /\ cache' = cache
  /\ \A v \in Uids : missed'[v] = IF v = w THEN missed[w] \cup {t \in Tables : cache[w][t] # None}
                                  ELSE missed[v]

LEMMA CachedAll ==
  ASSUME StoresOK, NEW m \in Sent, m.type = "SET", Cached(m.uid, m.tables, Version(m))
  PROVE  /\ Replaced(m.uid)
         /\ cache' \in [Uids -> [Tables -> Nat \cup {None}]] /\ missed' \in [Uids -> SUBSET Tables]
<1>1. m.uid \in Uids /\ m.tables = Tables
  BY SentFields
<1>2. saves + 1 \in Nat
  BY DEF StoresOK
<1>3. \A t \in Tables : Version(m)[t] = saves + 1
  BY <1>1 DEF Version
<1>4. /\ cache \in [Uids -> [Tables -> Nat \cup {None}]] /\ missed \in [Uids -> SUBSET Tables]
      /\ cache' = Put(cache, m.uid, Tables, Version(m))
      /\ missed' = [missed EXCEPT ![m.uid] = @ \ Tables]
  BY <1>1 DEF StoresOK, Cached
<1>5. /\ cache' \in [Uids -> [Tables -> Nat \cup {None}]]
      /\ \A v \in Uids, t \in Tables : cache'[v][t] = IF v = m.uid THEN saves + 1 ELSE cache[v][t]
  <2>1. cache' = [cache EXCEPT ![m.uid] = [t \in Tables |-> saves + 1]]
    BY <1>1, <1>3, <1>4 DEF Put
  <2> QED BY <1>1, <1>2, <1>4, <2>1
<1> QED BY <1>1, <1>4, <1>5 DEF Replaced

LEMMA MissedAll ==
  ASSUME StoresOK, NEW m \in Sent, m.type = "SET", CacheMissed(m.uid, m.tables)
  PROVE  /\ Outdated(m.uid)
         /\ cache' \in [Uids -> [Tables -> Nat \cup {None}]] /\ missed' \in [Uids -> SUBSET Tables]
<1>1. m.uid \in Uids /\ m.tables = Tables
  BY SentFields
<1>2. missed \in [Uids -> SUBSET Tables] /\ cache \in [Uids -> [Tables -> Nat \cup {None}]]
  BY DEF StoresOK
<1>3. cache' = cache /\ missed' = [missed EXCEPT ![m.uid] = @ \cup {t \in Tables : cache[m.uid][t] # None}]
  BY <1>1 DEF CacheMissed
<1> QED BY <1>1, <1>2, <1>3 DEF Outdated

\* What set_to_redis leaves behind.
LEMMA SetRedis ==
  ASSUME StoresOK, Queued, NEW m \in Sent, m.type = "SET", NEW ok \in BOOLEAN, set_to_redis(m, ok)
  PROVE  /\ cache' \in [Uids -> [Tables -> Nat \cup {None}]] /\ missed' \in [Uids -> SUBSET Tables]
         /\ redis' \in {"absent", "up", "broken"} /\ refusing' \in BOOLEAN
         /\ redis' = "up" => redis = "up"
         /\ refusals' \in Nat /\ refusals' >= refusals /\ breaks' \in Nat
         /\ refusing' => refusals' > 0
         /\ savelist \subseteq savelist' /\ savelist' \subseteq savelist \cup ({m.uid} \X Tables)
         /\ ok => savelist' = savelist \cup ({m.uid} \X Tables)
         /\ Replaced(m.uid) \/ (Outdated(m.uid) /\ (ok => refusals > 0) /\ (~ok => savelist' = savelist))
<1> DEFINE queued == savelist \cup ({m.uid} \X m.tables)
<1>1. queued = savelist \cup ({m.uid} \X Tables)
  BY SentFields
<1>2. \E r \in {"absent", "up", "broken"}, f \in BOOLEAN : Fate(r, f)
  <2>1. redis \in {"absent", "up", "broken"}
    BY DEF StoresOK
  <2> QED BY <2>1 DEF set_to_redis
<1>3. /\ redis' \in {"absent", "up", "broken"} /\ refusing' \in BOOLEAN
      /\ redis' = "up" => redis = "up"
      /\ refusals' \in Nat /\ refusals' >= refusals /\ breaks' \in Nat
      /\ refusing' => refusals' > 0
  BY <1>2, FateFacts
<1>4. \/ /\ Cached(m.uid, m.tables, Version(m)) /\ savelist' \in {savelist, queued}
         /\ ok => savelist' = queued
      \/ /\ CacheMissed(m.uid, m.tables) /\ (ok => refusing /\ savelist' = queued) /\ (~ok => savelist' = savelist)
  BY DEF set_to_redis
<1> HIDE DEF queued
<1>5. CASE Cached(m.uid, m.tables, Version(m)) /\ savelist' \in {savelist, queued} /\ (ok => savelist' = queued)
  BY <1>1, <1>3, <1>5, CachedAll
<1>6. CASE CacheMissed(m.uid, m.tables) /\ (ok => refusing /\ savelist' = queued) /\ (~ok => savelist' = savelist)
  <2>1. ok => refusals > 0
    BY <1>6 DEF Queued
  <2>2. savelist \subseteq savelist' /\ savelist' \subseteq savelist \cup ({m.uid} \X Tables)
    BY <1>1, <1>6
  <2> QED BY <1>1, <1>3, <1>6, <2>1, <2>2, MissedAll
<1> QED BY <1>4, <1>5, <1>6

LEMMA Answers ==
  ASSUME NEW b \in Nat
  PROVE  <<0>> \o <<b>> = <<0, b>> /\ <<>> \o <<b>> = <<b>>
<1>1. <<0>> \in Seq(Nat) /\ <<b>> \in Seq(Nat) /\ <<0, b>> \in Seq(Nat)
  OBVIOUS
<1>2. <<0>> \o <<b>> \in Seq(Nat) /\ Len(<<0>> \o <<b>>) = 2
  BY <1>1
<1>3. (<<0>> \o <<b>>)[1] = 0 /\ (<<0>> \o <<b>>)[2] = b
  OBVIOUS
<1>4. \A i \in 1..2 : (<<0>> \o <<b>>)[i] = <<0, b>>[i]
  BY <1>3
<1>5. <<0>> \o <<b>> = <<0, b>>
  BY <1>1, <1>2, <1>4, SeqEqual
<1> QED BY <1>1, <1>5, ConcatEmptySeq

\* The last answer is 1 unless the direct write failed.
LEMMA VerdictsAre ==
  ASSUME NEW bad
  PROVE  /\ Verdicts(bad) \in {<<1>>, <<0>>, <<0, 0>>, <<0, 1>>}
         /\ Verdicts(bad) \in {<<1>>, <<0, 1>>} <=> "direct" \notin bad
         /\ Verdicts(bad)[Len(Verdicts(bad))] = 1 <=> "direct" \notin bad
<1>0. /\ <<0>> \o <<0>> = <<0, 0>> /\ <<0>> \o <<1>> = <<0, 1>>
      /\ <<>> \o <<0>> = <<0>> /\ <<>> \o <<1>> = <<1>>
  BY Answers
<1>1. CASE "instead" \in bad /\ "direct" \in bad
  <2>1. Verdicts(bad) = <<0, 0>>
    BY <1>0, <1>1 DEF Verdicts
  <2> QED BY <1>1, <2>1
<1>2. CASE "instead" \in bad /\ "direct" \notin bad
  <2>1. Verdicts(bad) = <<0, 1>>
    BY <1>0, <1>2 DEF Verdicts
  <2> QED BY <1>2, <2>1
<1>3. CASE "instead" \notin bad /\ "direct" \in bad
  <2>1. Verdicts(bad) = <<0>>
    BY <1>0, <1>3 DEF Verdicts
  <2> QED BY <1>3, <2>1
<1>4. CASE "instead" \notin bad /\ "direct" \notin bad
  <2>1. Verdicts(bad) = <<1>>
    BY <1>0, <1>4 DEF Verdicts
  <2> QED BY <1>4, <2>1
<1> QED BY <1>1, <1>2, <1>3, <1>4

\* What a SET of w does, of whose writes to MySQL those in bad failed, and
\* after which MySQL has the tables in written.
Saved(w, ok, bad, written) ==
  /\ cache' \in [Uids -> [Tables -> Nat \cup {None}]] /\ missed' \in [Uids -> SUBSET Tables]
  /\ redis' \in {"absent", "up", "broken"} /\ refusing' \in BOOLEAN
  /\ redis' = "up" => redis = "up"
  /\ refusals' \in Nat /\ refusals' >= refusals /\ breaks' \in Nat
  /\ refusing' => refusals' > 0
  /\ savelist \subseteq savelist' /\ savelist' \subseteq savelist \cup ({w} \X Tables)
  /\ ok => savelist' = savelist \cup ({w} \X Tables)
  /\ Replaced(w) \/ (Outdated(w) /\ (ok => refusals > 0) /\ (~ok => savelist' = savelist))
  /\ rows' \in [Uids -> [Tables -> Nat \cup {None}]]
  /\ \A v \in Uids, t \in Tables : rows'[v][t] = IF v = w /\ t \in written THEN saves + 1 ELSE rows[v][t]
  /\ Writes(ok) # bad => written = Tables
  /\ Writes(ok) = {} => written = {}
  /\ sqlfails' = IF bad = {} THEN sqlfails ELSE sqlfails + 1
  /\ answer' = [type |-> "SET", uid |-> w, results |-> Verdicts(bad), data |-> <<>>]
  /\ acked' \in [Uids -> [Tables -> Nat]]
  /\ \A v \in Uids, t \in Tables :
       acked'[v][t] = IF v = w /\ "direct" \notin bad THEN saves + 1 ELSE acked[v][t]
  /\ saves' = saves + 1 /\ asked' = asked
  /\ req' \in [Games -> Seq(Sent)]

LEMMA SetFacts ==
  ASSUME Inv, NEW g \in Games, SET(g)
  PROVE  \E w \in Uids, ok \in BOOLEAN : \E bad \in SUBSET Writes(ok), written \in SUBSET Tables :
           Saved(w, ok, bad, written)
<1> DEFINE m == Head(req[g])
           w == m.uid
<1>1. StoresOK /\ SetsAll /\ Queued /\ Calls(g, "SET")
  BY DEF Inv, SET
<1>2. m \in Sent /\ m.type = "SET" /\ [req EXCEPT ![g] = Tail(@)] \in [Games -> Seq(Sent)]
  BY <1>1, Received
<1>3. w \in Uids /\ m.tables = Tables
  BY <1>2, SentFields
<1> DEFINE Does(ok, bad, written) ==
             /\ set_to_redis(m, ok)
             /\ rows' = Put(rows, w, written, Version(m))
             /\ SqlFails(bad)
             /\ Answer(g, Verdicts(bad), <<>>)
             /\ acked' = IF Verdicts(bad) \in {<<1>>, <<0, 1>>} THEN Put(acked, w, m.tables, Version(m)) ELSE acked
<1>a. PICK ok \in BOOLEAN :
        \E bad \in SUBSET Writes(ok) : \E written \in set_to_mysql(m, Writes(ok), bad) : Does(ok, bad, written)
  BY DEF SET
<1>b. PICK bad \in SUBSET Writes(ok) :
        \E written \in set_to_mysql(m, Writes(ok), bad) : Does(ok, bad, written)
  BY <1>a
<1>4. PICK written \in set_to_mysql(m, Writes(ok), bad) : Does(ok, bad, written)
  BY <1>b
<1>5. saves' = saves + 1 /\ asked' = asked /\ saves + 1 \in Nat
  BY <1>1 DEF SET, StoresOK
<1>6. /\ written \in SUBSET Tables
      /\ Writes(ok) # bad => written = Tables
      /\ Writes(ok) = {} => written = {}
  BY <1>3, <1>4 DEF set_to_mysql
<1>7. \A t \in Tables : Version(m)[t] = saves + 1
  BY <1>3 DEF Version
<1>8. /\ answer' = [type |-> "SET", uid |-> w, results |-> Verdicts(bad), data |-> <<>>]
      /\ req' \in [Games -> Seq(Sent)]
  BY <1>2, <1>4 DEF Answer
<1>9. sqlfails' = IF bad = {} THEN sqlfails ELSE sqlfails + 1
  BY <1>4 DEF SqlFails
<1>10. /\ rows' \in [Uids -> [Tables -> Nat \cup {None}]]
       /\ \A v \in Uids, t \in Tables : rows'[v][t] = IF v = w /\ t \in written THEN saves + 1 ELSE rows[v][t]
  <2>1. rows \in [Uids -> [Tables -> Nat \cup {None}]]
    BY <1>1 DEF StoresOK
  <2>2. rows' = [rows EXCEPT ![w] = [t \in Tables |-> IF t \in written THEN saves + 1 ELSE rows[w][t]]]
    BY <1>3, <1>4, <1>6, <1>7, <2>1 DEF Put
  <2> HIDE DEF w, m
  <2> QED BY <1>3, <1>5, <2>1, <2>2
<1>11. /\ acked' \in [Uids -> [Tables -> Nat]]
       /\ \A v \in Uids, t \in Tables :
            acked'[v][t] = IF v = w /\ "direct" \notin bad THEN saves + 1 ELSE acked[v][t]
  <2>1. acked \in [Uids -> [Tables -> Nat]]
    BY <1>1 DEF StoresOK
  <2>2. CASE "direct" \in bad
    <3>1. acked' = acked
      BY <1>4, <2>2, VerdictsAre
    <3> QED BY <2>1, <2>2, <3>1
  <2>3. CASE "direct" \notin bad
    <3>1. acked' = Put(acked, w, m.tables, Version(m))
      BY <1>4, <2>3, VerdictsAre
    <3>2. acked' = [acked EXCEPT ![w] = [t \in Tables |-> saves + 1]]
      BY <1>3, <1>7, <2>1, <3>1 DEF Put
    <3> HIDE DEF w, m
    <3> QED BY <1>3, <1>5, <2>1, <2>3, <3>2
  <2> QED BY <2>2, <2>3
<1>12. Saved(w, ok, bad, written)
  <2>1. /\ cache' \in [Uids -> [Tables -> Nat \cup {None}]] /\ missed' \in [Uids -> SUBSET Tables]
        /\ redis' \in {"absent", "up", "broken"} /\ refusing' \in BOOLEAN
        /\ redis' = "up" => redis = "up"
        /\ refusals' \in Nat /\ refusals' >= refusals /\ breaks' \in Nat
        /\ refusing' => refusals' > 0
        /\ savelist \subseteq savelist' /\ savelist' \subseteq savelist \cup ({w} \X Tables)
        /\ ok => savelist' = savelist \cup ({w} \X Tables)
        /\ Replaced(w) \/ (Outdated(w) /\ (ok => refusals > 0) /\ (~ok => savelist' = savelist))
    BY <1>1, <1>2, <1>4, SetRedis
  <2> HIDE DEF w, m
  <2> QED BY <1>5, <1>6, <1>8, <1>9, <1>10, <1>11, <2>1 DEF Saved
<1> QED BY <1>3, <1>4, <1>6, <1>12

LEMMA SetStep ==
  ASSUME Inv, UNCHANGED <<delay_write, lapsed>>, NEW w \in Uids, NEW ok \in BOOLEAN,
         NEW bad \in SUBSET Writes(ok), NEW written \in SUBSET Tables, Saved(w, ok, bad, written)
  PROVE  Inv'
<1>1. StoresOK /\ SetsAll /\ Versions /\ Queued /\ AckedIsDurable /\ Whole
  BY DEF Inv
<1>2. /\ saves \in Nat /\ sqlfails \in Nat /\ refusals \in Nat
      /\ \A v \in Uids, t \in Tables : /\ rows[v][t] \in Nat \cup {None} /\ cache[v][t] \in Nat \cup {None}
                                       /\ acked[v][t] \in Nat /\ rows'[v][t] \in Nat \cup {None}
                                       /\ cache'[v][t] \in Nat \cup {None}
  BY <1>1 DEF StoresOK, Saved
<1>3. /\ \A v \in Uids, t \in Tables : rows'[v][t] = IF v = w /\ t \in written THEN saves + 1 ELSE rows[v][t]
      /\ \A v \in Uids, t \in Tables : acked'[v][t] = IF v = w /\ "direct" \notin bad THEN saves + 1 ELSE acked[v][t]
      /\ saves' = saves + 1
  BY DEF Saved
<1>4. Replaced(w) \/ (Outdated(w) /\ (ok => refusals > 0) /\ (~ok => savelist' = savelist))
  BY DEF Saved
<1>5. \A v \in Uids, t \in Tables : /\ cache'[v][t] \in {cache[v][t], saves + 1}
                                    /\ cache[v][t] # None => cache'[v][t] # None
                                    /\ v # w => cache'[v][t] = cache[v][t]
  BY <1>2, <1>4, DbsrvAssumption DEF Replaced, Outdated
<1>6. /\ sqlfails' = IF bad = {} THEN sqlfails ELSE sqlfails + 1
      /\ refusals' \in Nat /\ refusals' >= refusals
      /\ savelist \subseteq savelist' /\ savelist' \subseteq savelist \cup ({w} \X Tables)
      /\ ok => savelist' = savelist \cup ({w} \X Tables)
      /\ refusing' => refusals' > 0
      /\ Writes(ok) # bad => written = Tables
      /\ Writes(ok) = {} => written = {}
  BY DEF Saved
<1>7. StoresOK' /\ SetsAll'
  <2>1. savelist' \subseteq Uids \X Tables
    BY <1>1, <1>6 DEF StoresOK
  <2>2. req' \in [Games -> Seq(Sent)] /\ req' \in [Games -> Seq(Requests)]
    BY SentAreRequests DEF Saved
  <2>3. saves' \in Nat /\ sqlfails' \in Nat /\ asked' \in Nat
    BY <1>1, <1>2, <1>3, <1>6 DEF Saved, StoresOK
  <2> QED BY <1>1, <2>1, <2>2, <2>3 DEF StoresOK, SetsAll, Saved
<1>8. Versions'
  <2>1. ASSUME NEW v \in Uids, NEW t \in Tables
        PROVE  /\ acked'[v][t] <= saves'
               /\ rows'[v][t] # None => rows'[v][t] <= saves'
               /\ cache'[v][t] # None => cache'[v][t] <= saves'
    <3>1. /\ acked[v][t] <= saves
          /\ rows[v][t] # None => rows[v][t] <= saves
          /\ cache[v][t] # None => cache[v][t] <= saves
      BY <1>1 DEF Versions
    <3> QED BY <1>2, <1>3, <1>5, <3>1
  <2> QED BY <2>1 DEF Versions
<1>9. Queued'
  <2>1. ASSUME NEW v \in Uids, NEW t \in Tables, <<v, t>> \in savelist', v \notin lapsed', ~(refusals' > 0), NEW s \in Tables
        PROVE  cache'[v][s] # None
    <3>1. ~(refusals > 0) /\ v \notin lapsed
      BY <1>2, <1>6, <2>1
    <3>2. CASE <<v, t>> \in savelist
      <4>1. cache[v][s] # None
        BY <1>1, <3>1, <3>2 DEF Queued
      <4> QED BY <1>5, <4>1
    <3>3. CASE <<v, t>> \notin savelist
      <4>1. v = w /\ savelist' # savelist
        BY <1>6, <2>1, <3>3
      <4>2. Replaced(w)
        BY <1>4, <3>1, <4>1
      <4> QED BY <1>2, <4>1, <4>2, DbsrvAssumption DEF Replaced
    <3> QED BY <3>2, <3>3
  <2> QED BY <1>6, <2>1 DEF Queued
<1>10. AckedIsDurable'
  <2>1. ASSUME NEW v \in Uids, NEW t \in Tables, acked'[v][t] > 0
        PROVE  \/ rows'[v][t] # None /\ rows'[v][t] >= acked'[v][t]
               \/ /\ delay_write'
                  /\ \/ cache'[v][t] # None /\ cache'[v][t] >= acked'[v][t] /\ <<v, t>> \in savelist'
                     \/ v \in lapsed' \/ refusals' > 0 \/ sqlfails' > 0
    <3>1. CASE v = w /\ "direct" \notin bad
      <4>1. acked'[v][t] = saves + 1 /\ saves + 1 \in Nat /\ saves + 1 # None
        BY <1>2, <1>3, <3>1, DbsrvAssumption
      <4>2. CASE written = Tables
        BY <1>3, <3>1, <4>1, <4>2
      <4>3. CASE written # Tables
        <5>1. Writes(ok) = bad /\ delay_write
          BY <1>6, <3>1, <4>3 DEF Writes
        <5>2. CASE bad # {}
          <6>1. sqlfails' > 0
            BY <1>2, <1>6, <5>2
          <6> QED BY <5>1, <6>1
        <5>3. CASE bad = {}
          <6>1. ok
            BY <5>1, <5>3 DEF Writes
          <6>2. <<v, t>> \in savelist'
            BY <1>6, <3>1, <6>1
          <6>3. CASE Replaced(w)
            BY <3>1, <4>1, <5>1, <6>2, <6>3 DEF Replaced
          <6>4. CASE ~Replaced(w)
            <7>1. refusals' > 0
              BY <1>2, <1>4, <1>6, <6>1, <6>4
            <7> QED BY <5>1, <7>1
          <6> QED BY <6>3, <6>4
        <5> QED BY <5>2, <5>3
      <4> QED BY <4>2, <4>3
    <3>2. CASE ~(v = w /\ "direct" \notin bad)
      <4>1. acked'[v][t] = acked[v][t] /\ acked[v][t] <= saves /\ acked[v][t] > 0
        BY <1>1, <1>3, <2>1, <3>2 DEF Versions
      <4>2. rows[v][t] # None /\ rows[v][t] >= acked[v][t] => rows'[v][t] # None /\ rows'[v][t] >= acked[v][t]
        BY <1>2, <1>3, <4>1, DbsrvAssumption
      <4>3. cache[v][t] # None /\ cache[v][t] >= acked[v][t] => cache'[v][t] # None /\ cache'[v][t] >= acked[v][t]
        BY <1>2, <1>5, <4>1
      <4>4. (refusals > 0 => refusals' > 0) /\ (sqlfails > 0 => sqlfails' > 0)
        BY <1>2, <1>6
      <4>5. \/ rows[v][t] # None /\ rows[v][t] >= acked[v][t]
            \/ /\ delay_write
               /\ \/ cache[v][t] # None /\ cache[v][t] >= acked[v][t] /\ <<v, t>> \in savelist
                  \/ v \in lapsed \/ refusals > 0 \/ sqlfails > 0
        BY <1>1, <4>1 DEF AckedIsDurable
      <4> QED BY <1>6, <4>1, <4>2, <4>3, <4>4, <4>5
    <3> QED BY <3>1, <3>2
  <2> QED BY <2>1 DEF AckedIsDurable
<1>11. Whole'
  <2> SUFFICES ASSUME sqlfails' = 0, NEW v \in Uids
               PROVE  /\ \A t, s \in Tables : rows'[v][t] = rows'[v][s]
                      /\ \/ \A t \in Fresh(v)' : cache'[v][t] = Row(v, t)'
                         \/ Fresh(v)' = Tables /\ \A t, s \in Tables : cache'[v][t] = cache'[v][s]
    BY DEF Whole
  <2>1. sqlfails = 0 /\ bad = {}
    BY <1>2, <1>6
  <2>2. /\ \A t, s \in Tables : rows[v][t] = rows[v][s]
        /\ \/ \A t \in Fresh(v) : cache[v][t] = Row(v, t)
           \/ Fresh(v) = Tables /\ \A t, s \in Tables : cache[v][t] = cache[v][s]
    BY <1>1, <2>1 DEF Whole
  <2>3. written = Tables \/ written = {}
    BY <1>6, <2>1
  <2>4. \A t, s \in Tables : rows'[v][t] = rows'[v][s]
    BY <1>3, <2>2, <2>3
  <2>5. CASE v = w
    <3>1. CASE Replaced(w)
      <4>1. \A t \in Tables : cache'[v][t] = saves + 1 /\ saves + 1 # None /\ missed'[v] = {}
        BY <1>2, <2>5, <3>1, DbsrvAssumption DEF Replaced
      <4>2. Fresh(v)' = Tables
        BY <4>1 DEF Fresh
      <4> QED BY <2>4, <4>1, <4>2
    <3>2. CASE Outdated(w)
      <4>1. cache' = cache /\ missed'[v] = missed[v] \cup {t \in Tables : cache[v][t] # None}
        BY <2>5, <3>2 DEF Outdated
      <4>2. Fresh(v)' = {}
        BY <4>1 DEF Fresh
      <4> QED BY <2>4, <4>2
    <3> QED BY <1>4, <3>1, <3>2
  <2>6. CASE v # w
    <3>1. /\ \A t \in Tables : rows'[v][t] = rows[v][t] /\ cache'[v][t] = cache[v][t]
          /\ missed'[v] = missed[v]
      BY <1>3, <1>4, <1>5, <2>6 DEF Replaced, Outdated
    <3>2. Fresh(v)' = Fresh(v)
      BY <3>1 DEF Fresh
    <3>3. \A t \in Tables : Row(v, t)' = Row(v, t)
      BY <3>1 DEF Row
    <3>4. Fresh(v) \subseteq Tables
      BY DEF Fresh
    <3> QED BY <2>2, <2>4, <3>1, <3>2, <3>3, <3>4
  <2> QED BY <2>5, <2>6
<1> QED BY <1>7, <1>8, <1>9, <1>10, <1>11 DEF Inv

-----------------------------------------------------------------------------
(* GET *)

\* What a GET leaves alone, and what it finds out about Redis.
Looked ==
  /\ savelist' = savelist /\ rows' = rows /\ saves' = saves /\ acked' = acked /\ asked' = asked
  /\ delay_write' = delay_write /\ lapsed' = lapsed
  /\ redis' \in {"absent", "up", "broken"} /\ refusing' \in BOOLEAN
  /\ redis' = "up" => redis = "up"
  /\ refusals' \in Nat /\ refusals' >= refusals /\ breaks' \in Nat
  /\ refusing' => refusals' > 0
  /\ req' \in [Games -> Seq(Sent)]
  /\ sqlfails' \in Nat /\ sqlfails' >= sqlfails

\* The tables are copied from MySQL into a hash that did not have all of them.
Filled(w, tables) ==
  /\ redis = "up" /\ \E t \in tables : cache[w][t] = None
  /\ cache' \in [Uids -> [Tables -> Nat \cup {None}]] /\ missed' \in [Uids -> SUBSET Tables]
  /\ \A v \in Uids, t \in Tables : cache'[v][t] = IF v = w /\ t \in tables THEN Row(w, t) ELSE cache[v][t]
  /\ \A v \in Uids : missed'[v] = IF v = w THEN missed[w] \ tables ELSE missed[v]

LEMMA RowType ==
  ASSUME StoresOK, NEW u \in Uids, NEW t \in Tables
  PROVE  Row(u, t) \in Nat /\ Row(u, t) # None
  BY DbsrvAssumption DEF StoresOK, Row

\* The request, its tables and the answer of the GETs that succeed.
Loaded(w, tables, data) ==
  answer' = [type |-> "GET", uid |-> w, results |-> <<1>>, data |-> [t \in tables |-> data[t]]]

LEMMA RedisFacts ==
  ASSUME Inv, UNCHANGED <<delay_write, lapsed>>, NEW g \in Games, get_from_redis(g)
  PROVE  \E w \in Uids, tables \in SUBSET Tables :
           /\ Looked /\ Loaded(w, tables, cache[w]) /\ cache' = cache /\ missed' = missed /\ sqlfails' = sqlfails
           /\ redis = "up" /\ \A t \in tables : cache[w][t] # None
<1> DEFINE m == Head(req[g])
<1>1. StoresOK /\ SetsAll /\ Queued /\ Calls(g, "GET")
  BY DEF Inv, get_from_redis
<1>2. m \in Sent /\ m.type = "GET" /\ [req EXCEPT ![g] = Tail(@)] \in [Games -> Seq(Sent)]
  BY <1>1, Received
<1>3. m.uid \in Uids /\ m.tables \in SUBSET Tables
  BY <1>2, SentFields
<1>4. /\ UNCHANGED <<cache, savelist, rows, saves, acked, missed, asked, sqlfails>> /\ Hit(m)
      /\ Answer(g, <<1>>, [t \in m.tables |-> cache[m.uid][t]])
      /\ \E r \in {"up", "broken"} : Fate(r, refusing)
  BY DEF get_from_redis
<1>5. /\ redis' \in {"absent", "up", "broken"} /\ refusing' \in BOOLEAN
      /\ redis' = "up" => redis = "up"
      /\ refusals' \in Nat /\ refusals' >= refusals /\ breaks' \in Nat
      /\ refusing' => refusals' > 0
  <2>1. refusing \in BOOLEAN
    BY <1>1 DEF StoresOK
  <2> QED BY <1>1, <1>4, <2>1, FateFacts
<1>6. Loaded(m.uid, m.tables, cache[m.uid]) /\ req' \in [Games -> Seq(Sent)]
  BY <1>2, <1>4 DEF Answer, Loaded
<1>7. redis = "up" /\ \A t \in m.tables : cache[m.uid][t] # None
  BY <1>4 DEF Hit
<1>8. Looked
  <2>1. sqlfails \in Nat /\ sqlfails >= sqlfails
    BY <1>1 DEF StoresOK
  <2> QED BY <1>4, <1>5, <1>6, <2>1 DEF Looked
<1> QED BY <1>3, <1>4, <1>6, <1>7, <1>8

LEMMA MysqlFacts ==
  ASSUME Inv, UNCHANGED <<delay_write, lapsed>>, NEW g \in Games, get_from_mysql(g)
  PROVE  \E w \in Uids, tables \in SUBSET Tables :
           /\ Looked /\ Loaded(w, tables, [t \in Tables |-> Row(w, t)]) /\ sqlfails' = sqlfails
           /\ Filled(w, tables) \/ (cache' = cache /\ missed' = missed)
<1> DEFINE m == Head(req[g])
           w == m.uid
<1>1. StoresOK /\ SetsAll /\ Queued /\ Calls(g, "GET")
  BY DEF Inv, get_from_mysql
<1>2. m \in Sent /\ m.type = "GET" /\ [req EXCEPT ![g] = Tail(@)] \in [Games -> Seq(Sent)]
  BY <1>1, Received
<1>3. w \in Uids /\ m.tables \in SUBSET Tables
  BY <1>2, SentFields
<1>4. /\ UNCHANGED <<savelist, rows, saves, acked, asked, sqlfails>> /\ Miss(m)
      /\ Answer(g, <<1>>, Select(m))
      /\ \/ redis = "up" /\ ~refusing /\ Cached(w, m.tables, Select(m))
         \/ cache' = cache /\ missed' = missed
  BY DEF get_from_mysql
<1>5. \E r \in {"absent", "up", "broken"}, f \in BOOLEAN : Fate(r, f)
  <2>1. refusing \in BOOLEAN
    BY <1>1 DEF StoresOK
  <2> QED BY <2>1 DEF get_from_mysql
<1>6. /\ redis' \in {"absent", "up", "broken"} /\ refusing' \in BOOLEAN
      /\ redis' = "up" => redis = "up"
      /\ refusals' \in Nat /\ refusals' >= refusals /\ breaks' \in Nat
      /\ refusing' => refusals' > 0
  BY <1>1, <1>5, FateFacts
<1>7. Select(m) = [t \in m.tables |-> Row(w, t)]
  BY DEF Select, Row
<1>8. Loaded(w, m.tables, [t \in Tables |-> Row(w, t)]) /\ req' \in [Games -> Seq(Sent)]
  <2>1. [t \in m.tables |-> [s \in Tables |-> Row(w, s)][t]] = [t \in m.tables |-> Row(w, t)]
    BY <1>3
  <2> QED BY <1>2, <1>4, <1>7, <2>1 DEF Answer, Loaded
<1>9. Looked
  <2>1. sqlfails \in Nat /\ sqlfails >= sqlfails
    BY <1>1 DEF StoresOK
  <2> QED BY <1>4, <1>6, <1>8, <2>1 DEF Looked
<1>10. ASSUME redis = "up", ~refusing, Cached(w, m.tables, Select(m))
       PROVE  Filled(w, m.tables)
  <2>1. \E t \in m.tables : cache[w][t] = None
    BY <1>4, <1>10 DEF Miss, Hit
  <2>2. cache \in [Uids -> [Tables -> Nat \cup {None}]] /\ missed \in [Uids -> SUBSET Tables]
    BY <1>1 DEF StoresOK
  <2>3. /\ cache' = [cache EXCEPT ![w] = [t \in Tables |-> IF t \in m.tables THEN Row(w, t) ELSE cache[w][t]]]
        /\ missed' = [missed EXCEPT ![w] = @ \ m.tables]
    BY <1>3, <1>7, <1>10, <2>2 DEF Cached, Put
  <2>4. \A t \in Tables : Row(w, t) \in Nat
    BY <1>1, <1>3, RowType
  <2> HIDE DEF w, m
  <2>5. cache' \in [Uids -> [Tables -> Nat \cup {None}]]
    BY <1>3, <2>2, <2>3, <2>4
  <2>6. \A v \in Uids, t \in Tables : cache'[v][t] = IF v = w /\ t \in m.tables THEN Row(w, t) ELSE cache[v][t]
    BY <1>3, <2>2, <2>3
  <2>7. missed' \in [Uids -> SUBSET Tables] /\ \A v \in Uids : missed'[v] = IF v = w THEN missed[w] \ m.tables ELSE missed[v]
    BY <1>3, <2>2, <2>3
  <2> QED BY <1>10, <2>1, <2>5, <2>6, <2>7 DEF Filled
<1> QED BY <1>3, <1>4, <1>8, <1>9, <1>10

\* A GET that leaves the cache alone.
LEMMA LookStep ==
  ASSUME Inv, Looked, cache' = cache, missed' = missed
  PROVE  Inv'
<1>1. StoresOK /\ SetsAll /\ Versions /\ Queued /\ AckedIsDurable /\ Whole
  BY DEF Inv
<1>2. refusals \in Nat /\ sqlfails \in Nat
  BY <1>1 DEF StoresOK
<1>3. req' \in [Games -> Seq(Requests)]
  BY SentAreRequests DEF Looked
<1>4. StoresOK' /\ SetsAll'
  BY <1>1, <1>3 DEF StoresOK, SetsAll, Looked
<1>5. (refusals > 0 => refusals' > 0) /\ (sqlfails > 0 => sqlfails' > 0) /\ (sqlfails' = 0 => sqlfails = 0)
  BY <1>2 DEF Looked
<1>6. Versions' /\ Queued' /\ AckedIsDurable'
  BY <1>1, <1>5 DEF Versions, Queued, AckedIsDurable, Looked
<1>7. Whole'
  BY <1>1, <1>5 DEF Whole, Fresh, Row, Looked
<1> QED BY <1>4, <1>6, <1>7 DEF Inv

\* A GET that copies tables into the cache.  Nothing that is queued is lost: a
\* hash that has not expired since has all tables, and is not filled.
LEMMA FillStep ==
  ASSUME Inv, Looked, NEW w \in Uids, NEW tables \in SUBSET Tables, Filled(w, tables)
  PROVE  Inv'
<1>1. StoresOK /\ SetsAll /\ Versions /\ Queued /\ AckedIsDurable /\ Whole
  BY DEF Inv
<1>2. /\ refusals \in Nat /\ sqlfails \in Nat /\ saves \in Nat
      /\ \A v \in Uids, t \in Tables : rows[v][t] \in Nat \cup {None} /\ cache[v][t] \in Nat \cup {None}
  BY <1>1 DEF StoresOK
<1>3. req' \in [Games -> Seq(Requests)]
  BY SentAreRequests DEF Looked
<1>4. StoresOK' /\ SetsAll'
  BY <1>1, <1>3 DEF StoresOK, SetsAll, Looked, Filled
<1>5. (refusals > 0 => refusals' > 0) /\ (sqlfails > 0 => sqlfails' > 0) /\ (sqlfails' = 0 => sqlfails = 0)
  BY <1>2 DEF Looked
<1>6. /\ rows' = rows /\ saves' = saves /\ acked' = acked /\ savelist' = savelist /\ lapsed' = lapsed
      /\ delay_write' = delay_write
      /\ refusing' => refusals' > 0
  BY DEF Looked
<1>7. \A t \in Tables : Row(w, t) \in Nat /\ Row(w, t) # None /\ Row(w, t) <= saves
  <2>1. ASSUME NEW t \in Tables PROVE Row(w, t) \in Nat /\ Row(w, t) # None /\ Row(w, t) <= saves
    <3>1. Row(w, t) \in Nat /\ Row(w, t) # None
      BY <1>1, RowType
    <3>2. rows[w][t] # None => rows[w][t] <= saves
      BY <1>1 DEF Versions
    <3> QED BY <1>2, <3>1, <3>2 DEF Row
  <2> QED BY <2>1
<1>8. \A v \in Uids, t \in Tables : cache'[v][t] = IF v = w /\ t \in tables THEN Row(w, t) ELSE cache[v][t]
  BY DEF Filled
<1>9. \E t \in Tables : cache[w][t] = None
  BY DEF Filled
<1>10. Versions'
  BY <1>1, <1>6, <1>7, <1>8 DEF Versions
<1>11. Queued'
  <2>1. \A v \in Uids, t \in Tables : cache[v][t] # None => cache'[v][t] # None
    BY <1>7, <1>8
  <2> QED BY <1>1, <1>5, <1>6, <2>1 DEF Queued
<1>12. AckedIsDurable'
  <2>1. ASSUME NEW v \in Uids, NEW t \in Tables, acked'[v][t] > 0
        PROVE  \/ rows'[v][t] # None /\ rows'[v][t] >= acked'[v][t]
               \/ /\ delay_write'
                  /\ \/ cache'[v][t] # None /\ cache'[v][t] >= acked'[v][t] /\ <<v, t>> \in savelist'
                     \/ v \in lapsed' \/ refusals' > 0 \/ sqlfails' > 0
    <3>1. \/ rows[v][t] # None /\ rows[v][t] >= acked[v][t]
          \/ /\ delay_write
             /\ \/ cache[v][t] # None /\ cache[v][t] >= acked[v][t] /\ <<v, t>> \in savelist
                \/ v \in lapsed \/ refusals > 0 \/ sqlfails > 0
      BY <1>1, <1>6, <2>1 DEF AckedIsDurable
    <3>2. CASE v # w
      BY <1>5, <1>6, <1>8, <3>1, <3>2
    <3>3. CASE v = w
      <4>1. <<v, t>> \in savelist => v \in lapsed \/ refusals > 0
        BY <1>1, <1>9, <3>3 DEF Queued
      <4> QED BY <1>5, <1>6, <3>1, <4>1
    <3> QED BY <3>2, <3>3
  <2> QED BY <2>1 DEF AckedIsDurable
<1>13. Whole'
  <2> SUFFICES ASSUME sqlfails' = 0, NEW v \in Uids
               PROVE  /\ \A t, s \in Tables : rows'[v][t] = rows'[v][s]
                      /\ \/ \A t \in Fresh(v)' : cache'[v][t] = Row(v, t)'
                         \/ Fresh(v)' = Tables /\ \A t, s \in Tables : cache'[v][t] = cache'[v][s]
    BY DEF Whole
  <2>1. sqlfails = 0
    BY <1>5
  <2>2. /\ \A t, s \in Tables : rows[v][t] = rows[v][s]
        /\ \/ \A t \in Fresh(v) : cache[v][t] = Row(v, t)
           \/ Fresh(v) = Tables /\ \A t, s \in Tables : cache[v][t] = cache[v][s]
    BY <1>1, <2>1 DEF Whole
  <2>3. \A t \in Tables : Row(v, t)' = Row(v, t)
    BY <1>6 DEF Row
  <2>4. CASE v = w
    <3>1. \A t \in Fresh(v) : cache[v][t] = Row(v, t)
      BY <1>9, <2>2, <2>4 DEF Fresh
    <3>2. \A t \in Fresh(v)' : t \in Tables /\ (t \in tables \/ t \in Fresh(v))
      BY <1>8, <2>4 DEF Fresh, Filled
    <3>3. \A t \in Fresh(v)' : cache'[v][t] = Row(v, t)'
      BY <1>8, <2>3, <2>4, <3>1, <3>2
    <3> QED BY <1>6, <2>2, <3>3
  <2>5. CASE v # w
    <3>1. \A t \in Tables : cache'[v][t] = cache[v][t] /\ missed'[v] = missed[v]
      BY <1>8, <2>5 DEF Filled
    <3>2. Fresh(v)' = Fresh(v) /\ Fresh(v) \subseteq Tables
      BY <3>1 DEF Fresh
    <3> QED BY <1>6, <2>2, <2>3, <3>1, <3>2
  <2> QED BY <2>4, <2>5
<1> QED BY <1>4, <1>10, <1>11, <1>12, <1>13 DEF Inv

-----------------------------------------------------------------------------
(* The other steps *)

\* A request that is not answered with tables: MySQL fails, or the handler raises.
LEMMA FailFacts ==
  ASSUME Inv, UNCHANGED <<delay_write, lapsed>>, NEW g \in Games,
         GetFails(g) \/ HmgetRaises(g) \/ SelectRaises(g)
  PROVE  Looked /\ cache' = cache /\ missed' = missed
<1>1. StoresOK /\ SetsAll /\ Queued
  BY DEF Inv
<1>2. CASE GetFails(g)
  <2>1. Calls(g, "GET") /\ req' = [req EXCEPT ![g] = Tail(@)]
    BY <1>2 DEF GetFails, Answer
  <2>2. req' \in [Games -> Seq(Sent)]
    BY <1>1, <2>1, Received
  <2>3. sqlfails' = sqlfails + 1 /\ UNCHANGED <<storeVars, saves, acked, missed, asked, refusals, breaks>>
    BY <1>2 DEF GetFails, SqlFails
  <2>4. sqlfails' \in Nat /\ sqlfails' >= sqlfails /\ refusals >= refusals
    BY <1>1, <2>3 DEF StoresOK
  <2> QED BY <1>1, <2>2, <2>3, <2>4 DEF Looked, storeVars, StoresOK, Queued
<1>3. CASE HmgetRaises(g)
  <2>1. /\ UNCHANGED <<cache, savelist, rows, req, answer, saves, acked, missed, asked, sqlfails>>
        /\ Fate("broken", refusing)
    BY <1>3 DEF HmgetRaises
  <2>2. refusing \in BOOLEAN /\ sqlfails \in Nat /\ sqlfails >= sqlfails
    BY <1>1 DEF StoresOK
  <2>3. /\ redis' \in {"absent", "up", "broken"} /\ refusing' \in BOOLEAN
        /\ redis' = "up" => redis = "up"
        /\ refusals' \in Nat /\ refusals' >= refusals /\ breaks' \in Nat
        /\ refusing' => refusals' > 0
    BY <1>1, <2>1, <2>2, FateFacts
  <2> QED BY <1>1, <2>1, <2>2, <2>3 DEF Looked, SetsAll
<1>4. CASE SelectRaises(g)
  <2>1. UNCHANGED <<storeVars, req, answer, saves, acked, missed, asked, sqlfails, refusals, breaks>>
    BY <1>4 DEF SelectRaises
  <2>2. sqlfails \in Nat /\ sqlfails >= sqlfails /\ refusals \in Nat /\ refusals >= refusals
    BY <1>1 DEF StoresOK
  <2> QED BY <1>1, <2>1, <2>2 DEF Looked, SetsAll, storeVars, StoresOK, Queued
<1> QED BY <1>2, <1>3, <1>4

LEMMA ExpireStep ==
  ASSUME Inv, NEW u \in Uids, Expire(u)
  PROVE  Inv'
<1>1. StoresOK /\ SetsAll /\ Versions /\ Queued /\ AckedIsDurable /\ Whole
  BY DEF Inv
<1>2. /\ cache' = [cache EXCEPT ![u] = [t \in Tables |-> None]]
      /\ missed' = [missed EXCEPT ![u] = {}] /\ lapsed' = lapsed \cup {u}
      /\ UNCHANGED <<savelist, rows, redis, refusing, req, answer, saves, acked,
                     asked, sqlfails, refusals, breaks, delay_write>>
  BY DEF Expire
<1>3. cache \in [Uids -> [Tables -> Nat \cup {None}]] /\ missed \in [Uids -> SUBSET Tables]
  BY <1>1 DEF StoresOK
<1>4. /\ cache' \in [Uids -> [Tables -> Nat \cup {None}]] /\ missed' \in [Uids -> SUBSET Tables]
      /\ \A v \in Uids, t \in Tables : cache'[v][t] = IF v = u THEN None ELSE cache[v][t]
      /\ \A v \in Uids : missed'[v] = IF v = u THEN {} ELSE missed[v]
  BY <1>2, <1>3
<1>5. StoresOK' /\ SetsAll'
  BY <1>1, <1>2, <1>4 DEF StoresOK, SetsAll
<1>6. Versions' /\ Queued' /\ AckedIsDurable'
  <2>1. Versions'
    BY <1>1, <1>2, <1>4 DEF Versions
  <2>2. Queued'
    BY <1>1, <1>2, <1>4 DEF Queued
  <2>3. AckedIsDurable'
    BY <1>1, <1>2, <1>4 DEF AckedIsDurable
  <2> QED BY <2>1, <2>2, <2>3
<1>7. Whole'
  <2>1. Fresh(u)' = {}
    BY <1>4 DEF Fresh
  <2>2. \A v \in Uids \ {u} : Fresh(v)' = Fresh(v) /\ Fresh(v) \subseteq Tables
    BY <1>4 DEF Fresh
  <2>3. \A v \in Uids, t \in Tables : Row(v, t)' = Row(v, t)
    BY <1>2 DEF Row
  <2> QED BY <1>1, <1>2, <1>4, <2>1, <2>2, <2>3 DEF Whole
<1> QED BY <1>5, <1>6, <1>7 DEF Inv

LEMMA AskStep ==
  ASSUME Inv, NEW g \in Games, NEW u \in Uids, NEW type, NEW tables,
         type \in {"GET", "SET"}, tables \in Asked \cup {Tables}, type = "SET" => tables = Tables,
         Ask(g, type, u, tables)
  PROVE  Inv'
<1>1. StoresOK /\ SetsAll /\ Versions /\ Queued /\ AckedIsDurable /\ Whole
  BY DEF Inv
<1>2. [type |-> type, uid |-> u, tables |-> tables] \in Sent
  BY DEF Sent, Requests
<1>3. /\ req' = [req EXCEPT ![g] = Append(@, [type |-> type, uid |-> u, tables |-> tables])]
      /\ asked' = asked + 1
      /\ UNCHANGED <<storeVars, answer, saves, acked, missed, sqlfails, refusals, breaks, delay_write, lapsed>>
  BY DEF Ask
<1>4. SetsAll'
  BY <1>1, <1>2, <1>3 DEF SetsAll
<1>5. req' \in [Games -> Seq(Requests)]
  BY <1>4, SentAreRequests DEF SetsAll
<1>6. asked' \in Nat
  BY <1>1, <1>3 DEF StoresOK
<1>7. StoresOK'
  BY <1>1, <1>3, <1>5, <1>6 DEF StoresOK, storeVars
<1>8. Versions' /\ Queued' /\ AckedIsDurable' /\ Whole'
  BY <1>1, <1>3 DEF Versions, Queued, AckedIsDurable, Whole, Fresh, Row, storeVars
<1> QED BY <1>4, <1>7, <1>8 DEF Inv

LEMMA InvStep ==
  ASSUME Inv, [Next]_vars
  PROVE  Inv'
<1>1. ASSUME NEW g \in Games, Handle(g) PROVE Inv'
  <2>0. UNCHANGED <<delay_write, lapsed>>
    BY <1>1 DEF Handle
  <2>1. CASE get_from_redis(g)
    BY <2>0, <2>1, RedisFacts, LookStep
  <2>2. CASE GetFails(g) \/ HmgetRaises(g) \/ SelectRaises(g)
    BY <2>0, <2>2, FailFacts, LookStep
  <2>3. CASE get_from_mysql(g)
    BY <2>0, <2>3, MysqlFacts, LookStep, FillStep
  <2>4. CASE SET(g)
    <3>1. \E w \in Uids, ok \in BOOLEAN : \E bad \in SUBSET Writes(ok), written \in SUBSET Tables :
            Saved(w, ok, bad, written)
      BY <2>4, SetFacts
    <3> QED BY <2>0, <3>1, SetStep
  <2> QED BY <1>1, <2>1, <2>2, <2>3, <2>4 DEF Handle
<1>2. ASSUME NEW g \in Games, NEW u \in Uids, NEW tables \in Asked, Ask(g, "GET", u, tables) PROVE Inv'
  BY <1>2, AskStep
<1>3. ASSUME NEW g \in Games, NEW u \in Uids, Ask(g, "SET", u, Tables) PROVE Inv'
  BY <1>3, AskStep
<1>4. ASSUME NEW u \in Uids, Expire(u) PROVE Inv'
  BY <1>4, ExpireStep
<1>5. CASE Recover
  <2>1. /\ refusing' = FALSE
        /\ UNCHANGED <<cache, savelist, rows, redis, req, answer, saves, acked, missed,
                       asked, sqlfails, refusals, breaks, delay_write, lapsed>>
    BY <1>5 DEF Recover
  <2>2. StoresOK' /\ SetsAll'
    BY <2>1 DEF Inv, StoresOK, SetsAll
  <2>3. Versions' /\ Queued' /\ AckedIsDurable' /\ Whole'
    BY <2>1 DEF Inv, Versions, Queued, AckedIsDurable, Whole, Fresh, Row
  <2> QED BY <2>2, <2>3 DEF Inv
<1>6. CASE UNCHANGED vars
  <2>1. StoresOK' /\ SetsAll'
    BY <1>6 DEF vars, Inv, StoresOK, SetsAll
  <2>2. Versions' /\ Queued' /\ AckedIsDurable' /\ Whole'
    BY <1>6 DEF vars, Inv, Versions, Queued, AckedIsDurable, Whole, Fresh, Row
  <2> QED BY <2>1, <2>2 DEF Inv
<1> QED BY <1>1, <1>2, <1>3, <1>4, <1>5, <1>6 DEF Next

LEMMA InvInit == Init => Inv
<1> SUFFICES ASSUME Init PROVE Inv
  OBVIOUS
<1>1. StoresOK
  <2>1. req \in [Games -> Seq(Requests)]
    BY DEF Init
  <2>2. /\ cache \in [Uids -> [Tables -> Nat \cup {None}]] /\ rows \in [Uids -> [Tables -> Nat \cup {None}]]
        /\ acked \in [Uids -> [Tables -> Nat]] /\ missed \in [Uids -> SUBSET Tables]
    BY DEF Init
  <2>3. delay_write \in BOOLEAN
    <3>1. PICK c \in Configs : delay_write = c[1]
      BY DEF Init
    <3>2. c \in BOOLEAN \X SUBSET Tables
      BY DbsrvAssumption
    <3> QED BY <3>1, <3>2
  <2> QED BY <2>1, <2>2, <2>3 DEF Init, StoresOK
<1>2. SetsAll
  BY DEF Init, SetsAll
<1>3. Versions /\ Queued /\ AckedIsDurable
  BY DEF Init, Versions, Queued, AckedIsDurable
<1>4. Whole
  BY DEF Init, Whole, Fresh
<1> QED BY <1>1, <1>2, <1>3, <1>4 DEF Inv

LEMMA Invariance == Spec => []Inv
  BY InvInit, InvStep, PTL DEF Spec

\* The cache, the list of what is to be saved and MySQL hold versions of tables
\* of players, and requests name tables of the configuration.
THEOREM TypeCorrect == Spec => []TypeOK
<1> DEFINE Fixed == described \subseteq Tables /\ stuck \subseteq Games
<1>1. Inv => StoresOK
  BY DEF Inv
<1>2. Init => Fixed
  BY DbsrvAssumption DEF Init
<1>3. Fixed /\ [Next]_vars => Fixed'
  <2> SUFFICES ASSUME Fixed, [Next]_vars PROVE Fixed'
    OBVIOUS
  <2>1. ASSUME NEW g \in Games, Handle(g) PROVE Fixed'
    BY <2>1 DEF Handle
  <2>2. ASSUME NEW g, NEW type, NEW u, NEW tables, Ask(g, type, u, tables) PROVE Fixed'
    BY <2>2 DEF Ask
  <2>3. ASSUME NEW u, Expire(u) PROVE Fixed'
    BY <2>3 DEF Expire
  <2>4. CASE Recover \/ UNCHANGED vars
    BY <2>4 DEF Recover, vars
  <2> QED BY <2>1, <2>2, <2>3, <2>4 DEF Next
<1> QED BY <1>1, <1>2, <1>3, Invariance, PTL DEF Spec, TypeOK

\* A SET answered with 1 is in MySQL and no later request undoes it; with
\* delayed writes it is in the cache and queued, unless the hash expired, Redis
\* refused a write or a MySQL command failed.
THEOREM AckedStaysDurable == Spec => []AckedIsDurable
<1>1. Inv => AckedIsDurable
  BY DEF Inv
<1> QED BY <1>1, Invariance, PTL

-----------------------------------------------------------------------------
(* Loads are of one save *)

\* The answer of a GET that the step handled.
WholeAnswer ==
  req' # req /\ asked' = asked /\ answer'.type = "GET" /\ sqlfails = 0 =>
    \A t, s \in DOMAIN answer'.data \ missed[answer'.uid] : answer'.data[t] = answer'.data[s]

LEMMA WholeStep ==
  ASSUME Inv, Next
  PROVE  WholeAnswer
<1> SUFFICES ASSUME req' # req, asked' = asked, answer'.type = "GET", sqlfails = 0,
                    NEW t \in DOMAIN answer'.data \ missed[answer'.uid],
                    NEW s \in DOMAIN answer'.data \ missed[answer'.uid]
             PROVE  answer'.data[t] = answer'.data[s]
  BY DEF WholeAnswer
<1>1. \A v \in Uids :
        /\ \A x, y \in Tables : rows[v][x] = rows[v][y]
        /\ \/ \A x \in Fresh(v) : cache[v][x] = Row(v, x)
           \/ Fresh(v) = Tables /\ \A x, y \in Tables : cache[v][x] = cache[v][y]
  BY DEF Inv, Whole
<1>2. ASSUME Recover \/ \E u \in Uids : Expire(u) PROVE FALSE
  BY <1>2 DEF Expire, Recover
<1>3. ASSUME NEW g \in Games, NEW u \in Uids, NEW type, NEW tables, Ask(g, type, u, tables) PROVE FALSE
  BY <1>3 DEF Ask, Inv, StoresOK
<1>4. ASSUME NEW g \in Games, Handle(g) PROVE answer'.data[t] = answer'.data[s]
  <2>0. UNCHANGED <<delay_write, lapsed>>
    BY <1>4 DEF Handle
  <2>1. CASE get_from_redis(g)
    <3>1. PICK w \in Uids, tables \in SUBSET Tables :
            Loaded(w, tables, cache[w]) /\ \A x \in tables : cache[w][x] # None
      BY <2>0, <2>1, RedisFacts
    <3>2. answer'.uid = w /\ answer'.data = [x \in tables |-> cache[w][x]]
      BY <3>1 DEF Loaded
    <3>3. t \in Fresh(w) /\ s \in Fresh(w) /\ t \in tables /\ s \in tables
      BY <3>1, <3>2 DEF Fresh
    <3>4. cache[w][t] = cache[w][s]
      BY <1>1, <3>3 DEF Row, Fresh
    <3> QED BY <3>2, <3>3, <3>4
  <2>2. CASE get_from_mysql(g)
    <3>1. PICK w \in Uids, tables \in SUBSET Tables : Loaded(w, tables, [x \in Tables |-> Row(w, x)])
      BY <2>0, <2>2, MysqlFacts
    <3>2. answer'.data = [x \in tables |-> [y \in Tables |-> Row(w, y)][x]]
      BY <3>1 DEF Loaded
    <3>3. t \in tables /\ s \in tables /\ t \in Tables /\ s \in Tables
      BY <3>1, <3>2
    <3>4. Row(w, t) = Row(w, s)
      BY <1>1, <3>3 DEF Row
    <3> QED BY <3>2, <3>3, <3>4
  <2>3. CASE GetFails(g)
    <3>1. answer'.data = <<>>
      BY <2>3 DEF GetFails, Answer
    <3>2. DOMAIN <<>> = {}
      OBVIOUS
    <3> QED BY <3>1, <3>2
  <2>4. CASE HmgetRaises(g) \/ SelectRaises(g)
    BY <2>4 DEF HmgetRaises, SelectRaises
  <2>5. CASE SET(g)
    BY <2>5 DEF SET, Answer, Calls
  <2> QED BY <1>4, <2>1, <2>2, <2>3, <2>4, <2>5 DEF Handle
<1> QED BY <1>2, <1>3, <1>4 DEF Next

\* A GET answers tables of one save, however the cache was filled, unless a
\* MySQL command failed or the cache has a copy that a SET could not replace.
THEOREM LoadsAreWhole == Spec => LoadIsWhole
<1>1. Inv /\ [Next]_vars => [WholeAnswer]_vars
  BY WholeStep
<1>2. LoadIsWhole <=> [][WholeAnswer]_vars
  BY PTL DEF LoadIsWhole, WholeAnswer
<1> QED BY <1>1, <1>2, Invariance, PTL DEF Spec

-----------------------------------------------------------------------------
(* Dbsrv implements PlayerStore *)

StaleOf(u) == IF delay_write THEN Tables ELSE missed[u]

LEMMA LoadableIs ==
  ASSUME NEW u, NEW t
  PROVE  /\ Loadable(u, t) = {Row(u, t)} \cup (IF redis = "up" /\ cache[u][t] # None THEN {cache[u][t]} ELSE {})
         /\ Loadable(u, t) # {} /\ Row(u, t) \in Loadable(u, t)
  BY DEF Loadable, Row

\* What may be loaded shrinks, of w and of all others.
Shrinks(w) ==
  /\ \A v \in Uids, t \in Tables : Loadable(v, t)' \subseteq Loadable(v, t) /\ Loadable(v, t)' # {}
  /\ \A v \in Uids \ {w} : StaleOf(v)' = StaleOf(v)
  /\ StaleOf(w)' \subseteq StaleOf(w)

LEMMA WithinShrinks ==
  ASSUME NEW w \in Uids, Shrinks(w)
  PROVE  /\ Store!Within(w, [u \in Uids |-> [t \in Tables |-> Loadable(u, t)]][w])
         /\ [u \in Uids |-> IF delay_write THEN Tables ELSE missed[u]]'[w]
              \subseteq [u \in Uids |-> IF delay_write THEN Tables ELSE missed[u]][w]
<1>1. \A v \in Uids, t \in Tables :
        /\ [u \in Uids |-> [x \in Tables |-> Loadable(u, x)]]'[v][t] = Loadable(v, t)'
        /\ [u \in Uids |-> [x \in Tables |-> Loadable(u, x)]][v][t] = Loadable(v, t)
  OBVIOUS
<1>2. \A v \in Uids :
        /\ [u \in Uids |-> IF delay_write THEN Tables ELSE missed[u]]'[v] = StaleOf(v)'
        /\ [u \in Uids |-> IF delay_write THEN Tables ELSE missed[u]][v] = StaleOf(v)
  BY DEF StaleOf
<1>3. Store!Within(w, [u \in Uids |-> [t \in Tables |-> Loadable(u, t)]][w])
  BY <1>1, <1>2 DEF Store!Within, Shrinks
<1> QED BY <1>2, <1>3 DEF Shrinks

LEMMA LookShrinks ==
  ASSUME Looked, cache' = cache, missed' = missed, NEW w \in Uids
  PROVE  Shrinks(w)
<1>1. \A v \in Uids : StaleOf(v)' = StaleOf(v)
  BY DEF StaleOf, Looked
<1>2. ASSUME NEW v \in Uids, NEW t \in Tables
      PROVE  Loadable(v, t)' \subseteq Loadable(v, t) /\ Loadable(v, t)' # {}
  BY DEF Looked, Loadable
<1> QED BY <1>1, <1>2 DEF Shrinks

LEMMA FillShrinks ==
  ASSUME Looked, NEW w \in Uids, NEW tables \in SUBSET Tables, Filled(w, tables)
  PROVE  Shrinks(w)
<1>1. \A v \in Uids : missed'[v] \subseteq missed[v] /\ (v # w => missed'[v] = missed[v])
  BY DEF Filled
<1>2. \A v \in Uids : StaleOf(v)' \subseteq StaleOf(v) /\ (v # w => StaleOf(v)' = StaleOf(v))
  BY <1>1 DEF StaleOf, Looked
<1>3. ASSUME NEW v \in Uids, NEW t \in Tables
      PROVE  Loadable(v, t)' \subseteq Loadable(v, t) /\ Loadable(v, t)' # {}
  <2>1. Row(v, t)' = Row(v, t) /\ (redis' = "up" => redis = "up")
    BY DEF Row, Looked
  <2>2. cache'[v][t] \in {cache[v][t], Row(v, t)}
    BY DEF Filled
  <2>3. Loadable(v, t)' = {Row(v, t)'} \cup (IF redis' = "up" /\ cache'[v][t] # None THEN {cache'[v][t]} ELSE {})
    BY DEF Loadable, Row
  <2> QED BY <2>1, <2>2, <2>3, LoadableIs
<1> QED BY <1>2, <1>3 DEF Shrinks

\* A GET that answers loads what may be loaded.
LEMMA LoadStep ==
  ASSUME NEW w \in Uids, NEW tables \in SUBSET Tables, NEW data, Loaded(w, tables, data), Shrinks(w),
         saves' = saves, \A t \in tables : data[t] \in Loadable(w, t)
  PROVE  Store!Next
<1>1. /\ answer'.type = "GET" /\ answer'.results = <<1>> /\ answer'.data = [t \in tables |-> data[t]]
      /\ answer' = [type |-> "GET", uid |-> w, results |-> <<1>>, data |-> answer'.data]
  BY DEF Loaded
<1>2. \A t \in DOMAIN answer'.data : answer'.data[t] \in [u \in Uids |-> [x \in Tables |-> Loadable(u, x)]][w][t]
  BY <1>1
<1>3. Store!Load(w, answer'.data)
  BY <1>1, <1>2, WithinShrinks DEF Store!Load
<1> QED BY <1>1, <1>3 DEF Store!Next

\* A SET saves: an answer that ends with 1 leaves one version of each table
\* of which no old copy is left.
LEMMA SaveStep ==
  ASSUME Inv, delay_write' = delay_write, NEW w \in Uids, NEW ok \in BOOLEAN,
         NEW bad \in SUBSET Writes(ok), NEW written \in SUBSET Tables, Saved(w, ok, bad, written)
  PROVE  Store!Next
<1>1. /\ saves \in Nat /\ saves + 1 # None /\ None \notin Nat
      /\ \A v \in Uids, t \in Tables : rows[v][t] \in Nat \cup {None} /\ cache[v][t] \in Nat \cup {None}
  BY DbsrvAssumption DEF Inv, StoresOK
<1>2. /\ \A v \in Uids, t \in Tables : rows'[v][t] = IF v = w /\ t \in written THEN saves + 1 ELSE rows[v][t]
      /\ Replaced(w) \/ Outdated(w)
      /\ redis' = "up" => redis = "up"
      /\ saves' = saves + 1
      /\ answer' = [type |-> "SET", uid |-> w, results |-> Verdicts(bad), data |-> <<>>]
      /\ Writes(ok) # bad => written = Tables
  BY DEF Saved
<1>3. \A v \in Uids, t \in Tables : /\ cache'[v][t] \in {cache[v][t], saves + 1}
                                    /\ v # w => cache'[v][t] = cache[v][t]
  BY <1>1, <1>2 DEF Replaced, Outdated
<1>4. \A v \in Uids, t \in Tables :
        Loadable(v, t)' = {Row(v, t)'} \cup (IF redis' = "up" /\ cache'[v][t] # None THEN {cache'[v][t]} ELSE {})
  BY DEF Loadable, Row
<1>5. \A v \in Uids, t \in Tables : Row(v, t)' = IF v = w /\ t \in written THEN saves + 1 ELSE Row(v, t)
  BY <1>1, <1>2 DEF Row
<1>6. ASSUME NEW v \in Uids, NEW t \in Tables, v # w
      PROVE  Loadable(v, t)' \subseteq Loadable(v, t) /\ Loadable(v, t)' # {}
  BY <1>2, <1>3, <1>4, <1>5, <1>6, LoadableIs
<1>7. ASSUME NEW t \in Tables
      PROVE  Loadable(w, t)' \subseteq Loadable(w, t) \cup {saves'} /\ Loadable(w, t)' # {}
  <2>1. Row(w, t)' \in {Row(w, t), saves'} /\ cache'[w][t] \in {cache[w][t], saves'}
    BY <1>2, <1>3, <1>5
  <2>2. redis' = "up" => redis = "up"
    BY <1>2
  <2> QED BY <1>4, <2>1, <2>2, LoadableIs
<1>8. \A v \in Uids \ {w} : StaleOf(v)' = StaleOf(v)
  BY <1>2 DEF StaleOf, Replaced, Outdated
<1>9. ASSUME "direct" \notin bad, NEW t \in Tables \ StaleOf(w)'
      PROVE  Loadable(w, t)' = {saves'}
  <2>1. ~delay_write /\ t \notin missed'[w]
    BY <1>9 DEF StaleOf
  <2>2. written = Tables
    BY <1>2, <1>9, <2>1 DEF Writes
  <2>3. cache'[w][t] \in {None, saves + 1}
    BY <1>2, <2>1 DEF Replaced, Outdated
  <2> QED BY <1>2, <1>4, <1>5, <2>2, <2>3
<1>10. \A v \in Uids, t \in Tables :
        /\ [u \in Uids |-> [x \in Tables |-> Loadable(u, x)]]'[v][t] = Loadable(v, t)'
        /\ [u \in Uids |-> [x \in Tables |-> Loadable(u, x)]][v][t] = Loadable(v, t)
  OBVIOUS
<1>11. \A v \in Uids :
        /\ [u \in Uids |-> IF delay_write THEN Tables ELSE missed[u]]'[v] = StaleOf(v)'
        /\ [u \in Uids |-> IF delay_write THEN Tables ELSE missed[u]][v] = StaleOf(v)
  BY DEF StaleOf
<1>12. Verdicts(bad)[Len(Verdicts(bad))] = 1 =>
         \A t \in Tables \ [u \in Uids |-> IF delay_write THEN Tables ELSE missed[u]]'[w] :
           [u \in Uids |-> [x \in Tables |-> Loadable(u, x)]]'[w][t] = {saves'}
  BY <1>9, <1>10, <1>11, VerdictsAre
<1>13. Store!Save(w, Verdicts(bad))
  <2>1. saves' = saves + 1 /\ answer' = [type |-> "SET", uid |-> w, results |-> Verdicts(bad), data |-> <<>>]
    BY <1>2
  <2> QED BY <1>6, <1>7, <1>8, <1>10, <1>11, <1>12, <2>1 DEF Store!Save, Store!Within
<1> QED BY <1>13, VerdictsAre DEF Store!Next

\* A request, or a loss of the connection, that answers nothing.
LEMMA ForgetStep ==
  ASSUME NEW w \in Uids, Shrinks(w), UNCHANGED <<saves, answer>>
  PROVE  Store!Next
<1>1. Store!Forget(w)
  BY WithinShrinks DEF Store!Forget
<1> QED BY <1>1 DEF Store!Next

LEMMA StoreStep ==
  ASSUME Inv, [Next]_vars
  PROVE  [Store!Next]_Store!vars
<1>1. ASSUME UNCHANGED <<cache, rows, redis, delay_write, missed, saves, answer>>
      PROVE  UNCHANGED Store!vars
  BY <1>1 DEF Store!vars, Loadable
<1>2. ASSUME NEW g \in Games, Handle(g)
      PROVE  [Store!Next]_Store!vars
  <2>0. UNCHANGED <<delay_write, lapsed>>
    BY <1>2 DEF Handle
  <2>1. CASE get_from_redis(g)
    <3>1. PICK w \in Uids, tables \in SUBSET Tables :
            /\ Looked /\ Loaded(w, tables, cache[w]) /\ cache' = cache /\ missed' = missed
            /\ redis = "up" /\ \A t \in tables : cache[w][t] # None
      BY <2>0, <2>1, RedisFacts
    <3>2. \A t \in tables : cache[w][t] \in Loadable(w, t)
      BY <3>1 DEF Loadable
    <3>3. Shrinks(w) /\ saves' = saves
      BY <3>1, LookShrinks DEF Looked
    <3>4. Loaded(w, tables, cache[w])
      BY <3>1
    <3> QED BY <3>2, <3>3, <3>4, LoadStep
  <2>2. CASE get_from_mysql(g)
    <3>1. PICK w \in Uids, tables \in SUBSET Tables :
            /\ Looked /\ Loaded(w, tables, [t \in Tables |-> Row(w, t)])
            /\ Filled(w, tables) \/ (cache' = cache /\ missed' = missed)
      BY <2>0, <2>2, MysqlFacts
    <3> DEFINE data == [t \in Tables |-> Row(w, t)]
    <3>2. \A t \in tables : data[t] \in Loadable(w, t)
      BY LoadableIs
    <3>3. Shrinks(w) /\ saves' = saves
      BY <3>1, LookShrinks, FillShrinks DEF Looked
    <3>4. Loaded(w, tables, data)
      BY <3>1
    <3> HIDE DEF data
    <3> QED BY <3>2, <3>3, <3>4, LoadStep
  <2>3. CASE GetFails(g)
    <3>1. Calls(g, "GET") /\ SetsAll
      BY <2>3 DEF GetFails, Inv
    <3>2. Head(req[g]).uid \in Uids /\ Head(req[g]).type = "GET"
      BY <3>1, Received, SentFields
    <3>3. UNCHANGED <<cache, rows, redis, delay_write, missed, saves>>
      BY <2>0, <2>3 DEF GetFails, storeVars
    <3>4. Store!LoadFails(Head(req[g]).uid)
      BY <2>3, <3>2, <3>3 DEF GetFails, Answer, Store!LoadFails, Loadable
    <3> QED BY <3>2, <3>4 DEF Store!Next
  <2>4. CASE HmgetRaises(g)
    <3>1. Looked /\ cache' = cache /\ missed' = missed /\ UNCHANGED <<saves, answer>>
      BY <2>0, <2>4, FailFacts DEF HmgetRaises
    <3>2. Calls(g, "GET") /\ SetsAll
      BY <2>4 DEF HmgetRaises, Inv
    <3>3. Head(req[g]).uid \in Uids
      BY <3>2, Received, SentFields
    <3> QED BY <3>1, <3>3, LookShrinks, ForgetStep
  <2>6. CASE SelectRaises(g)
    BY <1>1, <2>0, <2>6 DEF SelectRaises, storeVars
  <2>5. CASE SET(g)
    <3>1. \E w \in Uids, ok \in BOOLEAN : \E bad \in SUBSET Writes(ok), written \in SUBSET Tables :
            Saved(w, ok, bad, written)
      BY <2>5, SetFacts
    <3> QED BY <2>0, <3>1, SaveStep
  <2> QED BY <1>2, <2>1, <2>2, <2>3, <2>4, <2>5, <2>6 DEF Handle
<1>3. ASSUME NEW g \in Games, NEW u \in Uids, NEW type, NEW tables, Ask(g, type, u, tables)
      PROVE  UNCHANGED Store!vars
  BY <1>1, <1>3 DEF Ask, storeVars
<1>4. ASSUME NEW u \in Uids, Expire(u)
      PROVE  Store!Next
  <2>1. /\ cache' = [cache EXCEPT ![u] = [t \in Tables |-> None]]
        /\ missed' = [missed EXCEPT ![u] = {}]
        /\ UNCHANGED <<rows, redis, answer, saves, delay_write>>
    BY <1>4 DEF Expire
  <2>2. cache \in [Uids -> [Tables -> Nat \cup {None}]] /\ missed \in [Uids -> SUBSET Tables]
    BY DEF Inv, StoresOK
  <2>3. /\ \A v \in Uids, t \in Tables : cache'[v][t] = IF v = u THEN None ELSE cache[v][t]
        /\ \A v \in Uids : missed'[v] = IF v = u THEN {} ELSE missed[v]
    BY <2>1, <2>2
  <2>4. \A v \in Uids : StaleOf(v)' \subseteq StaleOf(v) /\ (v # u => StaleOf(v)' = StaleOf(v))
    BY <2>1, <2>3 DEF StaleOf
  <2>5. \A v \in Uids, t \in Tables : Loadable(v, t)' \subseteq Loadable(v, t) /\ Loadable(v, t)' # {}
    BY <2>1, <2>3 DEF Loadable
  <2>6. Shrinks(u)
    BY <2>4, <2>5 DEF Shrinks
  <2> QED BY <2>1, <2>6, ForgetStep
<1>5. CASE Recover \/ UNCHANGED vars
  BY <1>1, <1>5 DEF Recover, vars
<1> QED BY <1>2, <1>3, <1>4, <1>5 DEF Next

LEMMA StoreInit == Init => Store!Init
<1> SUFFICES ASSUME Init PROVE Store!Init
  OBVIOUS
<1>1. \A u \in Uids, t \in Tables : Loadable(u, t) = {0}
  BY DEF Init, Loadable
<1>2. [u \in Uids |-> IF delay_write THEN Tables ELSE missed[u]] \in [Uids -> SUBSET Tables]
  BY DEF Init
<1> QED BY <1>1, <1>2 DEF Init, Store!Init

\* GET and SET implement the registers that the login protocol relies on,
\* whatever expires, breaks, refuses or fails: after a SET answered with 1, a
\* GET answers what it saved, except for a table of which the cache has a copy
\* that a SET could not replace, and with delayed writes.
THEOREM DbsrvKeepsStore == Spec => StoreKept
<1>1. Inv /\ [Next]_vars => [Store!Next]_Store!vars
  BY StoreStep
<1> QED BY <1>1, StoreInit, Invariance, PTL DEF Spec, StoreKept, Store!Spec
=============================================================================
