---------------------------- MODULE SrvprotoProofs ----------------------------
(***************************************************************************)
(* Proofs about the packets between servers (Srvproto): the length field   *)
(* says where a packet ends, and the arguments that are read are those     *)
(* that were written, up to what the format cannot carry, for any number   *)
(* of arguments.                                                           *)
(*                                                                         *)
(* Both are loops over the arguments.  The induction is over a set of      *)
(* numbers: the turns after which the claim holds have no least exception. *)
(***************************************************************************)
EXTENDS Srvproto, SequenceTheorems, FiniteSetTheorems, WellFoundedInduction, TLAPS

-----------------------------------------------------------------------------
(* Numbers and loops *)

\* A set of natural numbers that is not empty has a least element.
LEMMA LeastNat ==
  ASSUME NEW S \in SUBSET Nat, S # {}
  PROVE  \E m \in S : \A n \in S : m <= n
<1> DEFINE R == OpToRel(<, Nat)
<1>1. \E m \in S : \A n \in S : <<n, m>> \notin R
  <2> HIDE DEF R
  <2>1. IsWellFoundedOn(R, Nat)
    BY NatLessThanWellFounded DEF R
  <2> QED
    BY <2>1, WFMin, Zenon
<1>2. PICK m \in S : \A n \in S : <<n, m>> \notin R
  BY <1>1
<1>3. ASSUME NEW n \in S PROVE m <= n
  <2>1. m \in Nat /\ n \in Nat
    OBVIOUS
  <2>2. <<n, m>> \notin R
    BY <1>2
  <2>3. ~(n < m)
    BY <2>1, <2>2, Zenon DEF R, OpToRel
  <2> QED
    BY <2>1, <2>3
<1> QED
  BY <1>3

\* Induction, over a set: a set of numbers that has 0, and with a number the next
\* one, up to a bound, has all the numbers up to that bound.
LEMMA SetInduction ==
  ASSUME NEW k \in Nat, NEW T, 0 \in T, \A n \in 0..(k - 1) : n \in T => n + 1 \in T
  PROVE  \A n \in 0..k : n \in T
<1> DEFINE U == {n \in 0..k : n \notin T}
<1> SUFFICES ASSUME U # {} PROVE FALSE
  OBVIOUS
<1>1. PICK x \in U : \A y \in U : x <= y
  <2>1. U \in SUBSET Nat
    OBVIOUS
  <2> HIDE DEF U
  <2> QED
    BY <2>1, LeastNat
<1>2. x # 0 /\ x \in 0..k /\ x \notin T
  BY <1>1
<1>3. x - 1 \in 0..(k - 1) /\ x - 1 \in 0..k /\ ~(x <= x - 1) /\ (x - 1) + 1 = x
  BY <1>2
<1>4. x - 1 \in T
  BY <1>1, <1>3
<1> QED
  BY <1>2, <1>3, <1>4

\* What a loop computes in turn, from s by F.
LEMMA Recursion ==
  ASSUME NEW S, NEW s \in S, NEW k \in Nat, NEW F \in [1..k -> [S -> S]]
  PROVE  \E f \in [0..k -> S] : f[0] = s /\ \A i \in 1..k : f[i] = F[i][f[i - 1]]
<1> DEFINE G(n) == \E f \in [0..n -> S] : f[0] = s /\ \A i \in 1..n : f[i] = F[i][f[i - 1]]
           T == {n \in 0..k : G(n)}
<1>1. 0 \in T
  <2> DEFINE f == [i \in 0..0 |-> s]
  <2>1. f \in [0..0 -> S] /\ f[0] = s
    OBVIOUS
  <2>2. 1..0 = {}
    OBVIOUS
  <2>3. G(0)
    BY <2>1, <2>2
  <2> QED
    BY <2>3
<1>2. ASSUME NEW n \in 0..(k - 1), n \in T PROVE n + 1 \in T
  <2>1. n + 1 \in 0..k /\ n + 1 \in 1..k /\ n \in Nat
    OBVIOUS
  <2>2. PICK f \in [0..n -> S] : f[0] = s /\ \A i \in 1..n : f[i] = F[i][f[i - 1]]
    BY <1>2
  <2> DEFINE g == [i \in 0..(n + 1) |-> IF i = n + 1 THEN F[n + 1][f[n]] ELSE f[i]]
  <2>3. f[n] \in S /\ F[n + 1] \in [S -> S]
    BY <2>1
  <2>4. F[n + 1][f[n]] \in S
    BY <2>3
  <2>5. g \in [0..(n + 1) -> S]
    BY <2>1, <2>4
  <2>6. g[n + 1] = F[n + 1][f[n]] /\ \A i \in 0..n : g[i] = f[i]
    BY <2>1
  <2> HIDE DEF g
  <2>7. ASSUME NEW i \in 1..(n + 1) PROVE g[i] = F[i][g[i - 1]]
    <3>1. CASE i = n + 1
      <4>1. g[n] = f[n] /\ i - 1 = n
        BY <2>1, <2>6, <3>1
      <4> QED
        BY <2>6, <3>1, <4>1
    <3>2. CASE i # n + 1
      <4>1. i \in 1..n /\ i \in 0..n /\ i - 1 \in 0..n
        BY <2>1, <3>2
      <4> QED
        BY <2>2, <2>6, <4>1
    <3> QED
      BY <3>1, <3>2
  <2>8. g[0] = s
    BY <2>1, <2>2, <2>6
  <2>9. G(n + 1)
    BY <2>5, <2>7, <2>8
  <2> QED
    BY <2>1, <2>9
<1>3. \A n \in 0..k : n \in T
  <2> HIDE DEF T
  <2> QED
    BY <1>1, <1>2, SetInduction
<1> QED
  BY <1>3

-----------------------------------------------------------------------------
(* Sequences *)

\* A part of a sequence.
LEMMA Part ==
  ASSUME NEW S, NEW s \in Seq(S), NEW m \in Nat, NEW n \in Nat, m <= n, n <= Len(s)
  PROVE  /\ SubSeq(s, m + 1, n) \in Seq(S) /\ Len(SubSeq(s, m + 1, n)) = n - m
         /\ \A i \in 1..(n - m) : SubSeq(s, m + 1, n)[i] = s[m + i]
<1>1. SubSeq(s, m + 1, n) \in Seq(S) /\ Len(SubSeq(s, m + 1, n)) = n - m
  OBVIOUS
<1>2. \A i \in 1..(n - m) : SubSeq(s, m + 1, n)[i] = s[m + i]
  OBVIOUS
<1> QED
  BY <1>1, <1>2

\* Two sequences, one behind the other.
LEMMA Joined ==
  ASSUME NEW S, NEW s \in Seq(S), NEW t \in Seq(S)
  PROVE  /\ s \o t \in Seq(S) /\ Len(s \o t) = Len(s) + Len(t)
         /\ Len(s) \in Nat /\ Len(t) \in Nat
         /\ \A i \in 1..Len(s) : (s \o t)[i] = s[i]
         /\ \A i \in 1..Len(t) : (s \o t)[Len(s) + i] = t[i]
  OBVIOUS

\* FlattenSeq puts one sequence behind the other: f[i] is what it has after i of them.
LEMMA Flattened ==
  ASSUME NEW S, NEW seqs \in Seq(Seq(S))
  PROVE  \E f \in [0..Len(seqs) -> Seq(S)] :
           /\ f[0] = <<>> /\ \A i \in 1..Len(seqs) : f[i] = f[i - 1] \o seqs[i]
           /\ FlattenSeq(seqs) = f[Len(seqs)]
<1> DEFINE k == Len(seqs)
           F == [i \in 1..k |-> [s \in Seq(S) |-> s \o seqs[i]]]
<1>1. k \in Nat /\ <<>> \in Seq(S) /\ \A i \in 1..k : seqs[i] \in Seq(S)
  OBVIOUS
<1>2. F \in [1..k -> [Seq(S) -> Seq(S)]]
  BY <1>1
<1>3. PICK f \in [0..k -> Seq(S)] : f[0] = <<>> /\ \A i \in 1..k : f[i] = F[i][f[i - 1]]
  <2> DEFINE Q == Seq(S)  e == <<>>
  <2>1. e \in Q /\ k \in Nat /\ F \in [1..k -> [Q -> Q]]
    BY <1>1, <1>2
  <2> HIDE DEF F, k, Q, e
  <2>2. \E f \in [0..k -> Q] : f[0] = e /\ \A i \in 1..k : f[i] = F[i][f[i - 1]]
    BY <2>1, Recursion
  <2> QED
    BY <2>2 DEF Q, e
<1>4. ASSUME NEW i \in 1..k PROVE f[i] = f[i - 1] \o seqs[i]
  <2>1. i - 1 \in 0..k
    BY <1>1
  <2>2. f[i - 1] \in Seq(S)
    BY <2>1
  <2> QED
    BY <1>3, <2>2
<1>5. CASE k = 0
  <2>1. seqs = <<>>
    BY <1>5
  <2>2. FlattenSeq(seqs) = seqs
    BY <1>5 DEF FlattenSeq
  <2> QED
    BY <1>3, <1>4, <1>5, <2>1, <2>2
<1>6. CASE k # 0
  <2> DEFINE Flat(g) == g = [i \in 1..k |-> IF i = 1 THEN seqs[i] ELSE g[i - 1] \o seqs[i]]
             g == [i \in 1..k |-> f[i]]
             c == CHOOSE h : Flat(h)
  <2>1. ASSUME NEW i \in 1..k PROVE g[i] = IF i = 1 THEN seqs[i] ELSE g[i - 1] \o seqs[i]
    <3>1. CASE i = 1
      <4>1. f[1] = f[1 - 1] \o seqs[1]
        BY <1>4, <3>1
      <4>2. 1 - 1 = 0 /\ f[0] = <<>>
        BY <1>3
      <4>3. f[1] = <<>> \o seqs[1]
        BY ONLY <4>1, <4>2
      <4> QED
        BY <1>1, <3>1, <4>3
    <3>2. CASE i # 1
      <4>1. i - 1 \in 1..k
        BY <1>1, <3>2
      <4> QED
        BY <1>4, <3>2, <4>1
    <3> QED
      BY <3>1, <3>2
  <2>2. Flat(g)
    BY <2>1
  <2>3. Flat(c)
    <3> HIDE DEF Flat, g
    <3> QED
      BY <2>2, Zenon
  <2>4. FlattenSeq(seqs) = c[k]
    BY <1>6, Zenon DEF FlattenSeq
  <2> HIDE DEF c
  <2> DEFINE T == {i \in 0..k : i = 0 \/ c[i] = f[i]}
  <2>5. \A i \in 1..k : c[i] = IF i = 1 THEN seqs[i] ELSE c[i - 1] \o seqs[i]
    BY <2>3
  <2>6. ASSUME NEW n \in 0..(k - 1), n \in T PROVE n + 1 \in T
    <3>1. n + 1 \in 1..k /\ n + 1 \in 0..k /\ (n + 1) - 1 = n
      BY <1>1
    <3>2. f[n + 1] = f[n] \o seqs[n + 1]
      BY <1>4, <3>1
    <3>3. CASE n = 0
      <4>1. c[1] = seqs[1] /\ seqs[1] \in Seq(S)
        BY <1>1, <2>5, <3>1, <3>3
      <4>2. n + 1 = 1 /\ f[n] = <<>>
        BY <1>3, <3>3
      <4>3. f[1] = seqs[1]
        BY ONLY <3>2, <4>1, <4>2
      <4> QED
        BY <3>1, <4>1, <4>2, <4>3
    <3>4. CASE n # 0
      <4>1. c[n] = f[n]
        BY <2>6, <3>4
      <4>2. n + 1 # 1
        BY <3>4
      <4>3. c[n + 1] = c[(n + 1) - 1] \o seqs[n + 1]
        BY <2>5, <3>1, <4>2, Zenon
      <4> QED
        BY <3>1, <3>2, <4>1, <4>3
    <3> QED
      BY <3>3, <3>4
  <2>7. \A n \in 0..k : n \in T
    <3>1. 0 \in T
      BY <1>1
    <3> HIDE DEF T
    <3> QED
      BY <1>1, <2>6, <3>1, SetInduction
  <2>8. c[k] = f[k]
    BY <1>1, <1>6, <2>7
  <2> QED
    BY <1>3, <1>4, <2>4, <2>8
<1> QED
  BY <1>5, <1>6

-----------------------------------------------------------------------------
(* What is written *)

\* The units of packets.
UnitTypes == Types \cup {"plen", "argcount", "body", "garbage"}
Items == [type : UnitTypes, val : Int]

LEMMA ArgType ==
  ASSUME NEW t \in UnitTypes, NEW v \in Int
  PROVE  Arg(t, v) \in Items /\ Arg(t, v).type = t /\ Arg(t, v).val = v
  BY DEF Items, Arg

LEMMA ItemTypes == Body \in Items /\ Garbage \in Items
<1>1. "body" \in UnitTypes /\ "garbage" \in UnitTypes /\ 0 \in Int
  BY DEF UnitTypes
<1> QED
  BY <1>1, ArgType DEF Body, Garbage

\* The conversion leaves the integers alone that fit.
LEMMA Int32Type ==
  ASSUME NEW v \in Int
  PROVE  Int32(v) \in Int /\ (v \in (-Half)..(Half - 1) => Int32(v) = v)
<1>1. Half \in Nat /\ 2 * Half \in Nat /\ 2 * Half > 0
  BY HalfAssumption
<1> DEFINE M == 2 * Half  x == v + Half
<1>2. x \in Int /\ M \in Nat /\ M > 0
  BY <1>1
<1>3. v \in (-Half)..(Half - 1) => 0 <= x /\ x < M
  BY <1>1
<1>4. Int32(v) = (x % M) - Half
  BY DEF Int32
<1>5. x - Half = v
  BY <1>1
<1> HIDE DEF M, x
<1>6. x % M \in Int /\ (0 <= x /\ x < M => x % M = x)
  BY <1>2
<1> QED
  BY <1>1, <1>3, <1>4, <1>5, <1>6

\* The types of the arguments that are carried, and what is written of one first.
Carriable == {"number", "fraction", "string", "protobuf"}
Carried(a) == IF a.type \in {"number", "fraction"} THEN Arg("number", Int32(a.val)) ELSE a

LEMMA CarriedType ==
  ASSUME NEW a \in Items
  PROVE  /\ Carried(a) \in Items /\ (a.type \in Carriable => Arrives(a, Carried(a)))
         /\ a.type \in {"number", "fraction"} => Carried(a).type = "number"
         /\ a.type \notin {"number", "fraction"} => Carried(a) = a
<1>1. a.val \in Int /\ a.type \in UnitTypes /\ a = [type |-> a.type, val |-> a.val]
  BY DEF Items
<1>2. Int32(a.val) \in Int /\ (a.val \in (-Half)..(Half - 1) => Int32(a.val) = a.val)
  BY <1>1, Int32Type
<1> DEFINE b == Arg("number", Int32(a.val))
<1>3. b \in Items /\ b.type = "number"
  <2>1. "number" \in UnitTypes
    BY DEF UnitTypes, Types
  <2> QED
    BY <1>2, <2>1, ArgType
<1>4. a.type = "number" /\ Int32(a.val) = a.val => b = a
  BY <1>1 DEF Arg
<1> HIDE DEF b
<1>5. CASE a.type \in {"number", "fraction"}
  <2>1. Carried(a) = b
    BY <1>5 DEF Carried, b
  <2>2. Arrives(a, b)
    BY <1>2, <1>3, <1>4, <1>5 DEF Arrives
  <2> QED
    BY <1>3, <1>5, <2>1, <2>2
<1>6. CASE a.type \notin {"number", "fraction"}
  <2>1. Carried(a) = a
    BY <1>6 DEF Carried
  <2>2. a.type \in Carriable => Arrives(a, a)
    BY <1>6 DEF Arrives, Carriable
  <2> QED
    BY <1>6, <2>1, <2>2
<1> QED
  BY <1>5, <1>6

LEMMA WriteType ==
  ASSUME NEW a \in Items
  PROVE  /\ Write(a) \in Seq(Items)
         /\ a.type = "protobuf" => Write(a) = <<Carried(a), Body>>
         /\ a.type \in Carriable \ {"protobuf"} => Write(a) = <<Carried(a)>>
<1> DEFINE c == Carried(a)
<1>1. Body \in Items /\ c \in Items
  BY ItemTypes, CarriedType
<1>2. CASE a.type = "protobuf"
  <2>1. Write(a) = <<c, Body>>
    BY <1>2 DEF Write, Carried
  <2> HIDE DEF c
  <2> QED
    BY <1>1, <1>2, <2>1 DEF c
<1>3. CASE a.type \in {"number", "fraction", "string", "table"}
  <2>1. Write(a) = <<c>>
    BY <1>3 DEF Write, Carried
  <2> HIDE DEF c
  <2> QED
    BY <1>1, <1>3, <2>1 DEF c
<1>4. CASE a.type \notin {"protobuf", "number", "fraction", "string", "table"}
  <2>1. Write(a) = <<>>
    BY <1>4 DEF Write
  <2> QED
    BY <1>4, <2>1 DEF Carriable
<1> QED
  BY <1>2, <1>3, <1>4

\* The loop of send: f[i] is what has been written after i arguments.
LEMMA WrittenLoop ==
  ASSUME NEW args \in Seq(Items)
  PROVE  \E f \in [0..Len(args) -> Seq(Items)] :
           /\ f[0] = <<>> /\ \A i \in 1..Len(args) : f[i] = f[i - 1] \o Write(args[i])
           /\ Written(args) = f[Len(args)]
<1> DEFINE seqs == [i \in DOMAIN args |-> Write(args[i])]
<1>1. /\ DOMAIN args = 1..Len(args) /\ Len(args) \in Nat
      /\ \A i \in 1..Len(args) : args[i] \in Items
  OBVIOUS
<1>2. \A i \in 1..Len(args) : Write(args[i]) \in Seq(Items)
  BY <1>1, WriteType
<1>3. /\ seqs \in Seq(Seq(Items)) /\ Len(seqs) = Len(args)
      /\ \A i \in 1..Len(args) : seqs[i] = Write(args[i])
  BY <1>1, <1>2
<1>4. Written(args) = FlattenSeq(seqs)
  BY DEF Written
<1> HIDE DEF seqs
<1>5. PICK f \in [0..Len(seqs) -> Seq(Items)] :
        /\ f[0] = <<>> /\ \A i \in 1..Len(seqs) : f[i] = f[i - 1] \o seqs[i]
        /\ FlattenSeq(seqs) = f[Len(seqs)]
  BY <1>3, Flattened
<1> QED
  BY <1>3, <1>4, <1>5

\* A packet is its header and all that is written: it ends where its length says.
LEMMA EncodeType ==
  ASSUME NEW args \in Seq(Items)
  PROVE  /\ Written(args) \in Seq(Items) /\ calc_len(args) \in Nat
         /\ calc_len(args) = 2 + Len(Written(args)) /\ calc_len(args) >= 2
         /\ Encode(args) \in Seq(Items) /\ Len(Encode(args)) = calc_len(args)
         /\ Encode(args)[2].val = Len(args)
         /\ \A i \in 1..Len(Written(args)) : Encode(args)[2 + i] = Written(args)[i]
<1> DEFINE W == Written(args)  k == calc_len(args)
           H == <<Arg("plen", k), Arg("argcount", Len(args))>>
<1>1. W \in Seq(Items)
  <2>1. PICK f \in [0..Len(args) -> Seq(Items)] : Written(args) = f[Len(args)]
    BY WrittenLoop
  <2>2. Len(args) \in 0..Len(args)
    OBVIOUS
  <2>3. f[Len(args)] \in Seq(Items)
    BY ONLY <2>2, f \in [0..Len(args) -> Seq(Items)]
  <2> QED
    BY <2>1, <2>3
<1>2. k = 2 + Len(W) /\ Len(W) \in Nat /\ k \in Nat
  BY <1>1 DEF calc_len
<1> HIDE DEF W, k
<1>3. Arg("plen", k) \in Items /\ Arg("argcount", Len(args)) \in Items /\ Arg("argcount", Len(args)).val = Len(args)
  <2>1. "plen" \in UnitTypes /\ "argcount" \in UnitTypes /\ Len(args) \in Nat
    BY DEF UnitTypes
  <2> QED
    BY <1>2, <2>1, ArgType
<1>4. H \in Seq(Items) /\ Len(H) = 2 /\ H[2].val = Len(args)
  BY <1>3
<1> HIDE DEF H
<1>5. /\ H \o W \in Seq(Items) /\ Len(H \o W) = k
      /\ (H \o W)[2] = H[2] /\ \A i \in 1..Len(W) : (H \o W)[2 + i] = W[i]
  <2>0. H \in Seq(Items)
    BY <1>4
  <2>1. /\ H \o W \in Seq(Items) /\ Len(H \o W) = Len(H) + Len(W)
        /\ \A i \in 1..Len(H) : (H \o W)[i] = H[i]
        /\ \A i \in 1..Len(W) : (H \o W)[Len(H) + i] = W[i]
    BY ONLY <1>1, <2>0, Joined
  <2>2. 2 \in 1..Len(H)
    BY <1>4
  <2> QED
    BY ONLY <1>2, <1>4, <2>1, <2>2
<1>6. Encode(args) = SubSeq(H \o W, 1, k)
  BY DEF Encode, H, W, k
<1>7. SubSeq(H \o W, 1, k) = H \o W
  BY <1>5, SubSeqFull
<1> QED
  BY <1>1, <1>2, <1>4, <1>5, <1>6, <1>7 DEF W, k

-----------------------------------------------------------------------------
(* The arguments that arrive *)

\* Sound(args) arguments are of the types that arrive, a protobuf only at their end.
LEMMA SoundType ==
  ASSUME NEW args \in Seq(Items)
  PROVE  /\ Sound(args) \in 0..Len(args)
         /\ \A i \in 1..Sound(args) : args[i].type \in Carriable
         /\ \A i \in 1..(Sound(args) - 1) : args[i].type # "protobuf"
<1> DEFINE L == Len(args)
           Ok(n) == /\ \A i \in 1..n : args[i].type \in Carriable
                    /\ \A i \in 1..(n - 1) : args[i].type # "protobuf"
           Z == {n \in DOMAIN args : Ok(n)}
           U == {n \in Nat : \A z \in Z : z <= n}
<1>1. L \in Nat /\ DOMAIN args = 1..L /\ Z \subseteq 1..L
  OBVIOUS
<1>2. L \in U
  BY <1>1
<1>3. PICK k \in U : \A n \in U : k <= n
  <2>1. U \in SUBSET Nat /\ U # {}
    BY <1>2
  <2> HIDE DEF U
  <2> QED
    BY <2>1, LeastNat
<1>4. k \in Nat /\ k <= L /\ \A z \in Z : z <= k
  BY <1>2, <1>3
<1>5. k = 0 \/ k \in Z
  <2> SUFFICES ASSUME k # 0, k \notin Z PROVE FALSE
    OBVIOUS
  <2>1. k - 1 \in Nat /\ ~(k <= k - 1)
    BY <1>4
  <2>2. \A z \in Z : z \in Nat /\ z <= k /\ z # k
    BY <1>1, <1>4
  <2> HIDE DEF Z
  <2>3. \A z \in Z : z <= k - 1
    BY <1>4, <2>2
  <2> QED
    BY <1>3, <2>1, <2>3
<1>6. Z = 1..k
  <2>1. ASSUME NEW n \in 1..k PROVE n \in Z
    <3>1. Ok(k) /\ k \in 1..L
      BY <1>1, <1>5
    <3>2. n \in 1..L /\ \A i \in 1..n : i \in 1..k
      BY <1>4
    <3>3. \A i \in 1..(n - 1) : i \in 1..(k - 1)
      BY <1>4
    <3>4. Ok(n)
      BY <3>1, <3>2, <3>3
    <3> QED
      BY <1>1, <3>2, <3>4
  <2>2. \A z \in Z : z \in 1..k
    BY <1>1, <1>4
  <2> QED
    BY <2>1, <2>2
<1>7. Sound(args) = Cardinality(Z)
  BY DEF Sound, Carriable
<1>8. Cardinality(1..k) = k
  <2>1. Cardinality(1..k) = IF 1 > k THEN 0 ELSE k - 1 + 1
    BY <1>4, FS_Interval
  <2> QED
    BY <1>4, <2>1
<1>9. Ok(k)
  BY <1>5
<1> HIDE DEF Z
<1>10. Sound(args) = k
  BY <1>6, <1>7, <1>8
<1> QED
  BY <1>4, <1>9, <1>10

\* The sound arguments are written one behind the other, a protobuf with its body.
LEMMA SoundWritten ==
  ASSUME NEW args \in Seq(Items), NEW j \in 1..Sound(args)
  PROVE  /\ j \in 1..Len(Written(args)) /\ Written(args)[j] = Carried(args[j])
         /\ args[j].type = "protobuf" =>
              j + 1 \in 1..Len(Written(args)) /\ Written(args)[j + 1] = Body
<1> DEFINE L == Len(args)  n == Sound(args)
<1>1. /\ n \in 0..L /\ L \in Nat /\ \A i \in 1..L : args[i] \in Items
      /\ \A i \in 1..n : args[i].type \in Carriable
      /\ \A i \in 1..(n - 1) : args[i].type # "protobuf"
  BY SoundType
<1>2. PICK f \in [0..L -> Seq(Items)] :
        /\ f[0] = <<>> /\ \A i \in 1..L : f[i] = f[i - 1] \o Write(args[i])
        /\ Written(args) = f[L]
  BY WrittenLoop
<1> HIDE DEF L, n
<1> DEFINE At(i, k) == /\ k \in 1..Len(f[i]) /\ f[i][k] = Carried(args[k])
                       /\ args[k].type = "protobuf" =>
                            k + 1 \in 1..Len(f[i]) /\ f[i][k + 1] = Body
           T == {i \in 0..L : /\ i < n => Len(f[i]) = i
                              /\ \A k \in 1..n : k <= i => At(i, k)}
<1>3. 0 \in T
  <2>1. Len(f[0]) = 0 /\ 0 \in 0..L
    BY <1>1, <1>2
  <2>2. \A k \in 1..n : ~(k <= 0)
    BY <1>1
  <2> QED
    BY <2>1, <2>2
<1>4. ASSUME NEW i \in 0..(L - 1), i \in T PROVE i + 1 \in T
  <2> DEFINE s == f[i]  a == args[i + 1]  t == Write(a)
  <2>1. i \in Nat /\ i \in 0..L /\ i + 1 \in 1..L /\ i + 1 \in 0..L /\ (i + 1) - 1 = i
    BY <1>1
  <2>2. s \in Seq(Items) /\ a \in Items
    BY <1>1, <2>1
  <2>3. t \in Seq(Items)
    BY <2>2, WriteType
  <2>4. f[i + 1] = s \o t
    BY <1>2, <2>1
  <2>5. /\ i < n => Len(s) = i
        /\ \A k \in 1..n : k <= i => At(i, k)
    BY <1>4
  <2>6. /\ a.type = "protobuf" => t = <<Carried(a), Body>>
        /\ a.type \in Carriable \ {"protobuf"} => t = <<Carried(a)>>
    BY <2>2, WriteType
  <2>7. /\ Len(s \o t) = Len(s) + Len(t) /\ Len(s) \in Nat /\ Len(t) \in Nat
        /\ \A k \in 1..Len(s) : (s \o t)[k] = s[k]
        /\ \A k \in 1..Len(t) : (s \o t)[Len(s) + k] = t[k]
    <3> HIDE DEF s, t
    <3> QED
      BY ONLY <2>2, <2>3, Joined
  <2> HIDE DEF t
  <2>8. ASSUME i + 1 < n PROVE Len(f[i + 1]) = i + 1
    <3>1. i + 1 \in 1..n /\ i + 1 \in 1..(n - 1) /\ i < n
      BY <1>1, <2>1, <2>8
    <3>2. a.type \in Carriable \ {"protobuf"}
      BY <1>1, <3>1
    <3>3. Len(t) = 1
      BY <2>6, <3>2
    <3> QED
      BY <2>1, <2>4, <2>5, <2>7, <3>1, <3>3
  <2>9. ASSUME NEW k \in 1..n, k <= i + 1 PROVE At(i + 1, k)
    <3>1. CASE k <= i
      <4>1. At(i, k)
        BY <2>5, <3>1
      <4>2. \A m \in 1..Len(s) : m \in 1..Len(f[i + 1]) /\ f[i + 1][m] = s[m]
        BY <2>4, <2>7
      <4> QED
        BY <4>1, <4>2
    <3>2. CASE ~(k <= i)
      <4>1. k = i + 1 /\ i + 1 \in 1..n /\ i < n
        BY <1>1, <2>1, <2>9, <3>2
      <4>2. Len(s) = i /\ a.type \in Carriable
        BY <1>1, <2>5, <4>1
      <4>3. 1 \in 1..Len(t) /\ t[1] = Carried(a)
        BY <2>6, <4>2
      <4>4. i + 1 \in 1..Len(f[i + 1]) /\ f[i + 1][i + 1] = Carried(a)
        BY <2>1, <2>4, <2>7, <4>2, <4>3
      <4>5. ASSUME a.type = "protobuf"
            PROVE  (i + 1) + 1 \in 1..Len(f[i + 1]) /\ f[i + 1][(i + 1) + 1] = Body
        <5>1. t = <<Carried(a), Body>>
          BY <2>6, <4>5, Zenon
        <5>2. 2 \in 1..Len(t) /\ t[2] = Body
          BY ONLY <5>1
        <5>3. (s \o t)[Len(s) + 2] = Body /\ Len(s) + 2 \in 1..Len(s \o t)
          BY <2>7, <5>2
        <5>4. Len(s) + 2 = (i + 1) + 1
          BY <2>1, <4>2
        <5> QED
          BY <2>4, <5>3, <5>4
      <4> QED
        BY <4>1, <4>4, <4>5
    <3> QED
      BY <3>1, <3>2
  <2> QED
    BY <2>1, <2>8, <2>9
<1>5. \A i \in 0..L : i \in T
  <2>1. L \in Nat
    BY <1>1
  <2> HIDE DEF T
  <2> QED
    BY <1>3, <1>4, <2>1, SetInduction
<1>6. L \in T /\ j \in 1..n /\ j <= L
  BY <1>1, <1>5 DEF n
<1>7. At(L, j)
  BY <1>6
<1> QED
  BY <1>2, <1>7

-----------------------------------------------------------------------------
(* What is read *)

Reading == [args : Seq(Items), rest : Seq(Items)]

\* A turn of the loop takes back nothing.
LEMMA ReadArgType ==
  ASSUME NEW s \in Reading
  PROVE  /\ ReadArg(s) \in Reading
         /\ \A k \in 1..Len(s.args) :
              k \in 1..Len(ReadArg(s).args) /\ ReadArg(s).args[k] = s.args[k]
<1> DEFINE u == Head(s.rest)
<1>1. s.args \in Seq(Items) /\ s.rest \in Seq(Items)
  BY DEF Reading
<1>2. ASSUME NEW a \in Items, NEW rest \in Seq(Items),
             ReadArg(s) = [args |-> Append(s.args, a), rest |-> rest]
      PROVE  /\ ReadArg(s) \in Reading
             /\ \A k \in 1..Len(s.args) :
                  k \in 1..Len(ReadArg(s).args) /\ ReadArg(s).args[k] = s.args[k]
  <2>1. /\ Append(s.args, a) \in Seq(Items) /\ Len(Append(s.args, a)) = Len(s.args) + 1
        /\ \A k \in 1..Len(s.args) : Append(s.args, a)[k] = s.args[k]
    BY <1>1, AppendProperties
  <2>2. ReadArg(s).args = Append(s.args, a) /\ ReadArg(s) \in Reading
    BY <1>2, <2>1 DEF Reading
  <2> QED
    BY <1>1, <2>1, <2>2
<1>3. CASE s.rest = <<>>
  <2>1. ReadArg(s) = s
    BY <1>3 DEF ReadArg
  <2> QED
    BY <1>1, <2>1
<1>4. CASE s.rest # <<>>
  <2>1. u \in Items /\ Tail(s.rest) \in Seq(Items) /\ Garbage \in Items /\ <<>> \in Seq(Items)
    BY <1>1, <1>4, ItemTypes
  <2>2. u.val \in Int /\ "string" \in UnitTypes
    BY <2>1 DEF Items, UnitTypes, Types
  <2>3. Arg("string", u.val) \in Items
    BY <2>2, ArgType
  <2>4. \/ ReadArg(s) = [args |-> Append(s.args, u), rest |-> Tail(s.rest)]
        \/ ReadArg(s) = [args |-> Append(s.args, Arg("string", u.val)), rest |-> Tail(s.rest)]
        \/ ReadArg(s) = [args |-> Append(s.args, Garbage), rest |-> <<>>]
    <3> HIDE DEF u
    <3>1. CASE u.type \in {"number", "string"}
      BY <1>4, <3>1 DEF ReadArg, u
    <3>2. CASE u.type = "table"
      BY <1>4, <3>2 DEF ReadArg, u
    <3>3. CASE u.type = "protobuf" /\ Len(s.rest) > 1 /\ s.rest[2] = Body
      BY <1>4, <3>3 DEF ReadArg, u
    <3>4. CASE /\ u.type \notin {"number", "string", "table"}
               /\ ~(u.type = "protobuf" /\ Len(s.rest) > 1 /\ s.rest[2] = Body)
      BY <1>4, <3>4 DEF ReadArg, u
    <3> QED
      BY <3>1, <3>2, <3>3, <3>4
  <2> HIDE DEF u
  <2> QED
    BY <1>2, <2>1, <2>3, <2>4
<1> QED
  BY <1>3, <1>4

\* A number, a string, and a protobuf in front of its body are read as they are.
LEMMA ReadArgSound ==
  ASSUME NEW s \in Reading, s.rest # <<>>,
         \/ s.rest[1].type \in {"number", "string"}
         \/ s.rest[1].type = "protobuf" /\ Len(s.rest) > 1 /\ s.rest[2] = Body
  PROVE  ReadArg(s) = [args |-> Append(s.args, s.rest[1]), rest |-> Tail(s.rest)]
<1>1. s.rest \in Seq(Items) /\ Head(s.rest) = s.rest[1]
  BY DEF Reading
<1>2. CASE s.rest[1].type \in {"number", "string"}
  BY <1>1, <1>2 DEF ReadArg
<1>3. CASE s.rest[1].type = "protobuf" /\ Len(s.rest) > 1 /\ s.rest[2] = Body
  BY <1>1, <1>3 DEF ReadArg
<1> QED
  BY <1>2, <1>3

\* The loop of dispatch: f[i] is what it has after i arguments.
LEMMA DecodeLoop ==
  ASSUME NEW units \in Seq(Items), Len(units) >= 2, units[2].val \in Nat
  PROVE  LET count == units[2].val IN
         \E f \in [0..count -> Reading] :
              /\ f[0] = [args |-> <<>>, rest |-> SubSeq(units, 3, Len(units))]
              /\ \A i \in 1..count : f[i] = ReadArg(f[i - 1])
              /\ Decode(units) = f[count].args
<1> DEFINE count == units[2].val
           s == [args |-> <<>>, rest |-> SubSeq(units, 3, Len(units))]
           F == [i \in 1..count |-> [r \in Reading |-> ReadArg(r)]]
           Read(g) == g = [i \in 0..count |-> IF i = 0 THEN s ELSE ReadArg(g[i - 1])]
           c == CHOOSE g : Read(g)
<1>1. count \in Nat
  OBVIOUS
<1>2. s \in Reading
  <2>1. <<>> \in Seq(Items) /\ SubSeq(units, 3, Len(units)) \in Seq(Items)
    OBVIOUS
  <2> QED
    BY <2>1 DEF Reading
<1>3. F \in [1..count -> [Reading -> Reading]]
  <2>1. [r \in Reading |-> ReadArg(r)] \in [Reading -> Reading]
    BY ReadArgType
  <2> QED
    BY <2>1
<1>4. PICK f \in [0..count -> Reading] :
        f[0] = s /\ \A i \in 1..count : f[i] = F[i][f[i - 1]]
  <2> HIDE DEF F, count, s
  <2> QED
    BY ONLY <1>1, <1>2, <1>3, Recursion
<1>5. ASSUME NEW i \in 1..count PROVE f[i] = ReadArg(f[i - 1])
  <2>1. i - 1 \in 0..count
    BY <1>1
  <2>2. f[i - 1] \in Reading
    BY <2>1
  <2> QED
    BY <1>4, <2>2
<1>6. Read(f)
  <2> HIDE DEF F, s, count
  <2>1. \A i \in 0..count : i = 0 \/ i \in 1..count
    BY <1>1
  <2>2. \A i \in 0..count : f[i] = IF i = 0 THEN s ELSE ReadArg(f[i - 1])
    BY <1>4, <1>5, <2>1, Zenon
  <2> QED
    BY <2>2
<1>7. Read(c)
  <2> HIDE DEF Read
  <2> QED
    BY <1>6, Zenon
<1>8. Decode(units) = c[count].args
  BY Zenon DEF Decode
<1> HIDE DEF c, F, s
<1>9. \A i \in 0..count : c[i] = IF i = 0 THEN s ELSE ReadArg(c[i - 1])
  <2> HIDE DEF count
  <2> QED
    BY <1>7
<1> HIDE DEF Read
<1> DEFINE T == {i \in 0..count : c[i] = f[i]}
<1>10. \A i \in 0..count : i \in T
  <2> HIDE DEF count
  <2>1. 0 \in T
    BY <1>1, <1>4, <1>9
  <2>2. ASSUME NEW i \in 0..(count - 1), i \in T PROVE i + 1 \in T
    <3>1. i + 1 \in 0..count /\ i + 1 \in 1..count /\ i + 1 # 0 /\ (i + 1) - 1 = i
      BY <1>1
    <3>2. c[i + 1] = ReadArg(c[i])
      BY <1>9, <3>1, Zenon
    <3>3. f[i + 1] = ReadArg(f[i])
      BY <1>5, <3>1, Zenon
    <3> QED
      BY <2>2, <3>1, <3>2, <3>3
  <2> HIDE DEF T
  <2> QED
    BY <1>1, <2>1, <2>2, SetInduction
<1>11. c[count] = f[count]
  BY <1>1, <1>10
<1> QED
  BY <1>1, <1>4, <1>5, <1>8, <1>11 DEF s

\* The reader counts the arguments of the packet, and gets the sound ones as they
\* were carried, in a buffer that begins with the packet.
LEMMA SoundRead ==
  ASSUME NEW args \in Seq(Items), NEW units \in Seq(Items), Len(units) >= calc_len(args),
         \A i \in 1..calc_len(args) : units[i] = Encode(args)[i]
  PROVE  /\ Decode(units) \in Seq(Items)
         /\ \A j \in 1..Sound(args) : j \in 1..Len(Decode(units)) /\ Decode(units)[j] = Carried(args[j])
         /\ Sound(args) = Len(args) => Len(Decode(units)) = Len(args)
<1> DEFINE L == Len(args)  n == Sound(args)  m == Len(units)  k == calc_len(args)
           W == Written(args)
<1>1. L \in Nat /\ m \in Nat /\ n \in 0..L /\ n \in Nat
  BY SoundType
<1>2. /\ k \in Nat /\ k = 2 + Len(W) /\ Len(W) \in Nat /\ W \in Seq(Items) /\ m >= k /\ m >= 2
      /\ Encode(args)[2].val = L
      /\ \A i \in 1..Len(W) : Encode(args)[2 + i] = W[i]
  BY <1>1, EncodeType
<1>3. units[2].val = L
  BY <1>2
<1>4. \A i \in 1..Len(W) : units[2 + i] = W[i] /\ 2 + i <= m
  <2> HIDE DEF k, W, m
  <2> TAKE i \in 1..Len(W)
  <2>1. 2 + i \in 1..k /\ 2 + i <= m
    BY <1>1, <1>2
  <2> QED
    BY <1>2, <2>1 DEF k
<1>5. PICK f \in [0..L -> Reading] :
        /\ f[0] = [args |-> <<>>, rest |-> SubSeq(units, 3, m)]
        /\ \A i \in 1..L : f[i] = ReadArg(f[i - 1])
        /\ Decode(units) = f[L].args
  BY <1>1, <1>2, <1>3, DecodeLoop
<1> DEFINE C(j) == Carried(args[j])
<1>6. ASSUME NEW j \in 1..n
      PROVE  /\ j \in 1..Len(W) /\ W[j] = C(j) /\ C(j).type \in {"number", "string", "protobuf"}
             /\ C(j).type = "protobuf" => j + 1 \in 1..Len(W) /\ W[j + 1] = Body
  <2>1. /\ j \in 1..Len(W) /\ W[j] = C(j) /\ args[j].type \in Carriable
        /\ args[j].type = "protobuf" => j + 1 \in 1..Len(W) /\ W[j + 1] = Body
    BY SoundWritten, SoundType
  <2>2. args[j] \in Items
    BY <1>1
  <2>3. /\ args[j].type \in {"number", "fraction"} => C(j).type = "number"
        /\ args[j].type \notin {"number", "fraction"} => C(j) = args[j]
    BY <2>2, CarriedType
  <2> HIDE DEF C
  <2> QED
    BY <2>1, <2>3 DEF Carriable
<1> HIDE DEF C
<1> HIDE DEF L, n, m, k, W
<1> DEFINE Kept(i) == \A j \in 1..n : j <= i => j \in 1..Len(f[i].args) /\ f[i].args[j] = C(j)
           Exact(i) == /\ Len(f[i].args) = i /\ Len(f[i].rest) = (m - 2) - i
                       /\ \A j \in 1..((m - 2) - i) : f[i].rest[j] = units[(2 + i) + j]
           T == {i \in 0..L : Kept(i) /\ (i <= n => Exact(i))}
<1>7. 0 \in T
  <2>0. f[0] = [args |-> <<>>, rest |-> SubSeq(units, 3, m)]
    BY <1>5, Zenon
  <2>1. f[0].args = <<>> /\ f[0].rest = SubSeq(units, 3, m)
    <3> DEFINE x == <<>>  y == SubSeq(units, 3, m)
    <3>1. f[0] = [args |-> x, rest |-> y]
      BY <2>0
    <3> HIDE DEF x, y
    <3>2. f[0].args = x /\ f[0].rest = y
      BY ONLY <3>1
    <3> QED
      BY <3>2 DEF x, y
  <2>2. Len(f[0].args) = 0 /\ 0 \in 0..L /\ \A j \in 1..n : ~(j <= 0)
    BY <1>1, <2>1
  <2>3. /\ Len(SubSeq(units, 2 + 1, m)) = m - 2
        /\ \A j \in 1..(m - 2) : SubSeq(units, 2 + 1, m)[j] = units[2 + j]
    <3>1. 2 \in Nat /\ 2 <= m /\ m <= Len(units)
      BY <1>1, <1>2 DEF m
    <3> QED
      BY <1>1, <3>1, Part
  <2>4. 2 + 1 = 3 /\ (m - 2) - 0 = m - 2 /\ 2 + 0 = 2
    BY <1>1
  <2>5. Exact(0)
    BY <2>1, <2>2, <2>3, <2>4
  <2> QED
    BY <2>2, <2>5
<1>8. ASSUME NEW i \in 0..(L - 1), i \in T PROVE i + 1 \in T
  <2> DEFINE r == f[i]  q == f[i + 1]
  <2>1. i \in Nat /\ i \in 0..L /\ i + 1 \in 1..L /\ i + 1 \in 0..L /\ (i + 1) - 1 = i
    BY <1>1
  <2>2. r \in Reading /\ q = ReadArg(r) /\ q \in Reading
    BY <1>5, <2>1
  <2>3. r.args \in Seq(Items) /\ r.rest \in Seq(Items) /\ Kept(i) /\ (i <= n => Exact(i))
    BY <1>8, <2>2 DEF Reading
  <2>4. \A j \in 1..Len(r.args) : j \in 1..Len(q.args) /\ q.args[j] = r.args[j]
    BY <2>2, ReadArgType
  <2>5. CASE i >= n
    <3>1. \A j \in 1..n : j <= i
      BY <1>1, <2>1, <2>5
    <3>2. Kept(i + 1)
      BY <2>3, <2>4, <3>1
    <3>3. ~(i + 1 <= n)
      BY <1>1, <2>1, <2>5
    <3> QED
      BY <2>1, <3>2, <3>3
  <2>6. CASE i < n
    <3> DEFINE a == C(i + 1)
    <3>1. i + 1 \in 1..n /\ i <= n
      BY <1>1, <2>1, <2>6
    <3>2. Exact(i)
      BY <2>3, <3>1
    <3>3. i + 1 \in 1..Len(W) /\ W[i + 1] = a /\ a.type \in {"number", "string", "protobuf"}
      BY <1>6, <3>1
    <3>4. units[2 + (i + 1)] = a /\ 2 + (i + 1) <= m
      BY <1>4, <3>3
    <3>5. 1 \in 1..((m - 2) - i) /\ (2 + i) + 1 = 2 + (i + 1) /\ Len(r.rest) > 0
      BY <1>1, <2>1, <3>2, <3>4
    <3>6. r.rest[1] = a /\ r.rest # <<>>
      BY <3>2, <3>4, <3>5
    <3>7. a.type = "protobuf" => Len(r.rest) > 1 /\ r.rest[2] = Body
      <4> SUFFICES ASSUME a.type = "protobuf" PROVE Len(r.rest) > 1 /\ r.rest[2] = Body
        OBVIOUS
      <4>1. (i + 1) + 1 \in 1..Len(W) /\ W[(i + 1) + 1] = Body
        BY <1>6, <3>1
      <4>2. units[2 + ((i + 1) + 1)] = Body /\ 2 + ((i + 1) + 1) <= m
        BY <1>4, <4>1
      <4>3. 2 \in 1..((m - 2) - i) /\ (2 + i) + 2 = 2 + ((i + 1) + 1) /\ Len(r.rest) > 1
        BY <1>1, <2>1, <3>2, <4>2
      <4>4. r.rest[2] = units[(2 + i) + 2]
        BY <3>2, <4>3
      <4> QED
        BY <4>2, <4>3, <4>4
    <3>8. q = [args |-> Append(r.args, a), rest |-> Tail(r.rest)]
      <4> HIDE DEF r, q, a
      <4> QED
        BY <2>2, <3>3, <3>6, <3>7, ReadArgSound
    <3>9. q.args = Append(r.args, a) /\ q.rest = Tail(r.rest)
      BY <3>8
    <3>10. a \in Items
      BY <2>3, <3>5, <3>6
    <3>11. /\ Len(q.args) = i + 1 /\ q.args[i + 1] = a
           /\ Len(q.rest) = Len(r.rest) - 1
           /\ \A j \in 1..(Len(r.rest) - 1) : q.rest[j] = r.rest[j + 1]
      <4> HIDE DEF r, q, a
      <4>1. Len(r.args) = i /\ r.args \in Seq(Items) /\ r.rest \in Seq(Items)
        BY <2>3, <3>2 DEF r
      <4> QED
        BY <3>6, <3>9, <3>10, <4>1
    <3>12. Kept(i + 1)
      <4> SUFFICES ASSUME NEW j \in 1..n, j <= i + 1
                   PROVE  j \in 1..Len(q.args) /\ q.args[j] = C(j)
        OBVIOUS
      <4>1. CASE j <= i
        BY <2>3, <2>4, <4>1
      <4>2. CASE ~(j <= i)
        <5>1. j = i + 1 /\ j \in 1..(i + 1)
          BY <1>1, <2>1, <4>2
        <5> QED
          BY <3>11, <5>1
      <4> QED
        BY <4>1, <4>2
    <3>13. Exact(i + 1)
      <4>1. Len(r.rest) = (m - 2) - i /\ (m - 2) - (i + 1) = Len(r.rest) - 1
        BY <1>1, <2>1, <3>2
      <4>2. ASSUME NEW j \in 1..((m - 2) - (i + 1))
            PROVE  q.rest[j] = units[(2 + (i + 1)) + j]
        <5>1. /\ j \in 1..(Len(r.rest) - 1) /\ j + 1 \in 1..((m - 2) - i)
              /\ (2 + i) + (j + 1) = (2 + (i + 1)) + j
          BY <1>1, <2>1, <4>1
        <5>2. q.rest[j] = r.rest[j + 1]
          BY <3>11, <5>1
        <5>3. r.rest[j + 1] = units[(2 + i) + (j + 1)]
          BY <3>2, <5>1
        <5> QED
          BY <5>1, <5>2, <5>3
      <4> QED
        BY <3>11, <4>1, <4>2
    <3> QED
      BY <2>1, <3>12, <3>13
  <2> QED
    BY <1>1, <2>1, <2>5, <2>6
<1>9. \A i \in 0..L : i \in T
  <2> HIDE DEF T
  <2> QED
    BY <1>1, <1>7, <1>8, SetInduction
<1>10. Kept(L) /\ (L <= n => Exact(L)) /\ L \in 0..L
  BY <1>1, <1>9
<1>11. f[L].args \in Seq(Items)
  <2>1. f[L] \in Reading
    BY <1>10
  <2> QED
    BY <2>1 DEF Reading
<1>12. \A j \in 1..n : j <= L
  BY <1>1
<1>13. n = L => Len(f[L].args) = L
  BY <1>1, <1>10
<1> QED
  BY <1>5, <1>10, <1>11, <1>12, <1>13 DEF L, n, C

\* What send writes, dispatch reads: a buffer that begins with the packet of a POST
\* gives its arguments, if there is no nil or table among them and a protobuf only
\* at the end, and otherwise at least those in front, whatever follows the packet.
\* Strings, protobufs and the integers of 32 bits arrive as they are, and another
\* number as some number.
THEOREM ArgumentsRead ==
  ASSUME NEW args \in Seq(Items), NEW units \in Seq(Items), IsPrefix(Encode(args), units)
  PROVE  /\ \A i \in 1..Sound(args) :
              i \in DOMAIN Decode(units) /\ Arrives(args[i], Decode(units)[i])
         /\ Sound(args) = Len(args) => Len(Decode(units)) = Sound(args)
<1> DEFINE n == Sound(args)  got == Decode(units)  e == Encode(args)  k == calc_len(args)
<1>1. /\ n \in 0..Len(args) /\ Len(args) \in Nat /\ \A i \in 1..n : args[i].type \in Carriable
      /\ \A i \in 1..n : args[i] \in Items
  BY SoundType
<1>2. e \in Seq(Items) /\ Len(e) = k /\ k \in Nat
  BY EncodeType
<1>3. Len(e) <= Len(units) /\ SubSeq(e, 1, Len(e)) = SubSeq(units, 1, Len(e))
  BY DEF IsPrefix
<1>4. Len(units) >= k /\ \A i \in 1..k : units[i] = e[i]
  <2> HIDE DEF e, k
  <2>1. k <= Len(e) /\ k <= Len(units) /\ Len(units) \in Nat /\ Len(e) \in Nat
    BY <1>2, <1>3
  <2>2. \A i \in 1..k : SubSeq(e, 1, k)[i] = e[i] /\ SubSeq(units, 1, k)[i] = units[i]
    BY <1>2, <2>1
  <2> QED
    BY <1>2, <1>3, <2>1, <2>2
<1>5. /\ got \in Seq(Items)
      /\ \A j \in 1..n : j \in 1..Len(got) /\ got[j] = Carried(args[j])
      /\ n = Len(args) => Len(got) = Len(args)
  BY <1>4, SoundRead
<1> HIDE DEF n, got, e, k
<1>6. \A i \in 1..n : Arrives(args[i], Carried(args[i]))
  BY <1>1, CarriedType
<1>7. \A i \in 1..n : i \in DOMAIN got /\ Arrives(args[i], got[i])
  BY <1>5, <1>6
<1> QED
  BY <1>5, <1>7 DEF n, got
=============================================================================
