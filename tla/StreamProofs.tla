----------------------------- MODULE StreamProofs -----------------------------
(***************************************************************************)
(* Proofs about a connection between servers (Stream): for any packets,    *)
(* any sizes of the buffers and any split of the stream, the pointers stay *)
(* in their buffers, and the handlers get the packets in order, each once  *)
(* and as a whole.                                                         *)
(***************************************************************************)
EXTENDS Stream, SrvprotoProofs

-----------------------------------------------------------------------------
(* Sequences *)

\* What comes behind a sequence comes behind what is left of it.
LEMMA SuffixGrows ==
  ASSUME NEW S, NEW s \in Seq(S), NEW t \in Seq(S), NEW m \in Nat, m < Len(s)
  PROVE  SubSeq(s \o t, m + 1, Len(s \o t)) = SubSeq(s, m + 1, Len(s)) \o t
<1> DEFINE st == s \o t  x == SubSeq(s, m + 1, Len(s))  k == Len(s) - m
           y == SubSeq(st, m + 1, Len(st))
<1>1. /\ st \in Seq(S) /\ Len(st) = Len(s) + Len(t) /\ Len(s) \in Nat /\ Len(t) \in Nat
      /\ \A i \in 1..Len(s) : st[i] = s[i]
      /\ \A i \in 1..Len(t) : st[Len(s) + i] = t[i]
  BY Joined
<1>2. x \in Seq(S) /\ Len(x) = k /\ \A i \in 1..k : x[i] = s[m + i]
  BY <1>1, Part
<1> HIDE DEF st, x
<1>3. m <= Len(st) /\ Len(st) \in Nat /\ Len(st) - m = k + Len(t) /\ k \in Nat
  BY <1>1
<1>4. y \in Seq(S) /\ Len(y) = k + Len(t) /\ \A i \in 1..(k + Len(t)) : y[i] = st[m + i]
  BY <1>1, <1>3, Part
<1> HIDE DEF y
<1>5. /\ x \o t \in Seq(S) /\ Len(x \o t) = k + Len(t)
      /\ \A i \in 1..k : (x \o t)[i] = x[i]
      /\ \A i \in 1..Len(t) : (x \o t)[k + i] = t[i]
  <2> HIDE DEF k
  <2>1. x \in Seq(S) /\ t \in Seq(S)
    BY <1>2
  <2>2. /\ x \o t \in Seq(S) /\ Len(x \o t) = Len(x) + Len(t)
        /\ \A i \in 1..Len(x) : (x \o t)[i] = x[i]
        /\ \A i \in 1..Len(t) : (x \o t)[Len(x) + i] = t[i]
    BY ONLY <2>1, Joined
  <2> QED
    BY ONLY <1>2, <2>2
<1>6. ASSUME NEW i \in 1..(k + Len(t)) PROVE y[i] = (x \o t)[i]
  <2>1. CASE i <= k
    <3>1. i \in 1..k /\ m + i \in 1..Len(s)
      BY <1>1, <1>3, <2>1
    <3> QED
      BY <1>1, <1>2, <1>4, <1>5, <3>1
  <2>2. CASE ~(i <= k)
    <3> DEFINE j == i - k
    <3>1. j \in 1..Len(t) /\ k + j = i /\ Len(s) + j = m + i
      BY <1>1, <1>3, <2>2
    <3> HIDE DEF j, k
    <3>2. st[m + i] = t[j] /\ (x \o t)[i] = t[j]
      BY <1>1, <1>5, <3>1
    <3> QED
      BY <1>4, <3>2
  <2> QED
    BY <2>1, <2>2
<1>7. y = x \o t
  BY <1>4, <1>5, <1>6, SeqEqual
<1> QED
  BY <1>7 DEF y, x, st

-----------------------------------------------------------------------------
(* The inductive invariant *)

\* What the places of a buffer hold: a unit of a packet, or what malloc left there.
Units == {unit \in Nat \X Nat :
  unit = Junk \/ (unit[1] \in 1..Len(Args) /\ unit[2] \in 1..Lens[unit[1]])}

Blocks == [size : Nat, data : Seq(Units), rptr : Nat]

\* What a packet may be read as.
Reads == {<<>>} \cup {Decode(fields) : fields \in Seq({Field(unit) : unit \in Units})}

Typed ==
  /\ sent \in 0..Len(Args)
  /\ blocks \in Seq(Blocks) /\ writable \in BOOLEAN
  /\ wire \in Seq(Units)
  /\ buf \in [1..BufSize -> Units]
  /\ rptr \in Nat /\ wptr \in Nat /\ rptr <= wptr /\ wptr <= BufSize
  /\ phase \in {"idle", "parse", "more"} /\ closed \in BOOLEAN
  /\ handled \in Seq([units : Seq(Units), args : Reads])
  /\ ars \in 0..Ars /\ raises \in 0..MaxRaise

\* The blocks are not empty, not fuller than they are large, and only the first
\* one has been read from.
BlocksOK ==
  /\ \A j \in 1..Len(blocks) :
       blocks[j].rptr < Len(blocks[j].data) /\ Len(blocks[j].data) <= blocks[j].size
  /\ \A j \in 2..Len(blocks) : blocks[j].rptr = 0

\* The units of a packet follow each other to its end, another packet comes behind
\* it, and no packet comes back.
Consecutive(T) == \A a, b \in 1..Len(T) :
  a <= b /\ b - a <= Lens[T[a][1]] - T[a][2] => T[b] = <<T[a][1], T[a][2] + (b - a)>>
NextPacket(T) == \A a \in 1..(Len(T) - 1) :
  T[a][2] = Lens[T[a][1]] => T[a + 1] = <<T[a][1] + 1, 1>>
Ascending(T) == \A a, b \in 1..Len(T) : a <= b =>
  T[a][1] <= T[b][1] /\ (T[a][1] = T[b][1] => T[b][2] - T[a][2] = b - a)

\* T is made up of the packets from p to q - 1.
Stretch(T, p, q) ==
  /\ p <= q /\ (Len(T) = 0 <=> p = q)
  /\ \A a \in 1..Len(T) : T[a][1] \in p..(q - 1) /\ T[a][2] \in 1..Lens[T[a][1]]
  /\ Len(T) > 0 => T[1] = <<p, 1>> /\ T[Len(T)] = <<q - 1, Lens[q - 1]>>
  /\ Consecutive(T) /\ NextPacket(T) /\ Ascending(T)

FirstOf(b) == b.data[1][1]
LastOf(b) == b.data[Len(b.data)][1]

\* A block holds packets as a whole, and the next one goes on behind it.
Chained ==
  /\ \A j \in 1..Len(blocks) : /\ Stretch(blocks[j].data, FirstOf(blocks[j]), LastOf(blocks[j]) + 1)
                               /\ FirstOf(blocks[j]) \in 1..sent /\ LastOf(blocks[j]) \in 1..sent
  /\ \A j \in 2..Len(blocks) : FirstOf(blocks[j]) = LastOf(blocks[j - 1]) + 1
  /\ blocks # <<>> => LastOf(blocks[Len(blocks)]) = sent

\* What has not been handled, up to the end of the first block.
Data == SubSeq(buf, rptr + 1, wptr)
Rest == IF blocks = <<>> THEN <<>>
        ELSE SubSeq(blocks[1].data, blocks[1].rptr + 1, Len(blocks[1].data))
Pending == (Data \o wire) \o Rest

\* It goes on with the packet behind those that were handled.
InOrder ==
  /\ Stretch(Pending, Len(handled) + 1, IF blocks = <<>> THEN sent + 1 ELSE LastOf(blocks[1]) + 1)
  /\ \A p \in 1..Len(handled) : handled[p].units = Packet(p)

TypeInv == Typed /\ BlocksOK

-----------------------------------------------------------------------------
(* Lemmas about packets, units and blocks *)

\* The arguments are units of packets.
LEMMA ArgsType ==
  ASSUME NEW p \in 1..Len(Args)
  PROVE  Args[p] \in Seq(Items)
<1> DEFINE A == [type : Types, val : Int]
<1>1. Args \in Seq(Seq(A))
  BY StreamAssumption
<1>2. Args[p] \in Seq(A)
  <2> HIDE DEF A
  <2> QED
    BY <1>1
<1>3. \A a \in A : a \in Items
  BY DEF Items, UnitTypes
<1> HIDE DEF A
<1> QED
  BY <1>2, <1>3

\* A packet has at least its header.
LEMMA LensType ==
  ASSUME NEW p \in 1..Len(Args)
  PROVE  Lens[p] \in Nat /\ Lens[p] # 0 /\ Lens[p] >= 2 /\ p \in DOMAIN Args
<1>1. p \in DOMAIN Args
  BY StreamAssumption
<1>2. calc_len(Args[p]) \in Nat /\ calc_len(Args[p]) >= 2
  BY ArgsType, EncodeType
<1>3. Lens[p] = calc_len(Args[p])
  BY <1>1 DEF Lens
<1> QED
  BY <1>1, <1>2, <1>3

LEMMA PacketType ==
  ASSUME NEW p \in 1..Len(Args)
  PROVE  /\ Packet(p) \in Seq(Units) /\ Len(Packet(p)) = Lens[p]
         /\ \A i \in 1..Lens[p] : Packet(p)[i] = <<p, i>>
<1>1. Lens[p] \in Nat /\ Len(Args) \in Nat
  BY LensType, StreamAssumption
<1>2. \A i \in 1..Lens[p] : <<p, i>> \in Units
  BY <1>1 DEF Units
<1>3. Packet(p) \in [1..Lens[p] -> Units]
  BY <1>2 DEF Packet
<1> QED
  BY <1>1, <1>3 DEF Packet

\* A header names a packet.
LEMMA UnitType ==
  ASSUME NEW unit \in Units
  PROVE  /\ unit[1] \in Nat /\ unit[2] \in Nat /\ unit = <<unit[1], unit[2]>>
         /\ unit[2] = 1 => unit[1] \in 1..Len(Args)
<1>1. unit \in Nat \X Nat
  BY DEF Units
<1>2. unit[1] \in Nat /\ unit[2] \in Nat /\ unit = <<unit[1], unit[2]>>
  BY <1>1
<1>3. unit[2] = 1 => unit # Junk
  BY DEF Junk
<1> QED
  BY <1>2, <1>3 DEF Units

\* sendbuf_alloc finds a block that is large enough.
LEMMA BlockSizeFits ==
  ASSUME NEW p \in 1..Len(Args)
  PROVE  BlockSize(Lens[p]) \in Nat /\ BlockSize(Lens[p]) >= Lens[p]
<1> DEFINE S == {s \in Sizes : s >= Lens[p]}
<1>1. Sizes \subseteq Nat /\ S \in SUBSET Nat
  BY StreamAssumption
<1>2. S # {}
  BY LensType, SizesAssumption
<1>3. PICK s \in S : \A r \in S : s <= r
  BY <1>1, <1>2, LeastNat
<1>4. \E t \in Sizes : t >= Lens[p] /\ \A r \in Sizes : r >= Lens[p] => t <= r
  BY <1>3
<1>5. BlockSize(Lens[p]) \in Sizes /\ BlockSize(Lens[p]) >= Lens[p]
  BY <1>4 DEF BlockSize
<1> QED
  BY <1>1, <1>5

\* The receive buffer as a sequence.
LEMMA BufSeq ==
  ASSUME Typed
  PROVE  /\ buf \in Seq(Units) /\ Len(buf) = BufSize /\ BufSize \in Nat
         /\ \A i \in 1..BufSize : buf[i] \in Units
<1>1. BufSize \in Nat
  BY StreamAssumption
<1> QED
  BY <1>1 DEF Typed

LEMMA PlensType ==
  ASSUME Typed, NEW plen \in Plens
  PROVE  /\ plen \in Nat /\ rptr < wptr /\ buf[rptr + 1] \in Units
         /\ buf[rptr + 1][2] = 1 => plen = Lens[buf[rptr + 1][1]]
<1>1. rptr \in Nat /\ wptr \in Nat /\ rptr <= wptr /\ wptr <= BufSize /\ BufSize \in Nat
  BY BufSeq DEF Typed
<1>2. Datalen # 0
  BY DEF Plens
<1>3. rptr < wptr
  BY <1>1, <1>2 DEF Datalen
<1>4. buf[rptr + 1] \in Units
  BY <1>1, <1>3, BufSeq
<1>5. CASE buf[rptr + 1][2] = 1
  <2>1. plen = Lens[buf[rptr + 1][1]]
    BY <1>2, <1>5 DEF Plens
  <2> QED
    BY <1>3, <1>4, <1>5, <2>1, UnitType, LensType
<1>6. CASE buf[rptr + 1][2] # 1
  <2>1. plen \in 0..(BufSize + 1)
    BY <1>2, <1>6 DEF Plens
  <2> QED
    BY <1>1, <1>3, <1>4, <1>6, <2>1
<1> QED
  BY <1>5, <1>6

-----------------------------------------------------------------------------
(* What the steps do to the blocks *)

\* A packet goes behind what the last block has, where there is room for it, or
\* into a block of its own.
LEMMA Allocated ==
  ASSUME TypeInv, NEW p \in 1..Len(Args), NEW bs, bs = Alloc(Lens[p], Packet(p))
  PROVE  /\ bs \in Seq(Blocks)
         /\ LET n == Len(blocks) IN
            \/ /\ n > 0 /\ Len(bs) = n /\ \A j \in 1..(n - 1) : bs[j] = blocks[j]
               /\ bs[n].data = blocks[n].data \o Packet(p)
               /\ bs[n].rptr = blocks[n].rptr /\ bs[n].size = blocks[n].size
               /\ Len(blocks[n].data) + Lens[p] <= blocks[n].size
            \/ /\ Len(bs) = n + 1 /\ \A j \in 1..n : bs[j] = blocks[j]
               /\ bs[n + 1] = [size |-> BlockSize(Lens[p]), data |-> Packet(p), rptr |-> 0]
<1> DEFINE n == Len(blocks)
<1>1. /\ blocks \in Seq(Blocks) /\ n \in Nat /\ Lens[p] \in Nat
      /\ Packet(p) \in Seq(Units) /\ Len(Packet(p)) = Lens[p]
  BY LensType, PacketType DEF TypeInv, Typed
<1>2. CASE blocks # <<>> /\ Room(Last(blocks)) >= Lens[p]
  <2>1. n > 0 /\ n \in 1..n /\ blocks[n] \in Blocks /\ Last(blocks) = blocks[n]
    BY <1>1, <1>2, EmptySeq DEF Last
  <2>2. blocks[n].size \in Nat /\ blocks[n].data \in Seq(Units) /\ blocks[n].rptr \in Nat
    BY <2>1 DEF Blocks
  <2>3. Len(blocks[n].data) \in Nat /\ Len(blocks[n].data) + Lens[p] <= blocks[n].size
    BY <1>1, <1>2, <2>1, <2>2 DEF Room
  <2> DEFINE b == [blocks[n] EXCEPT !.data = blocks[n].data \o Packet(p)]
  <2>4. /\ b.data = blocks[n].data \o Packet(p)
        /\ b.rptr = blocks[n].rptr /\ b.size = blocks[n].size
    BY <2>1 DEF Blocks
  <2>5. b \in Blocks
    <3>1. blocks[n].data \o Packet(p) \in Seq(Units)
      BY <1>1, <2>2
    <3> QED
      BY <2>1, <3>1 DEF Blocks
  <2>6. bs = [blocks EXCEPT ![n] = b]
    BY <1>2 DEF Alloc
  <2> HIDE DEF b
  <2>7. bs \in Seq(Blocks) /\ Len(bs) = n /\ bs[n] = b /\ \A j \in 1..(n - 1) : bs[j] = blocks[j]
    BY <1>1, <2>1, <2>5, <2>6
  <2> QED
    BY <2>1, <2>3, <2>4, <2>7
<1>3. CASE ~(blocks # <<>> /\ Room(Last(blocks)) >= Lens[p])
  <2> DEFINE b == [size |-> BlockSize(Lens[p]), data |-> Packet(p), rptr |-> 0]
  <2>1. b \in Blocks
    BY <1>1, BlockSizeFits DEF Blocks
  <2>2. bs = Append(blocks, b)
    BY <1>3 DEF Alloc
  <2> HIDE DEF b
  <2>3. bs \in Seq(Blocks) /\ Len(bs) = n + 1 /\ bs[n + 1] = b /\ \A j \in 1..n : bs[j] = blocks[j]
    BY <1>1, <2>1, <2>2
  <2> QED
    BY <2>3 DEF b
<1> QED
  BY <1>2, <1>3

\* A block from which all was sent is given back; otherwise its rptr goes on.
LEMMA Skipped ==
  ASSUME TypeInv, blocks # <<>>, NEW n \in 1..(Len(blocks[1].data) - blocks[1].rptr),
         NEW bs, bs = skip_read_ptr(n)
  PROVE  /\ bs \in Seq(Blocks) /\ Len(blocks) \in Nat \ {0}
         /\ blocks[1] \in Blocks /\ Head(blocks) = blocks[1]
         /\ \/ /\ blocks[1].rptr + n = Len(blocks[1].data)
               /\ Len(bs) = Len(blocks) - 1 /\ \A j \in 1..Len(bs) : bs[j] = blocks[j + 1]
            \/ /\ blocks[1].rptr + n < Len(blocks[1].data) /\ Len(bs) = Len(blocks)
               /\ bs[1].data = blocks[1].data /\ bs[1].size = blocks[1].size
               /\ bs[1].rptr = blocks[1].rptr + n
               /\ \A j \in 2..Len(bs) : bs[j] = blocks[j]
<1>1. blocks \in Seq(Blocks) /\ Len(blocks) \in Nat /\ Len(blocks) # 0
  BY EmptySeq DEF TypeInv, Typed
<1>2. blocks[1] \in Blocks /\ Head(blocks) = blocks[1]
  BY <1>1
<1>3. /\ blocks[1].rptr \in Nat /\ blocks[1].data \in Seq(Units) /\ Len(blocks[1].data) \in Nat
  BY <1>2 DEF Blocks
<1>4. CASE blocks[1].rptr + n >= Len(blocks[1].data)
  <2>1. bs = Tail(blocks) /\ blocks[1].rptr + n = Len(blocks[1].data)
    <3>1. bs = Tail(blocks)
      BY <1>2, <1>4 DEF skip_read_ptr
    <3>2. blocks[1].rptr + n = Len(blocks[1].data)
      BY <1>3, <1>4
    <3> QED
      BY <3>1, <3>2
  <2>2. bs \in Seq(Blocks) /\ Len(bs) = Len(blocks) - 1 /\ \A j \in 1..Len(bs) : bs[j] = blocks[j + 1]
    BY <1>1, <2>1
  <2> QED
    BY <1>1, <1>2, <2>1, <2>2
<1>5. CASE ~(blocks[1].rptr + n >= Len(blocks[1].data))
  <2> DEFINE b == [blocks[1] EXCEPT !.rptr = blocks[1].rptr + n]
  <2>1. bs = [blocks EXCEPT ![1] = b]
    BY <1>2, <1>5 DEF skip_read_ptr
  <2>2. b \in Blocks
    BY <1>2, <1>3 DEF Blocks
  <2>3. /\ b.data = blocks[1].data /\ b.size = blocks[1].size /\ b.rptr = blocks[1].rptr + n
    BY <1>2 DEF Blocks
  <2> HIDE DEF b
  <2>4. bs \in Seq(Blocks) /\ Len(bs) = Len(blocks) /\ bs[1] = b /\ \A j \in 2..Len(bs) : bs[j] = blocks[j]
    BY <1>1, <2>1, <2>2
  <2> QED
    BY <1>1, <1>2, <1>3, <1>5, <2>3, <2>4
<1> QED
  BY <1>4, <1>5

-----------------------------------------------------------------------------
(* Types and pointers *)

LEMMA InitType == Init => TypeInv
<1> SUFFICES ASSUME Init PROVE TypeInv
  OBVIOUS
<1>1. Len(Args) \in Nat /\ BufSize \in Nat /\ Ars \in Nat /\ MaxRaise \in Nat
  BY StreamAssumption
<1>2. Junk \in Units
  BY DEF Junk, Units
<1>3. buf \in [1..BufSize -> Units]
  BY <1>2 DEF Init
<1>0. writable \in BOOLEAN /\ closed \in BOOLEAN
  BY Zenon DEF Init
<1>4. /\ sent \in 0..Len(Args)
      /\ rptr \in Nat /\ wptr \in Nat /\ rptr <= wptr /\ wptr <= BufSize
      /\ ars \in 0..Ars /\ raises \in 0..MaxRaise /\ phase = "idle"
  BY <1>1 DEF Init
<1>5. blocks = <<>> /\ wire = <<>> /\ handled = <<>>
  BY DEF Init
<1>6. /\ blocks \in Seq(Blocks) /\ wire \in Seq(Units)
      /\ handled \in Seq([units : Seq(Units), args : Reads])
  BY <1>5, EmptySeq, Zenon
<1>8. Typed
  BY <1>0, <1>3, <1>4, <1>6, Zenon DEF Typed
<1>7. BlocksOK
  BY <1>5 DEF BlocksOK
<1> QED
  BY <1>7, <1>8 DEF TypeInv

LEMMA sendType == TypeInv /\ send => TypeInv'
<1> SUFFICES ASSUME TypeInv, send PROVE TypeInv'
  OBVIOUS
<1>1. /\ sent' \in 1..Len(Args) /\ blocks' = Alloc(Lens[sent'], Packet(sent')) /\ writable' = TRUE
      /\ UNCHANGED <<wire, buf, rptr, wptr, phase, closed, handled, ars, raises>>
  BY StreamAssumption DEF send, recvVars, TypeInv, Typed
<1>2. blocks' \in Seq(Blocks)
  BY <1>1, Allocated
<1>3. Typed'
  BY <1>1, <1>2 DEF TypeInv, Typed
<1>4. BlocksOK'
  <2> DEFINE n == Len(blocks)
  <2>1. n \in Nat /\ \A j \in 1..n : blocks[j] \in Blocks
    BY DEF TypeInv, Typed
  <2>2. /\ Lens[sent'] \in Nat \ {0} /\ Len(Packet(sent')) = Lens[sent']
        /\ Packet(sent') \in Seq(Units)
        /\ BlockSize(Lens[sent']) \in Nat /\ BlockSize(Lens[sent']) >= Lens[sent']
    BY <1>1, LensType, PacketType, BlockSizeFits
  <2>3. /\ \A j \in 1..n : blocks[j].rptr < Len(blocks[j].data) /\ Len(blocks[j].data) <= blocks[j].size
        /\ \A j \in 2..n : blocks[j].rptr = 0
    BY DEF TypeInv, BlocksOK
  <2>4. CASE /\ n > 0 /\ Len(blocks') = n /\ \A j \in 1..(n - 1) : blocks'[j] = blocks[j]
             /\ blocks'[n].data = blocks[n].data \o Packet(sent')
             /\ blocks'[n].rptr = blocks[n].rptr /\ blocks'[n].size = blocks[n].size
             /\ Len(blocks[n].data) + Lens[sent'] <= blocks[n].size
    <3>1. blocks[n] \in Blocks
      BY <2>1, <2>4
    <3>2. blocks[n].data \in Seq(Units) /\ blocks[n].rptr \in Nat
      BY <3>1 DEF Blocks
    <3>3. Len(blocks'[n].data) = Len(blocks[n].data) + Lens[sent']
      <4>1. Len(blocks[n].data \o Packet(sent')) = Len(blocks[n].data) + Len(Packet(sent'))
        BY <2>2, <3>2, ConcatProperties
      <4> QED
        BY <2>2, <2>4, <4>1
    <3>4. /\ blocks'[n].rptr < Len(blocks'[n].data) /\ Len(blocks'[n].data) <= blocks'[n].size
          /\ n >= 2 => blocks'[n].rptr = 0
      BY <2>1, <2>2, <2>3, <2>4, <3>2, <3>3
    <3>5. ASSUME NEW j \in 1..n
          PROVE  /\ blocks'[j].rptr < Len(blocks'[j].data) /\ Len(blocks'[j].data) <= blocks'[j].size
                 /\ j >= 2 => blocks'[j].rptr = 0
      <4>1. CASE j = n
        BY <3>4, <4>1
      <4>2. CASE j # n
        <5>1. j \in 1..(n - 1) /\ (j >= 2 => j \in 2..n)
          BY <2>1, <4>2
        <5>2. blocks'[j] = blocks[j]
          BY <2>4, <5>1
        <5> QED
          BY <2>3, <5>1, <5>2
      <4> QED
        BY <4>1, <4>2
    <3> QED
      BY <2>1, <2>4, <3>5 DEF BlocksOK
  <2>5. CASE /\ Len(blocks') = n + 1 /\ \A j \in 1..n : blocks'[j] = blocks[j]
             /\ blocks'[n + 1] = [size |-> BlockSize(Lens[sent']), data |-> Packet(sent'), rptr |-> 0]
    <3>1. /\ blocks'[n + 1].rptr = 0 /\ blocks'[n + 1].data = Packet(sent')
          /\ blocks'[n + 1].size = BlockSize(Lens[sent'])
      BY <2>5
    <3>2. ASSUME NEW j \in 1..(n + 1)
          PROVE  /\ blocks'[j].rptr < Len(blocks'[j].data) /\ Len(blocks'[j].data) <= blocks'[j].size
                 /\ j >= 2 => blocks'[j].rptr = 0
      <4>1. CASE j = n + 1
        BY <2>2, <3>1, <4>1
      <4>2. CASE j # n + 1
        BY <2>1, <2>3, <2>5, <4>2
      <4> QED
        BY <4>1, <4>2
    <3> QED
      BY <2>1, <2>5, <3>2 DEF BlocksOK
  <2> QED
    BY <1>1, <2>4, <2>5, Allocated
<1> QED
  BY <1>3, <1>4 DEF TypeInv

LEMMA port_on_writeType == TypeInv /\ port_on_write => TypeInv'
<1> SUFFICES ASSUME TypeInv, port_on_write PROVE TypeInv'
  OBVIOUS
<1>1. /\ blocks # <<>> /\ writable' = (blocks' # <<>>)
      /\ UNCHANGED <<sent, buf, rptr, wptr, phase, closed, handled, ars, raises>>
  BY DEF port_on_write, recvVars
<1>2. Head(blocks) = blocks[1] /\ blocks[1] \in Blocks /\ Len(blocks) \in Nat \ {0}
  BY <1>1, EmptySeq DEF TypeInv, Typed
<1>3. PICK n \in 1..(Len(blocks[1].data) - blocks[1].rptr) :
        /\ wire' = wire \o SubSeq(blocks[1].data, blocks[1].rptr + 1, blocks[1].rptr + n)
        /\ blocks' = skip_read_ptr(n)
  BY <1>2 DEF port_on_write
<1>4. /\ blocks[1].rptr \in Nat /\ blocks[1].data \in Seq(Units) /\ Len(blocks[1].data) \in Nat
      /\ n \in Nat /\ blocks[1].rptr + n <= Len(blocks[1].data)
  BY <1>2 DEF Blocks
<1>5. wire' \in Seq(Units)
  <2>1. SubSeq(blocks[1].data, blocks[1].rptr + 1, blocks[1].rptr + n) \in Seq(Units)
    BY <1>4, Part
  <2>2. wire \in Seq(Units)
    BY DEF TypeInv, Typed
  <2> QED
    BY <1>3, <2>1, <2>2
<1>6. blocks' \in Seq(Blocks)
  BY <1>1, <1>3, Skipped
<1>7. Typed'
  BY <1>1, <1>5, <1>6 DEF TypeInv, Typed
<1>8. BlocksOK'
  <2>1. /\ \A j \in 1..Len(blocks) : blocks[j].rptr < Len(blocks[j].data)
                                     /\ Len(blocks[j].data) <= blocks[j].size
        /\ \A j \in 2..Len(blocks) : blocks[j].rptr = 0
    BY DEF TypeInv, BlocksOK
  <2>2. CASE Len(blocks') = Len(blocks) - 1 /\ \A j \in 1..Len(blocks') : blocks'[j] = blocks[j + 1]
    <3>1. \A j \in 1..Len(blocks') : j + 1 \in 2..Len(blocks) /\ j + 1 \in 1..Len(blocks)
      BY <1>2, <2>2
    <3>2. \A j \in 2..Len(blocks') : j \in 1..Len(blocks')
      BY <1>2, <2>2
    <3> QED
      BY <2>1, <2>2, <3>1, <3>2 DEF BlocksOK
  <2>3. CASE /\ blocks[1].rptr + n < Len(blocks[1].data) /\ Len(blocks') = Len(blocks)
             /\ blocks'[1].data = blocks[1].data /\ blocks'[1].size = blocks[1].size
             /\ blocks'[1].rptr = blocks[1].rptr + n
             /\ \A j \in 2..Len(blocks') : blocks'[j] = blocks[j]
    <3>1. /\ blocks'[1].rptr < Len(blocks'[1].data) /\ Len(blocks'[1].data) <= blocks'[1].size
      BY <1>2, <2>1, <2>3
    <3>2. ASSUME NEW j \in 1..Len(blocks')
          PROVE  blocks'[j].rptr < Len(blocks'[j].data) /\ Len(blocks'[j].data) <= blocks'[j].size
      <4>1. CASE j = 1
        BY <3>1, <4>1
      <4>2. CASE j # 1
        <5>1. j \in 2..Len(blocks') /\ j \in 1..Len(blocks)
          BY <1>2, <2>3, <4>2
        <5> QED
          BY <2>1, <2>3, <5>1
      <4> QED
        BY <4>1, <4>2
    <3> QED
      BY <2>1, <2>3, <3>2 DEF BlocksOK
  <2> QED
    BY <1>1, <1>3, <2>2, <2>3, Skipped
<1> QED
  BY <1>7, <1>8 DEF TypeInv

LEMMA RecvType == TypeInv /\ Recv => TypeInv'
<1> SUFFICES ASSUME TypeInv, Recv PROVE TypeInv'
  OBVIOUS
<1>0. Typed
  BY DEF TypeInv
<1>1. /\ phase' = "parse"
      /\ UNCHANGED <<sent, blocks, writable, rptr, closed, handled, ars, raises>>
  BY DEF Recv, sendVars
<1> DEFINE at == IF Proto = "srv" THEN wptr ELSE rptr
<1>2. PICK n \in 1..Bufremain : n <= Len(wire) /\ Fill(at, n)
  BY DEF Recv
<1>3. /\ rptr \in Nat /\ wptr \in Nat /\ rptr <= wptr /\ wptr <= BufSize /\ BufSize \in Nat
      /\ wire \in Seq(Units) /\ Len(wire) \in Nat /\ at \in Nat
      /\ \A i \in 1..BufSize : buf[i] \in Units
  BY <1>0, BufSeq DEF Typed
<1>4. n \in Nat /\ wptr + n <= BufSize /\ n <= Len(wire)
  BY <1>2, <1>3 DEF Bufremain
<1> HIDE DEF at
<1>5. /\ buf' = [i \in 1..BufSize |-> IF i \in (at + 1)..(at + n) THEN wire[i - at] ELSE buf[i]]
      /\ wptr' = wptr + n /\ wire' = SubSeq(wire, n + 1, Len(wire))
  BY <1>2 DEF Fill
<1>6. wire' \in Seq(Units)
  BY <1>3, <1>4, <1>5, Part
<1>7. buf' \in [1..BufSize -> Units]
  <2>1. ASSUME NEW i \in 1..BufSize
        PROVE  (IF i \in (at + 1)..(at + n) THEN wire[i - at] ELSE buf[i]) \in Units
    <3>1. CASE i \in (at + 1)..(at + n)
      <4>1. i - at \in 1..Len(wire)
        BY <1>3, <1>4, <3>1
      <4>2. wire[i - at] \in Units
        BY <1>3, <4>1, ElementOfSeq
      <4> QED
        BY <3>1, <4>2
    <3>2. CASE i \notin (at + 1)..(at + n)
      BY <1>3, <3>2
    <3> QED
      BY <3>1, <3>2
  <2> QED
    BY <1>5, <2>1
<1>8. rptr' \in Nat /\ wptr' \in Nat /\ rptr' <= wptr' /\ wptr' <= BufSize
  BY <1>1, <1>3, <1>4, <1>5
<1>9. Typed'
  BY <1>0, <1>1, <1>6, <1>7, <1>8 DEF Typed
<1>10. BlocksOK'
  BY <1>1 DEF TypeInv, BlocksOK
<1> QED
  BY <1>9, <1>10 DEF TypeInv

LEMMA RecvFullType == TypeInv /\ RecvFull => TypeInv'
<1> SUFFICES ASSUME TypeInv, RecvFull PROVE TypeInv'
  OBVIOUS
<1>1. /\ closed' = TRUE /\ phase' = "idle"
      /\ UNCHANGED <<sent, blocks, writable, wire, buf, rptr, wptr, handled, ars, raises>>
  BY DEF RecvFull, sendVars
<1>2. Typed'
  BY <1>1 DEF TypeInv, Typed
<1>3. BlocksOK'
  BY <1>1 DEF TypeInv, BlocksOK
<1> QED
  BY <1>2, <1>3 DEF TypeInv

\* A complete packet is inside the data of the buffer.
LEMMA CompleteFits ==
  ASSUME Typed, NEW plen \in Plens, Complete(plen)
  PROVE  /\ plen \in Nat /\ rptr + plen <= wptr
         /\ Delivered(plen).units = SubSeq(buf, rptr + 1, rptr + plen)
         /\ Delivered(plen) \in [units : Seq(Units), args : Reads]
<1>1. plen \in Nat
  BY PlensType
<1>2. rptr \in Nat /\ wptr \in Nat /\ rptr <= wptr /\ wptr <= BufSize
  BY DEF Typed
<1>3. rptr + plen <= wptr
  BY <1>1, <1>2 DEF Complete, Datalen
<1>4. SubSeq(buf, rptr + 1, rptr + plen) \in Seq(Units)
  <2>1. /\ buf \in Seq(Units) /\ rptr + plen \in Nat /\ rptr <= rptr + plen
        /\ rptr + plen <= Len(buf)
    BY <1>1, <1>2, <1>3, BufSeq
  <2> QED
    BY <1>2, <2>1, Part
<1> DEFINE fields == [i \in 1..Datalen |-> Field(buf[rptr + i])]
           read == IF Proto = "pb" THEN <<>> ELSE Decode(fields)
<1>5. fields \in Seq({Field(unit) : unit \in Units})
  <2>1. \A i \in 1..Datalen : buf[rptr + i] \in Units
    BY <1>2, BufSeq DEF Datalen
  <2>2. Datalen \in Nat
    BY <1>2 DEF Datalen
  <2>3. fields \in [1..Datalen -> {Field(unit) : unit \in Units}]
    BY <2>1
  <2> QED
    BY <2>2, <2>3
<1> HIDE DEF fields
<1>6. read \in Reads
  BY <1>5 DEF Reads
<1>7. Delivered(plen) = [units |-> SubSeq(buf, rptr + 1, rptr + plen), args |-> read]
  BY DEF Delivered, fields
<1> HIDE DEF read
<1> QED
  BY <1>1, <1>3, <1>4, <1>6, <1>7

LEMMA HandleType == TypeInv /\ Handle => TypeInv'
<1> SUFFICES ASSUME TypeInv, Handle PROVE TypeInv'
  OBVIOUS
<1>0. Typed
  BY DEF TypeInv
<1>1. /\ phase' \in {"parse", "more"}
      /\ UNCHANGED <<sent, blocks, writable, wire, buf, wptr, closed, ars, raises>>
  BY DEF Handle, sendVars
<1>2. PICK plen \in Plens : /\ Complete(plen)
                            /\ handled' = Append(handled, Delivered(plen))
                            /\ rptr' = rptr + plen
  BY DEF Handle
<1>3. plen \in Nat /\ rptr + plen <= wptr /\ Delivered(plen) \in [units : Seq(Units), args : Reads]
  BY <1>0, <1>2, CompleteFits
<1>4. handled' \in Seq([units : Seq(Units), args : Reads])
  <2>1. handled \in Seq([units : Seq(Units), args : Reads])
    BY <1>0 DEF Typed
  <2> QED
    BY <1>2, <1>3, <2>1, AppendProperties, Zenon
<1>5. rptr' \in Nat /\ rptr' <= wptr'
  BY <1>0, <1>1, <1>2, <1>3 DEF Typed
<1>6. Typed'
  BY <1>0, <1>1, <1>4, <1>5 DEF Typed
<1>7. BlocksOK'
  BY <1>1 DEF TypeInv, BlocksOK
<1> QED
  BY <1>6, <1>7 DEF TypeInv

LEMMA HandleRaisesType == TypeInv /\ HandleRaises => TypeInv'
<1> SUFFICES ASSUME TypeInv, HandleRaises PROVE TypeInv'
  OBVIOUS
<1>1. /\ phase' = "idle"
      /\ UNCHANGED <<sent, blocks, writable, wire, buf, rptr, wptr, closed, handled>>
  BY DEF HandleRaises, sendVars
<1>2. ars' \in 0..Ars /\ raises' \in 0..MaxRaise
  BY StreamAssumption DEF HandleRaises, TypeInv, Typed
<1>3. Typed'
  BY <1>1, <1>2 DEF TypeInv, Typed
<1>4. BlocksOK'
  BY <1>1 DEF TypeInv, BlocksOK
<1> QED
  BY <1>3, <1>4 DEF TypeInv

LEMMA LoopEndType == TypeInv /\ LoopEnd => TypeInv'
<1> SUFFICES ASSUME TypeInv, LoopEnd PROVE TypeInv'
  OBVIOUS
<1>0. Typed
  BY DEF TypeInv
<1>1. /\ phase' = "idle"
      /\ UNCHANGED <<sent, blocks, writable, wire, closed, handled, ars, raises>>
  BY DEF LoopEnd, sendVars
<1>2. /\ buf' = [i \in 1..BufSize |-> IF i <= Datalen THEN buf[rptr + i] ELSE buf[i]]
      /\ rptr' = 0 /\ wptr' = Datalen
  BY DEF LoopEnd, buf2line
<1>3. /\ rptr \in Nat /\ wptr \in Nat /\ rptr <= wptr /\ wptr <= BufSize /\ BufSize \in Nat
      /\ \A i \in 1..BufSize : buf[i] \in Units
  BY <1>0, BufSeq DEF Typed
<1>4. buf' \in [1..BufSize -> Units]
  <2>1. \A i \in 1..BufSize : i <= Datalen => rptr + i \in 1..BufSize
    BY <1>3 DEF Datalen
  <2>2. \A i \in 1..BufSize : (IF i <= Datalen THEN buf[rptr + i] ELSE buf[i]) \in Units
    BY <1>3, <2>1
  <2> QED
    BY <1>2, <2>2
<1>5. rptr' \in Nat /\ wptr' \in Nat /\ rptr' <= wptr' /\ wptr' <= BufSize
  BY <1>2, <1>3 DEF Datalen
<1>6. Typed'
  BY <1>0, <1>1, <1>4, <1>5 DEF Typed
<1>7. BlocksOK'
  BY <1>1 DEF TypeInv, BlocksOK
<1> QED
  BY <1>6, <1>7 DEF TypeInv

LEMMA StepType == TypeInv /\ [Next]_vars => TypeInv'
<1> SUFFICES ASSUME TypeInv, [Next]_vars PROVE TypeInv'
  OBVIOUS
<1>1. CASE UNCHANGED vars
  <2>1. Typed'
    BY <1>1 DEF TypeInv, vars, Typed
  <2>2. BlocksOK'
    BY <1>1 DEF TypeInv, vars, BlocksOK
  <2> QED
    BY <2>1, <2>2 DEF TypeInv
<1> QED
  BY <1>1, sendType, port_on_writeType, RecvType, RecvFullType, HandleType, HandleRaisesType,
     LoopEndType DEF Next, Receive

LEMMA TypeInvariance == Spec => []TypeInv
  BY InitType, StepType, PTL DEF Spec

\* The pointers of the receive buffer stay inside it, a block of the send buffer is
\* never fuller than it is large, and it is given back once it was read to its end.
THEOREM TypeCorrect == Spec => []TypeOK
<1>1. TypeInv => TypeOK
  <2> SUFFICES ASSUME TypeInv PROVE TypeOK
    OBVIOUS
  <2>1. Typed
    BY DEF TypeInv
  <2>2. blocks \in Seq(Blocks) /\ DOMAIN blocks = 1..Len(blocks)
    BY <2>1 DEF Typed
  <2>3. \A b \in Range(blocks) : b.rptr < Len(b.data) /\ Len(b.data) <= b.size
    BY <2>2 DEF TypeInv, BlocksOK, Range
  <2>4. Len(buf) = BufSize
    BY <2>1, BufSeq
  <2>5. 0 <= rptr
    BY <2>1 DEF Typed
  <2> QED
    BY <2>1, <2>3, <2>4, <2>5 DEF TypeOK, Typed
<1> QED
  BY <1>1, TypeInvariance, PTL

-----------------------------------------------------------------------------
(* Stretches of packets *)

\* A packet is a stretch.
LEMMA StretchOne ==
  ASSUME NEW p \in 1..Len(Args)
  PROVE  Stretch(Packet(p), p, p + 1)
<1> DEFINE T == Packet(p)
<1>1. Len(Args) \in Nat /\ Lens[p] \in Nat /\ Lens[p] # 0
  BY LensType, StreamAssumption
<1>2. Len(T) = Lens[p] /\ \A i \in 1..Lens[p] : T[i] = <<p, i>>
  BY PacketType
<1> HIDE DEF T
<1>3. \A a \in 1..Len(T) : T[a][1] = p /\ T[a][2] = a
  BY <1>1, <1>2
<1>4. Consecutive(T)
  BY <1>1, <1>2, <1>3 DEF Consecutive
<1>5. NextPacket(T)
  BY <1>1, <1>2, <1>3 DEF NextPacket
<1>6. Ascending(T)
  BY <1>1, <1>2, <1>3 DEF Ascending
<1> QED
  BY <1>1, <1>2, <1>3, <1>4, <1>5, <1>6 DEF Stretch, T

\* Two stretches are one, if the second begins where the first ends.
LEMMA StretchJoin ==
  ASSUME NEW S \in Seq(Units), NEW T \in Seq(Units), NEW p \in Nat, NEW q \in Nat, NEW r \in Nat,
         p >= 1, r <= Len(Args) + 1, Stretch(S, p, q), Stretch(T, q, r)
  PROVE  Stretch(S \o T, p, r)
<1> DEFINE U == S \o T  m == Len(S)  n == Len(T)
<1>1. /\ m \in Nat /\ n \in Nat /\ U \in Seq(Units) /\ Len(U) = m + n
      /\ \A i \in 1..m : U[i] = S[i]
      /\ \A i \in 1..n : U[m + i] = T[i]
  OBVIOUS
<1>2. Len(Args) \in Nat
  BY StreamAssumption
<1>3. p <= q /\ q <= r /\ (m = 0 <=> p = q) /\ (n = 0 <=> q = r)
  BY DEF Stretch
<1>4. CASE m = 0
  <2>1. S = <<>>
    BY <1>4, EmptySeq
  <2>2. S \o T = T
    BY <2>1, ConcatEmptySeq
  <2> QED
    BY <1>3, <1>4, <2>2
<1>5. CASE n = 0
  <2>1. T = <<>>
    BY <1>5, EmptySeq
  <2>2. S \o T = S
    BY <2>1, ConcatEmptySeq
  <2> QED
    BY <1>3, <1>5, <2>2
<1>6. CASE m # 0 /\ n # 0
  <2>1. /\ S[1] = <<p, 1>> /\ S[m] = <<q - 1, Lens[q - 1]>>
        /\ T[1] = <<q, 1>> /\ T[n] = <<r - 1, Lens[r - 1]>>
        /\ \A a \in 1..m : S[a][1] \in p..(q - 1) /\ S[a][2] \in 1..Lens[S[a][1]]
        /\ \A a \in 1..n : T[a][1] \in q..(r - 1) /\ T[a][2] \in 1..Lens[T[a][1]]
    BY <1>1, <1>6 DEF Stretch
  <2>2. /\ \A a \in 1..m : S[a][1] \in Nat /\ S[a][2] \in Nat /\ Lens[S[a][1]] \in Nat
        /\ \A a \in 1..n : T[a][1] \in Nat /\ T[a][2] \in Nat /\ Lens[T[a][1]] \in Nat
    <3>1. \A a \in 1..m : S[a] \in Units /\ S[a][1] \in 1..Len(Args)
      BY <1>2, <1>3, <2>1
    <3>2. \A a \in 1..n : T[a] \in Units /\ T[a][1] \in 1..Len(Args)
      BY <1>2, <1>3, <2>1
    <3> QED
      BY <3>1, <3>2, UnitType, LensType
  <2> HIDE DEF U, m, n
  <2>3. \A a \in 1..(m + n) : a <= m \/ (a - m \in 1..n /\ U[a] = T[a - m])
    <3> SUFFICES ASSUME NEW a \in 1..(m + n), ~(a <= m) PROVE a - m \in 1..n /\ U[a] = T[a - m]
      OBVIOUS
    <3>1. a - m \in 1..n /\ m + (a - m) = a
      BY <1>1
    <3> QED
      BY <1>1, <3>1
  <2>10. \A a \in 1..(m + n) : a <= m => a \in 1..m /\ U[a] = S[a]
    BY <1>1
  <2>11. /\ \A x \in p..(q - 1) : x \in p..(r - 1)
         /\ \A x \in q..(r - 1) : x \in p..(r - 1)
    BY <1>3
  <2>12. \A a, b \in 1..(m + n) : a <= b /\ b <= m => a <= m
    BY <1>1
  <2>13. \A a, b \in 1..(m + n) : a <= b /\ a > m =>
           /\ ~(a <= m) /\ ~(b <= m) /\ a - m <= b - m /\ (b - m) - (a - m) = b - a
    BY <1>1
  <2>4. \A a \in 1..Len(U) : U[a][1] \in p..(r - 1) /\ U[a][2] \in 1..Lens[U[a][1]]
    <3> SUFFICES ASSUME NEW a \in 1..(m + n)
                 PROVE  U[a][1] \in p..(r - 1) /\ U[a][2] \in 1..Lens[U[a][1]]
      BY <1>1
    <3>1. CASE a <= m
      <4>1. a \in 1..m /\ U[a] = S[a]
        BY <1>1, <3>1
      <4> QED
        BY <2>1, <2>11, <4>1, Zenon
    <3>2. CASE ~(a <= m)
      <4>1. a - m \in 1..n /\ U[a] = T[a - m]
        BY <2>3, <3>2
      <4> QED
        BY <2>1, <2>11, <4>1, Zenon
    <3> QED
      BY <3>1, <3>2
  <2>5. U[1] = <<p, 1>> /\ U[Len(U)] = <<r - 1, Lens[r - 1]>>
    <3>1. 1 \in 1..m /\ n \in 1..n
      BY <1>1, <1>6
    <3>2. U[1] = S[1] /\ U[m + n] = T[n] /\ Len(U) = m + n
      BY <1>1, <3>1
    <3> QED
      BY <2>1, <3>2
  <2>6. Consecutive(U)
    <3> SUFFICES ASSUME NEW a \in 1..(m + n), NEW b \in 1..(m + n), a <= b,
                        b - a <= Lens[U[a][1]] - U[a][2]
                 PROVE  U[b] = <<U[a][1], U[a][2] + (b - a)>>
      BY <1>1 DEF Consecutive
    <3>1. CASE b <= m
      <4>1. a \in 1..m /\ b \in 1..m /\ U[a] = S[a] /\ U[b] = S[b]
        BY <2>10, <2>12, <3>1, Zenon
      <4>2. Consecutive(S)
        BY DEF Stretch
      <4> QED
        BY <4>1, <4>2 DEF Consecutive, m
    <3>2. CASE a > m
      <4>1. /\ a - m \in 1..n /\ b - m \in 1..n /\ U[a] = T[a - m] /\ U[b] = T[b - m]
            /\ a - m <= b - m /\ (b - m) - (a - m) = b - a
        BY <2>3, <2>13, <3>2, Zenon
      <4>2. Consecutive(T)
        BY DEF Stretch
      <4>3. (b - m) - (a - m) <= Lens[T[a - m][1]] - T[a - m][2]
        BY <4>1
      <4>4. T[b - m] = <<T[a - m][1], T[a - m][2] + ((b - m) - (a - m))>>
        BY <4>1, <4>2, <4>3 DEF Consecutive, n
      <4> QED
        BY <4>1, <4>4
    <3>3. CASE a <= m /\ b > m
      <4>1. a \in 1..m /\ m \in 1..m /\ U[a] = S[a] /\ m - a < b - a
        BY <1>1, <1>6, <3>3
      <4>2. m - a <= Lens[S[a][1]] - S[a][2]
        BY <1>1, <2>2, <4>1
      <4>3. Consecutive(S) /\ a <= m
        BY <3>3 DEF Stretch
      <4>4. S[m] = <<S[a][1], S[a][2] + (m - a)>>
        BY <4>1, <4>2, <4>3 DEF Consecutive, m
      <4>5. S[a][1] = q - 1 /\ S[a][2] + (m - a) = Lens[S[a][1]]
        BY <2>1, <4>4
      <4>6. b - a <= Lens[S[a][1]] - S[a][2]
        BY <4>1
      <4>7. S[a][2] \in Nat /\ Lens[S[a][1]] \in Nat /\ m \in Nat /\ a \in Nat /\ b \in Nat
        BY <1>1, <2>2, <4>1
      <4>8. FALSE
        <5> DEFINE x == S[a][2]  y == Lens[S[a][1]]
        <5>1. /\ x \in Nat /\ y \in Nat /\ m \in Nat /\ a \in Nat /\ b \in Nat
              /\ m - a < b - a /\ x + (m - a) = y /\ b - a <= y - x
          BY <4>1, <4>5, <4>6, <4>7, Zenon
        <5> HIDE DEF x, y
        <5> QED
          BY <5>1
      <4> QED
        BY <4>8
    <3> QED
      BY <1>1, <3>1, <3>2, <3>3
  <2>7. NextPacket(U)
    <3> SUFFICES ASSUME NEW a \in 1..(Len(U) - 1), U[a][2] = Lens[U[a][1]]
                 PROVE  U[a + 1] = <<U[a][1] + 1, 1>>
      BY Zenon DEF NextPacket
    <3>0. a \in 1..(m + n - 1)
      BY ONLY <1>1, a \in 1..(Len(U) - 1)
    <3>1. CASE a < m
      <4>1. a \in 1..(m - 1) /\ U[a] = S[a] /\ U[a + 1] = S[a + 1]
        BY <1>1, <3>0, <3>1
      <4>2. NextPacket(S)
        BY DEF Stretch
      <4> QED
        BY <4>1, <4>2 DEF NextPacket, m
    <3>2. CASE a = m
      <4>1. U[a] = S[m] /\ U[a + 1] = T[1]
        BY <1>1, <1>6, <3>0, <3>2
      <4>2. U[a][1] = q - 1 /\ (q - 1) + 1 = q
        BY <2>1, <4>1
      <4> QED
        BY <2>1, <4>1, <4>2
    <3>3. CASE a > m
      <4>1. /\ a - m \in 1..(n - 1) /\ U[a] = T[a - m] /\ U[a + 1] = T[(a - m) + 1]
        <5>1. /\ a \in 1..(m + n) /\ a + 1 \in 1..(m + n) /\ (a + 1) - m = (a - m) + 1
              /\ ~(a <= m) /\ ~(a + 1 <= m) /\ a - m \in 1..(n - 1)
          BY ONLY <1>1, <3>0, <3>3
        <5>2. U[a] = T[a - m]
          BY ONLY <2>3, <5>1
        <5>3. U[a + 1] = T[(a + 1) - m]
          BY ONLY <2>3, <5>1
        <5> QED
          BY ONLY <5>1, <5>2, <5>3
      <4>2. NextPacket(T)
        BY DEF Stretch
      <4> QED
        BY <4>1, <4>2 DEF NextPacket, n
    <3> QED
      BY <1>1, <3>0, <3>1, <3>2, <3>3
  <2>8. Ascending(U)
    <3> SUFFICES ASSUME NEW a \in 1..(m + n), NEW b \in 1..(m + n), a <= b
                 PROVE  U[a][1] <= U[b][1] /\ (U[a][1] = U[b][1] => U[b][2] - U[a][2] = b - a)
      BY <1>1 DEF Ascending
    <3>1. CASE b <= m
      <4>1. a \in 1..m /\ b \in 1..m /\ U[a] = S[a] /\ U[b] = S[b]
        BY <2>10, <2>12, <3>1, Zenon
      <4>2. Ascending(S)
        BY DEF Stretch
      <4> QED
        BY <4>1, <4>2 DEF Ascending, m
    <3>2. CASE a > m
      <4>1. /\ a - m \in 1..n /\ b - m \in 1..n /\ U[a] = T[a - m] /\ U[b] = T[b - m]
            /\ a - m <= b - m /\ (b - m) - (a - m) = b - a
        BY <2>3, <2>13, <3>2, Zenon
      <4>2. Ascending(T)
        BY DEF Stretch
      <4>3. T[a - m][1] <= T[b - m][1]
            /\ (T[a - m][1] = T[b - m][1] => T[b - m][2] - T[a - m][2] = (b - m) - (a - m))
        BY <4>1, <4>2 DEF Ascending, n
      <4> QED
        BY <4>1, <4>3
    <3>3. CASE a <= m /\ b > m
      <4>0. ~(b <= m)
        BY <1>1, <3>3
      <4>1. a \in 1..m /\ U[a] = S[a] /\ b - m \in 1..n /\ U[b] = T[b - m]
        <5>1. a \in 1..m /\ U[a] = S[a]
          BY ONLY <2>10, <3>3, a \in 1..(m + n)
        <5>2. b - m \in 1..n /\ U[b] = T[b - m]
          BY ONLY <2>3, <4>0, b \in 1..(m + n)
        <5> QED
          BY ONLY <5>1, <5>2
      <4>2. S[a][1] \in p..(q - 1) /\ T[b - m][1] \in q..(r - 1)
        BY <2>1, <4>1, Zenon
      <4>3. \A x \in p..(q - 1), y \in q..(r - 1) : x <= y /\ x # y
        OBVIOUS
      <4>4. S[a][1] <= T[b - m][1] /\ S[a][1] # T[b - m][1]
        BY ONLY <4>2, <4>3, Zenon
      <4> QED
        BY ONLY <4>1, <4>4
    <3> QED
      BY <1>1, <3>1, <3>2, <3>3
  <2>9. p <= r /\ Len(U) # 0 /\ p # r
    BY <1>1, <1>3, <1>6
  <2> QED
    BY <2>4, <2>5, <2>6, <2>7, <2>8, <2>9 DEF Stretch, U
<1> QED
  BY <1>4, <1>5, <1>6

\* What is in front of a stretch, with the length of its first packet, is that
\* packet, and what follows is a stretch of the others.
LEMMA StretchDrop ==
  ASSUME NEW X \in Seq(Units), NEW R \in Seq(Units), NEW p \in 1..Len(Args), NEW q \in Nat,
         q <= Len(Args) + 1, Len(X) = Lens[p], Stretch(X \o R, p, q)
  PROVE  X = Packet(p) /\ Stretch(R, p + 1, q)
<1> DEFINE U == X \o R  m == Len(X)  n == Len(R)
<1>1. /\ m \in Nat /\ n \in Nat /\ U \in Seq(Units) /\ Len(U) = m + n
      /\ \A i \in 1..m : U[i] = X[i]
      /\ \A i \in 1..n : U[m + i] = R[i]
  <2>1. X \in Seq(Units) /\ R \in Seq(Units)
    OBVIOUS
  <2> QED
    BY ONLY <2>1, Joined
<1>2. Len(Args) \in Nat /\ m # 0 /\ m = Lens[p] /\ p \in Nat
  BY StreamAssumption, LensType
<1>3. p <= q /\ p # q /\ U[1] = <<p, 1>> /\ U[Len(U)] = <<q - 1, Lens[q - 1]>>
  <2>1. Len(U) > 0 /\ Len(U) # 0
    BY <1>1, <1>2
  <2> HIDE DEF U
  <2>2. Stretch(U, p, q)
    BY DEF U
  <2> QED
    BY <2>1, <2>2 DEF Stretch
<1>4. /\ \A a \in 1..Len(U) : U[a][1] \in p..(q - 1) /\ U[a][2] \in 1..Lens[U[a][1]]
      /\ Consecutive(U) /\ NextPacket(U) /\ Ascending(U)
  BY DEF Stretch
<1> HIDE DEF U, m, n
<1>5. \A a \in 1..(m + n) : U[a][1] \in Nat /\ U[a][2] \in Nat /\ Lens[U[a][1]] \in Nat
  <2>1. \A x \in p..(q - 1) : x \in 1..Len(Args)
    BY <1>2
  <2>2. \A a \in 1..(m + n) : a \in 1..Len(U) /\ U[a] \in Units
    BY <1>1
  <2>3. \A a \in 1..(m + n) : U[a] \in Units /\ U[a][1] \in 1..Len(Args)
    BY <1>4, <2>1, <2>2, Zenon
  <2> QED
    BY <2>3, UnitType, LensType
<1>6. ASSUME NEW i \in 1..m PROVE U[i] = <<p, i>>
  <2>1. 1 \in 1..Len(U) /\ i \in 1..Len(U) /\ 1 <= i /\ i - 1 <= m - 1 /\ 1 + (i - 1) = i
    BY <1>1
  <2>2. U[1][1] = p /\ U[1][2] = 1 /\ Lens[U[1][1]] = m
    BY <1>2, <1>3
  <2>3. U[i] = <<U[1][1], U[1][2] + (i - 1)>>
    BY <1>4, <2>1, <2>2 DEF Consecutive
  <2> QED
    BY <2>1, <2>2, <2>3
<1>7. X = Packet(p)
  <2>1. Packet(p) \in Seq(Units) /\ Len(Packet(p)) = m /\ \A i \in 1..m : Packet(p)[i] = <<p, i>>
    BY <1>2, PacketType
  <2>2. Len(X) = Len(Packet(p)) /\ \A i \in 1..Len(X) : X[i] = Packet(p)[i]
    BY <1>1, <1>6, <2>1 DEF m
  <2> QED
    BY <2>1, <2>2, SeqEqual, Zenon
<1>8. n > 0 => R[1] = <<p + 1, 1>>
  <2> SUFFICES ASSUME n > 0 PROVE R[1] = <<p + 1, 1>>
    OBVIOUS
  <2>1. m \in 1..m /\ m \in 1..(Len(U) - 1) /\ 1 \in 1..n
    BY <1>1, <1>2
  <2>2. U[m] = <<p, m>>
    BY <1>6, <2>1
  <2>3. U[m][1] = p /\ U[m][2] = Lens[U[m][1]]
    BY <1>2, <2>2
  <2>4. U[m + 1] = <<U[m][1] + 1, 1>>
    BY <1>4, <2>1, <2>3 DEF NextPacket
  <2> QED
    BY <1>1, <2>1, <2>3, <2>4
<1>9. ASSUME NEW a \in 1..n
      PROVE  R[a] = U[m + a] /\ R[a][1] \in (p + 1)..(q - 1) /\ R[a][2] \in 1..Lens[R[a][1]]
  <2>0. R[a] = U[m + a] /\ Len(U) = m + n
    BY <1>1
  <2>1. R[a] = U[m + a] /\ m + a \in 1..Len(U) /\ m + a \in 1..(m + n) /\ 1 \in 1..Len(U) /\ 1 <= m + a
    BY <1>1, <2>0
  <2>2. U[m + a][1] \in p..(q - 1) /\ U[m + a][2] \in 1..Lens[U[m + a][1]]
    BY <1>4, <2>1
  <2>3. U[m + a][1] # p
    <3> SUFFICES ASSUME U[m + a][1] = p PROVE FALSE
      OBVIOUS
    <3>1. U[1][1] = p /\ U[1][2] = 1
      BY <1>3
    <3>2. U[m + a][2] - U[1][2] = (m + a) - 1
      BY <1>4, <2>1, <3>1 DEF Ascending
    <3>3. U[m + a][2] \in 1..m
      BY <1>2, <2>2
    <3> QED
      BY <1>1, <3>1, <3>2, <3>3
  <2>4. U[m + a][1] \in (p + 1)..(q - 1)
    BY <1>2, <2>2, <2>3
  <2> QED
    BY <2>1, <2>2, <2>4
<1>10. p + 1 <= q /\ (n = 0 <=> p + 1 = q)
  <2>1. p + 1 <= q
    BY <1>2, <1>3
  <2>2. CASE n = 0
    <3>0. m \in 1..m /\ Len(U) = m
      BY <1>1, <1>2, <2>2
    <3>1. U[Len(U)] = <<p, m>>
      BY <1>6, <3>0
    <3>2. q - 1 = p
      BY <1>3, <3>1
    <3> QED
      BY <1>2, <2>1, <2>2, <3>2
  <2>3. CASE n # 0
    <3>1. 1 \in 1..n
      BY <1>1, <2>3
    <3>2. R[1][1] \in (p + 1)..(q - 1)
      BY <1>9, <3>1
    <3> QED
      BY <1>2, <2>1, <2>3, <3>2
  <2> QED
    BY <2>2, <2>3
<1>11. n > 0 => R[n] = <<q - 1, Lens[q - 1]>>
  BY <1>1, <1>3
<1>12. \A a, b \in 1..n : /\ m + a \in 1..Len(U) /\ m + b \in 1..Len(U)
                          /\ R[a] = U[m + a] /\ R[b] = U[m + b]
                          /\ (m + b) - (m + a) = b - a /\ (a <= b => m + a <= m + b)
  BY <1>1
<1>13. Consecutive(R)
  <2> SUFFICES ASSUME NEW a \in 1..n, NEW b \in 1..n, a <= b, b - a <= Lens[R[a][1]] - R[a][2]
               PROVE  R[b] = <<R[a][1], R[a][2] + (b - a)>>
    BY DEF Consecutive, n
  <2>1. /\ m + a \in 1..Len(U) /\ m + b \in 1..Len(U) /\ R[a] = U[m + a] /\ R[b] = U[m + b]
        /\ (m + b) - (m + a) = b - a /\ m + a <= m + b
    BY <1>12, Zenon
  <2>2. (m + b) - (m + a) <= Lens[U[m + a][1]] - U[m + a][2]
    BY <2>1, Zenon
  <2>3. U[m + b] = <<U[m + a][1], U[m + a][2] + ((m + b) - (m + a))>>
    BY <1>4, <2>1, <2>2, Zenon DEF Consecutive
  <2> QED
    BY <2>1, <2>3, Zenon
<1>14. NextPacket(R)
  <2> SUFFICES ASSUME NEW a \in 1..(n - 1), R[a][2] = Lens[R[a][1]]
               PROVE  R[a + 1] = <<R[a][1] + 1, 1>>
    BY DEF NextPacket, n
  <2>1. /\ a \in 1..n /\ a + 1 \in 1..n /\ m + a \in 1..(Len(U) - 1) /\ m + (a + 1) = (m + a) + 1
    BY <1>1
  <2>2. R[a] = U[m + a] /\ R[a + 1] = U[m + (a + 1)]
    BY <1>1, <2>1
  <2>3. U[(m + a) + 1] = <<U[m + a][1] + 1, 1>>
    BY <1>4, <2>1, <2>2 DEF NextPacket
  <2> QED
    BY <2>1, <2>2, <2>3, Zenon
<1>15. Ascending(R)
  <2> SUFFICES ASSUME NEW a \in 1..n, NEW b \in 1..n, a <= b
               PROVE  R[a][1] <= R[b][1] /\ (R[a][1] = R[b][1] => R[b][2] - R[a][2] = b - a)
    BY DEF Ascending, n
  <2>1. /\ m + a \in 1..Len(U) /\ m + b \in 1..Len(U) /\ R[a] = U[m + a] /\ R[b] = U[m + b]
        /\ (m + b) - (m + a) = b - a /\ m + a <= m + b
    BY <1>12, Zenon
  <2>2. /\ U[m + a][1] <= U[m + b][1]
        /\ U[m + a][1] = U[m + b][1] => U[m + b][2] - U[m + a][2] = (m + b) - (m + a)
    BY <1>4, <2>1, Zenon DEF Ascending
  <2> QED
    BY <2>1, <2>2, Zenon
<1> QED
  BY <1>7, <1>8, <1>9, <1>10, <1>11, <1>13, <1>14, <1>15 DEF Stretch, n

-----------------------------------------------------------------------------
(* The order of the packets *)

Inv == TypeInv /\ Chained /\ InOrder

\* The packet that the data up to the end of the first block go up to.
Upto == IF blocks = <<>> THEN sent + 1 ELSE LastOf(blocks[1]) + 1

LEMMA StretchEmpty ==
  ASSUME NEW p \in Nat
  PROVE  Stretch(<<>>, p, p)
<1>1. Len(<<>>) = 0
  OBVIOUS
<1> QED
  BY <1>1 DEF Stretch, Consecutive, NextPacket, Ascending

\* The data in the buffer, as a sequence.
DataOK ==
  /\ Data \in Seq(Units) /\ Len(Data) = wptr - rptr
  /\ \A i \in 1..(wptr - rptr) : Data[i] = buf[rptr + i]
  /\ wire \in Seq(Units)

LEMMA PendingType == Typed => DataOK
<1> SUFFICES ASSUME Typed PROVE DataOK
  OBVIOUS
<1>1. buf \in Seq(Units) /\ Len(buf) = BufSize
  BY BufSeq
<1>2. rptr \in Nat /\ wptr \in Nat /\ rptr <= wptr /\ wptr <= BufSize
  BY DEF Typed
<1>3. wire \in Seq(Units)
  BY DEF Typed
<1>4. /\ Data \in Seq(Units) /\ Len(Data) = wptr - rptr
      /\ \A i \in 1..(wptr - rptr) : Data[i] = buf[rptr + i]
  BY <1>1, <1>2, Part DEF Data
<1> QED
  BY <1>3, <1>4 DEF DataOK

LEMMA PendingTypeNext == Typed' => DataOK'
  BY PendingType, PTL

LEMMA RestType ==
  ASSUME TypeInv
  PROVE  Rest \in Seq(Units)
<1>1. CASE blocks = <<>>
  BY <1>1 DEF Rest
<1>2. CASE blocks # <<>>
  <2>1. blocks \in Seq(Blocks) /\ Len(blocks) \in Nat /\ Len(blocks) # 0
    BY <1>2, EmptySeq DEF TypeInv, Typed
  <2>2. 1 \in 1..Len(blocks) /\ blocks[1] \in Blocks
    BY <2>1
  <2>3. blocks[1].rptr \in Nat /\ blocks[1].data \in Seq(Units)
    BY <2>2 DEF Blocks
  <2>4. Len(blocks[1].data) \in Nat /\ blocks[1].rptr <= Len(blocks[1].data)
    BY <2>2, <2>3 DEF TypeInv, BlocksOK
  <2> QED
    BY <1>2, <2>3, <2>4, Part DEF Rest
<1> QED
  BY <1>1, <1>2

LEMMA InitOrder == Init => Inv
<1> SUFFICES ASSUME Init PROVE Inv
  OBVIOUS
<1>1. TypeInv
  BY InitType
<1>2. blocks = <<>> /\ wire = <<>> /\ handled = <<>> /\ sent = 0 /\ rptr = 0 /\ wptr = 0
  BY DEF Init
<1>3. Chained
  BY <1>2 DEF Chained
<1>4. Data = <<>>
  <2>1. Data \in Seq(Units) /\ Len(Data) = 0
    BY <1>1, <1>2, PendingType DEF TypeInv, DataOK
  <2> QED
    BY <2>1, EmptySeq
<1>5. Pending = <<>>
  BY <1>2, <1>4 DEF Pending, Rest
<1>6. Stretch(<<>>, 1, 1)
  BY StretchEmpty
<1>7. Len(handled) + 1 = 1 /\ sent + 1 = 1
  BY <1>2
<1>8. InOrder
  BY <1>2, <1>5, <1>6, <1>7 DEF InOrder
<1> QED
  BY <1>1, <1>3, <1>8 DEF Inv

\* A step that moves units on their way, and no more.
LEMMA Moved ==
  ASSUME InOrder, Pending' = Pending, UNCHANGED handled, Upto' = Upto
  PROVE  InOrder'
<1>1. Stretch(Pending, Len(handled) + 1, Upto)
  BY DEF InOrder, Upto
<1>2. Stretch(Pending', Len(handled') + 1, Upto')
  BY <1>1
<1> QED
  BY <1>2 DEF InOrder, Upto

LEMMA SameBlocks ==
  ASSUME Chained, UNCHANGED <<blocks, sent>>
  PROVE  Chained' /\ Upto' = Upto /\ Rest' = Rest
<1>1. blocks' = blocks /\ sent' = sent
  OBVIOUS
<1>2. Chained'
  BY <1>1 DEF Chained, FirstOf, LastOf
<1>3. Upto' = Upto
  BY <1>1 DEF Upto, LastOf
<1>4. Rest' = Rest
  BY <1>1 DEF Rest
<1> QED
  BY <1>2, <1>3, <1>4

LEMMA RecvOrder ==
  ASSUME Proto = "srv", Inv, TypeInv', Recv
  PROVE  Inv'
<1>0. TypeInv /\ Typed /\ Typed' /\ Chained /\ InOrder
  BY DEF Inv, TypeInv
<1>1. UNCHANGED <<sent, blocks, rptr, handled>>
  BY DEF Recv, sendVars
<1>2. PICK n \in 1..Bufremain : n <= Len(wire) /\ Fill(wptr, n)
  BY DEF Recv
<1>3. /\ buf' = [i \in 1..BufSize |-> IF i \in (wptr + 1)..(wptr + n) THEN wire[i - wptr] ELSE buf[i]]
      /\ wptr' = wptr + n /\ wire' = SubSeq(wire, n + 1, Len(wire))
  BY <1>2 DEF Fill
<1>4. /\ rptr \in Nat /\ wptr \in Nat /\ rptr <= wptr /\ wptr <= BufSize /\ BufSize \in Nat
      /\ wire \in Seq(Units) /\ Len(wire) \in Nat
  <2>1. BufSize \in Nat
    BY StreamAssumption
  <2> QED
    BY <1>0, <2>1 DEF Typed
<1>5. n \in Nat /\ wptr + n <= BufSize /\ n <= Len(wire)
  BY <1>2, <1>4 DEF Bufremain
<1> DEFINE X == SubSeq(wire, 1, n)
<1>6. X \in Seq(Units) /\ Len(X) = n /\ \A i \in 1..n : X[i] = wire[i]
  <2>1. 0 \in Nat /\ 0 <= n /\ 0 + 1 = 1 /\ n - 0 = n
    BY <1>5
  <2>2. \A i \in 1..n : X[i] = wire[i]
    BY <1>4, <1>5
  <2> QED
    BY <1>4, <1>5, <2>1, <2>2, Part
<1>7. X \o wire' = wire
  <2>1. /\ 1 \in 1..(Len(wire) + 1) /\ n \in (1 - 1)..Len(wire) /\ Len(wire) \in n..Len(wire)
    BY <1>4, <1>5
  <2>2. SubSeq(wire, 1, n) \o SubSeq(wire, n + 1, Len(wire)) = SubSeq(wire, 1, Len(wire))
    BY <1>4, <2>1, ConcatAdjacentSubSeq
  <2>3. SubSeq(wire, 1, Len(wire)) = wire
    BY <1>4, SubSeqFull
  <2> QED
    BY <1>3, <2>2, <2>3
<1> HIDE DEF X
<1>8. Data' = Data \o X
  <2>1. /\ Data \in Seq(Units) /\ Len(Data) = wptr - rptr
        /\ \A i \in 1..(wptr - rptr) : Data[i] = buf[rptr + i]
    BY <1>0, PendingType DEF DataOK
  <2>2. /\ Data' \in Seq(Units) /\ Len(Data') = (wptr - rptr) + n
        /\ \A i \in 1..((wptr - rptr) + n) : Data'[i] = buf'[rptr + i]
    <3>1. wptr' - rptr' = (wptr - rptr) + n /\ rptr' = rptr
      BY <1>1, <1>3, <1>4, <1>5
    <3> QED
      BY <1>0, <3>1, PendingTypeNext DEF DataOK
  <2>3. /\ Data \o X \in Seq(Units) /\ Len(Data \o X) = (wptr - rptr) + n
        /\ \A i \in 1..(wptr - rptr) : (Data \o X)[i] = Data[i]
        /\ \A i \in 1..n : (Data \o X)[(wptr - rptr) + i] = X[i]
    <3>0. Data \in Seq(Units) /\ X \in Seq(Units)
      BY <1>6, <2>1
    <3>1. /\ Data \o X \in Seq(Units) /\ Len(Data \o X) = Len(Data) + Len(X)
          /\ \A i \in 1..Len(Data) : (Data \o X)[i] = Data[i]
          /\ \A i \in 1..Len(X) : (Data \o X)[Len(Data) + i] = X[i]
      BY ONLY <3>0, Joined
    <3> QED
      BY <1>6, <2>1, <3>1
  <2>4. ASSUME NEW i \in 1..((wptr - rptr) + n) PROVE Data'[i] = (Data \o X)[i]
    <3>1. CASE i <= wptr - rptr
      <4>1. i \in 1..(wptr - rptr) /\ rptr + i \in 1..BufSize /\ rptr + i \notin (wptr + 1)..(wptr + n)
        BY <1>4, <1>5, <3>1
      <4>2. buf'[rptr + i] = buf[rptr + i]
        BY <1>3, <4>1
      <4> QED
        BY <2>1, <2>2, <2>3, <4>1, <4>2
    <3>2. CASE ~(i <= wptr - rptr)
      <4> DEFINE j == i - (wptr - rptr)
      <4>1. /\ j \in 1..n /\ (wptr - rptr) + j = i /\ rptr + i \in 1..BufSize
            /\ rptr + i \in (wptr + 1)..(wptr + n) /\ (rptr + i) - wptr = j
        BY <1>4, <1>5, <3>2
      <4> HIDE DEF j
      <4>2. buf'[rptr + i] = wire[j]
        BY <1>3, <4>1
      <4>3. (Data \o X)[i] = X[j] /\ X[j] = wire[j]
        BY <1>6, <2>3, <4>1
      <4> QED
        BY <2>2, <4>2, <4>3
    <3> QED
      BY <3>1, <3>2
  <2> QED
    BY <2>2, <2>3, <2>4, SeqEqual
<1>9. Pending' = Pending
  <2>1. Data \in Seq(Units) /\ wire' \in Seq(Units)
    BY <1>0, PendingType, PendingTypeNext DEF DataOK
  <2>2. (Data \o X) \o wire' = Data \o (X \o wire')
    BY <1>6, <2>1, ConcatAssociative
  <2>3. Rest' = Rest
    BY <1>0, <1>1, SameBlocks
  <2> QED
    BY <1>7, <1>8, <2>2, <2>3 DEF Pending
<1>10. Chained' /\ Upto' = Upto
  BY <1>0, <1>1, SameBlocks
<1>11. InOrder'
  BY <1>0, <1>1, <1>9, <1>10, Moved
<1> QED
  BY <1>10, <1>11 DEF Inv

LEMMA LoopEndOrder ==
  ASSUME Inv, TypeInv', LoopEnd
  PROVE  Inv'
<1>0. TypeInv /\ Typed /\ Typed' /\ Chained /\ InOrder
  BY DEF Inv, TypeInv
<1>1. UNCHANGED <<sent, blocks, wire, handled>>
  BY DEF LoopEnd, sendVars
<1>2. /\ buf' = [i \in 1..BufSize |-> IF i <= Datalen THEN buf[rptr + i] ELSE buf[i]]
      /\ rptr' = 0 /\ wptr' = Datalen
  BY DEF LoopEnd, buf2line
<1>3. /\ rptr \in Nat /\ wptr \in Nat /\ rptr <= wptr /\ wptr <= BufSize /\ BufSize \in Nat
      /\ Datalen = wptr - rptr /\ Datalen \in Nat /\ Datalen <= BufSize
  <2>1. BufSize \in Nat
    BY StreamAssumption
  <2>2. rptr \in Nat /\ wptr \in Nat /\ rptr <= wptr /\ wptr <= BufSize
    BY <1>0 DEF Typed
  <2> QED
    BY <2>1, <2>2 DEF Datalen
<1>4. Data' = Data
  <2>1. /\ Data \in Seq(Units) /\ Len(Data) = Datalen
        /\ \A i \in 1..Datalen : Data[i] = buf[rptr + i]
    BY <1>0, <1>3, PendingType DEF DataOK
  <2>2. /\ Data' \in Seq(Units) /\ Len(Data') = Datalen
        /\ \A i \in 1..Datalen : Data'[i] = buf'[i]
    <3>1. wptr' - rptr' = Datalen /\ \A i \in 1..Datalen : rptr' + i = i
      BY <1>2, <1>3
    <3> QED
      BY <1>0, <3>1, PendingTypeNext DEF DataOK
  <2>3. \A i \in 1..Datalen : i \in 1..BufSize /\ buf'[i] = buf[rptr + i]
    BY <1>2, <1>3
  <2> QED
    BY <2>1, <2>2, <2>3, SeqEqual
<1>5. Pending' = Pending
  <2>1. Rest' = Rest
    BY <1>0, <1>1, SameBlocks
  <2> QED
    BY <1>1, <1>4, <2>1 DEF Pending
<1>6. Chained' /\ Upto' = Upto
  BY <1>0, <1>1, SameBlocks
<1>7. InOrder'
  BY <1>0, <1>1, <1>5, <1>6, Moved
<1> QED
  BY <1>6, <1>7 DEF Inv

LEMMA PendingSeq ==
  ASSUME TypeInv
  PROVE  Data \in Seq(Units) /\ wire \in Seq(Units) /\ Rest \in Seq(Units) /\ Pending \in Seq(Units)
<1>1. Data \in Seq(Units) /\ wire \in Seq(Units) /\ Rest \in Seq(Units)
  BY PendingType, RestType DEF TypeInv, DataOK
<1>2. Data \o wire \in Seq(Units)
  BY ONLY <1>1, Joined
<1>3. (Data \o wire) \o Rest \in Seq(Units)
  BY ONLY <1>1, <1>2, Joined
<1> QED
  BY <1>1, <1>3 DEF Pending

\* A block, with the packets it holds.
LEMMA BlockHolds ==
  ASSUME TypeInv, NEW j \in 1..Len(blocks)
  PROVE  /\ blocks[j] \in Blocks /\ blocks[j].data \in Seq(Units)
         /\ blocks[j].rptr \in Nat /\ Len(blocks[j].data) \in Nat
         /\ blocks[j].rptr < Len(blocks[j].data) /\ Len(blocks[j].data) > 0
<1>1. blocks \in Seq(Blocks)
  BY DEF TypeInv, Typed
<1>2. blocks[j] \in Blocks
  BY <1>1
<1>3. blocks[j].data \in Seq(Units) /\ blocks[j].rptr \in Nat
  BY <1>2 DEF Blocks
<1>4. Len(blocks[j].data) \in Nat
  BY <1>3
<1>5. blocks[j].rptr < Len(blocks[j].data)
  BY DEF TypeInv, BlocksOK
<1> QED
  BY <1>2, <1>3, <1>4, <1>5

\* What is on its way ends with a packet that was sent.
LEMMA UptoSent ==
  ASSUME Inv
  PROVE  /\ Upto \in Nat /\ Upto <= sent + 1 /\ sent \in Nat /\ sent <= Len(Args) /\ Len(Args) \in Nat
         /\ Len(handled) \in Nat
         /\ Stretch(Pending, Len(handled) + 1, Upto)
<1>1. Len(Args) \in Nat
  BY StreamAssumption
<1>2. sent \in Nat /\ sent <= Len(Args) /\ Len(handled) \in Nat
  BY <1>1 DEF Inv, TypeInv, Typed
<1>3. Upto \in Nat /\ Upto <= sent + 1
  <2>1. CASE blocks = <<>>
    BY <1>2, <2>1 DEF Upto
  <2>2. CASE blocks # <<>>
    <3>1. 1 \in 1..Len(blocks)
      BY <2>2, EmptySeq DEF Inv, TypeInv, Typed
    <3>2. LastOf(blocks[1]) \in 1..sent
      BY <3>1 DEF Inv, Chained
    <3> QED
      BY <1>2, <2>2, <3>2 DEF Upto
  <2> QED
    BY <2>1, <2>2
<1>4. Stretch(Pending, Len(handled) + 1, Upto)
  BY DEF Inv, InOrder, Upto
<1> QED
  BY <1>1, <1>2, <1>3, <1>4

\* In front in the buffer is the header of the packet behind those that were handled.
LEMMA FrontUnit ==
  ASSUME Inv, rptr < wptr
  PROVE  /\ buf[rptr + 1] = <<Len(handled) + 1, 1>>
         /\ Len(handled) + 1 \in 1..Len(Args) /\ Len(handled) < sent
<1> DEFINE h == Len(handled)
<1>0. TypeInv /\ Typed
  BY DEF Inv, TypeInv
<1>1. rptr \in Nat /\ wptr \in Nat
  BY <1>0 DEF Typed
<1>2. /\ Upto \in Nat /\ Upto <= sent + 1 /\ sent \in Nat /\ sent <= Len(Args) /\ Len(Args) \in Nat
      /\ h \in Nat /\ Stretch(Pending, h + 1, Upto)
  BY UptoSent
<1>3. Len(Pending) > 0 /\ Pending[1] = buf[rptr + 1]
  <2>1. Data \in Seq(Units) /\ wire \in Seq(Units) /\ Rest \in Seq(Units)
    BY <1>0, PendingSeq
  <2>2. Len(Data) = wptr - rptr /\ \A i \in 1..(wptr - rptr) : Data[i] = buf[rptr + i]
    BY <1>0, PendingType DEF DataOK
  <2>3. 1 \in 1..Len(Data) /\ Data[1] = buf[rptr + 1] /\ Len(Data) > 0
    BY <1>1, <2>2
  <2>4. /\ Data \o wire \in Seq(Units) /\ Len(Data \o wire) = Len(Data) + Len(wire)
        /\ Len(wire) \in Nat /\ Len(Data) \in Nat
        /\ \A i \in 1..Len(Data) : (Data \o wire)[i] = Data[i]
    BY ONLY <2>1, Joined
  <2>5. (Data \o wire)[1] = Data[1] /\ Len(Data \o wire) > 0 /\ 1 \in 1..Len(Data \o wire)
    BY <2>3, <2>4
  <2>6. /\ Len((Data \o wire) \o Rest) = Len(Data \o wire) + Len(Rest)
        /\ Len(Rest) \in Nat /\ Len(Data \o wire) \in Nat
        /\ \A i \in 1..Len(Data \o wire) : ((Data \o wire) \o Rest)[i] = (Data \o wire)[i]
    BY ONLY <2>1, <2>4, Joined
  <2> DEFINE Y == Data \o wire
  <2>7. Len(Pending) = Len(Y) + Len(Rest) /\ Pending[1] = Y[1]
    BY <2>5, <2>6, Zenon DEF Pending
  <2> HIDE DEF Y
  <2>8. Len(Y) > 0 /\ Len(Y) \in Nat /\ Len(Rest) \in Nat /\ Y[1] = buf[rptr + 1]
    BY <2>3, <2>5, <2>6 DEF Y
  <2> QED
    BY <2>7, <2>8
<1>4. Pending[1] = <<h + 1, 1>> /\ Pending[1][1] \in (h + 1)..(Upto - 1)
  <2>1. Pending[1] = <<h + 1, 1>>
    BY <1>2, <1>3 DEF Stretch
  <2>2. Pending \in Seq(Units) /\ Len(Pending) \in Nat
    BY <1>0, PendingSeq
  <2> QED
    BY <1>2, <1>3, <2>1, <2>2 DEF Stretch
<1> QED
  BY <1>2, <1>3, <1>4

\* The next packet in the buffer is the one behind those that were handled.
LEMMA HandleOrder ==
  ASSUME Proto = "srv", Inv, TypeInv', Handle
  PROVE  Inv'
<1>0. TypeInv /\ Typed /\ TypeInv' /\ Typed' /\ Chained /\ InOrder
  BY DEF Inv, TypeInv
<1>1. UNCHANGED <<sent, blocks, wire, buf, wptr>>
  BY DEF Handle, sendVars
<1>2. PICK plen \in Plens :
        Complete(plen) /\ handled' = Append(handled, Delivered(plen)) /\ rptr' = rptr + plen
  BY DEF Handle
<1>3. /\ plen \in Nat /\ rptr + plen <= wptr
      /\ Delivered(plen).units = SubSeq(buf, rptr + 1, rptr + plen)
      /\ Delivered(plen) \in [units : Seq(Units), args : Reads]
  BY <1>0, <1>2, CompleteFits
<1>4. /\ rptr < wptr /\ buf[rptr + 1] \in Units
      /\ buf[rptr + 1][2] = 1 => plen = Lens[buf[rptr + 1][1]]
  BY <1>0, <1>2, PlensType
<1>5. /\ rptr \in Nat /\ wptr \in Nat /\ wptr <= Len(buf) /\ buf \in Seq(Units) /\ Len(buf) \in Nat
  <2>1. buf \in Seq(Units) /\ Len(buf) = BufSize /\ BufSize \in Nat
    BY <1>0, BufSeq
  <2> QED
    BY <1>0, <2>1 DEF Typed
<1> DEFINE h == Len(handled)
           X == SubSeq(buf, rptr + 1, rptr + plen)
<1>6. /\ Upto \in Nat /\ Upto <= sent + 1 /\ sent \in Nat /\ sent <= Len(Args) /\ Len(Args) \in Nat
      /\ h \in Nat /\ Stretch(Pending, h + 1, Upto)
  BY UptoSent
<1>7. buf[rptr + 1] = <<h + 1, 1>> /\ h + 1 \in 1..Len(Args)
  BY <1>4, FrontUnit
<1>8. plen = Lens[h + 1]
  BY <1>4, <1>7
<1>9. X \in Seq(Units) /\ Len(X) = Lens[h + 1]
  <2>1. rptr + plen \in Nat /\ rptr <= rptr + plen /\ rptr + plen <= Len(buf) /\ (rptr + plen) - rptr = plen
    BY <1>3, <1>5
  <2> QED
    BY <1>5, <1>8, <2>1, Part
<1>10. Data = X \o Data'
  <2>1. /\ rptr + 1 \in 1..(Len(buf) + 1) /\ rptr + plen \in ((rptr + 1) - 1)..Len(buf)
        /\ wptr \in (rptr + plen)..Len(buf)
    BY <1>3, <1>5
  <2>2. X \o SubSeq(buf, (rptr + plen) + 1, wptr) = SubSeq(buf, rptr + 1, wptr)
    BY <1>5, <2>1, ConcatAdjacentSubSeq
  <2>3. Data' = SubSeq(buf, (rptr + plen) + 1, wptr)
    BY <1>1, <1>2 DEF Data
  <2> QED
    BY <2>2, <2>3 DEF Data
<1>11. Pending = X \o Pending' /\ Pending' \in Seq(Units) /\ Upto' = Upto /\ Chained'
  <2> HIDE DEF X
  <2>1. wire' = wire /\ Rest' = Rest /\ Upto' = Upto /\ Chained'
    BY <1>0, <1>1, SameBlocks
  <2>2. wire \in Seq(Units) /\ Rest \in Seq(Units)
    BY <1>0, PendingSeq
  <2>3. Data' \in Seq(Units)
    BY <1>0, PendingTypeNext DEF DataOK
  <2> DEFINE D == Data'
  <2>4. D \in Seq(Units) /\ X \in Seq(Units) /\ D \o wire \in Seq(Units)
    BY <1>9, <2>2, <2>3
  <2>5. Pending' = (D \o wire) \o Rest
    BY <2>1 DEF Pending
  <2>6. Pending = ((X \o D) \o wire) \o Rest
    BY <1>10 DEF Pending
  <2> HIDE DEF D
  <2>7. (X \o D) \o wire = X \o (D \o wire)
    BY ONLY <2>2, <2>4, ConcatAssociative
  <2>8. (X \o (D \o wire)) \o Rest = X \o ((D \o wire) \o Rest)
    <3> DEFINE E == D \o wire
    <3>1. E \in Seq(Units) /\ X \in Seq(Units) /\ Rest \in Seq(Units)
      BY <2>2, <2>4
    <3> HIDE DEF E
    <3>2. (X \o E) \o Rest = X \o (E \o Rest)
      BY ONLY <3>1, ConcatAssociative
    <3> QED
      BY <3>2 DEF E
  <2>9. (D \o wire) \o Rest \in Seq(Units)
    BY ONLY <2>2, <2>4, Joined
  <2> QED
    BY <2>1, <2>5, <2>6, <2>7, <2>8, <2>9
<1>12. X = Packet(h + 1) /\ Stretch(Pending', (h + 1) + 1, Upto)
  <2> HIDE DEF X, h
  <2> DEFINE P == Pending'
  <2>1. P \in Seq(Units) /\ Stretch(X \o P, h + 1, Upto) /\ Upto <= Len(Args) + 1
    BY <1>6, <1>11
  <2> HIDE DEF P
  <2>2. X = Packet(h + 1) /\ Stretch(P, (h + 1) + 1, Upto)
    BY <1>6, <1>7, <1>9, <2>1, StretchDrop
  <2> QED
    BY <2>2 DEF P
<1>13. /\ Len(handled') = h + 1
       /\ \A p \in 1..Len(handled') : handled'[p].units = Packet(p)
  <2>1. handled \in Seq([units : Seq(Units), args : Reads])
    BY <1>0 DEF Typed
  <2>2. /\ Len(handled') = h + 1 /\ handled'[h + 1] = Delivered(plen)
        /\ \A p \in 1..h : handled'[p] = handled[p]
    BY <1>2, <1>3, <2>1, AppendProperties
  <2>3. \A p \in 1..h : handled[p].units = Packet(p)
    BY <1>0 DEF InOrder
  <2>4. handled'[h + 1].units = Packet(h + 1)
    BY <1>3, <1>12, <2>2
  <2>5. \A p \in 1..(h + 1) : p \in 1..h \/ p = h + 1
    BY <1>6
  <2> HIDE DEF h
  <2> QED
    BY <2>2, <2>3, <2>4, <2>5
<1>14. InOrder'
  <2>1. Stretch(Pending', Len(handled') + 1, Upto')
    BY <1>11, <1>12, <1>13
  <2> QED
    BY <1>13, <2>1 DEF InOrder, Upto
<1> QED
  BY <1>0, <1>11, <1>14 DEF Inv

\* The first and the last packet of a stretch.
LEMMA StretchEnds ==
  ASSUME NEW T, NEW p, NEW q \in Nat, Len(T) > 0, Stretch(T, p, q + 1)
  PROVE  T[1][1] = p /\ T[Len(T)][1] = q
<1>1. T[1] = <<p, 1>> /\ T[Len(T)] = <<(q + 1) - 1, Lens[(q + 1) - 1]>>
  BY DEF Stretch
<1> QED
  BY <1>1

\* The packets of a block that has p as its first and q as its last one.
LEMMA ChainedBlock ==
  ASSUME NEW b \in Blocks, Len(b.data) > 0, NEW p, NEW q \in Nat, Stretch(b.data, p, q + 1)
  PROVE  FirstOf(b) = p /\ LastOf(b) = q /\ Stretch(b.data, FirstOf(b), LastOf(b) + 1)
<1>1. FirstOf(b) = p /\ LastOf(b) = q
  BY StretchEnds DEF FirstOf, LastOf
<1> QED
  BY <1>1

\* What Pending gets at its end.
LEMMA PendingGrows ==
  ASSUME Inv, UNCHANGED handled,
         NEW T \in Seq(Units), Pending' = Pending \o T, NEW r \in Nat,
         Stretch(T, Upto, r), Upto' = r, r <= Len(Args) + 1
  PROVE  InOrder'
<1>1. /\ Upto \in Nat /\ Len(handled) \in Nat /\ Pending \in Seq(Units)
      /\ Stretch(Pending, Len(handled) + 1, Upto)
  BY UptoSent, PendingSeq DEF Inv
<1>2. Len(handled) + 1 \in Nat /\ Len(handled) + 1 >= 1
  BY <1>1
<1>3. Stretch(Pending \o T, Len(handled) + 1, r)
  BY <1>1, <1>2, StretchJoin
<1>4. Stretch(Pending', Len(handled') + 1, Upto')
  BY <1>3
<1>5. \A p \in 1..Len(handled') : handled'[p].units = Packet(p)
  BY DEF Inv, InOrder
<1> QED
  BY <1>4, <1>5 DEF InOrder, Upto

\* The rest of the first block.
LEMMA RestOf ==
  ASSUME TypeInv, blocks # <<>>
  PROVE  /\ 1 \in 1..Len(blocks) /\ Len(blocks) \in Nat
         /\ Rest = SubSeq(blocks[1].data, blocks[1].rptr + 1, Len(blocks[1].data))
<1>1. blocks \in Seq(Blocks) /\ Len(blocks) \in Nat /\ Len(blocks) # 0
  BY EmptySeq DEF TypeInv, Typed
<1>2. 1 \in 1..Len(blocks)
  BY <1>1
<1>3. Rest = SubSeq(blocks[1].data, blocks[1].rptr + 1, Len(blocks[1].data))
  BY Zenon DEF Rest
<1> QED
  BY <1>1, <1>2, <1>3

\* A part of the first block goes to the wire.
LEMMA port_on_writeSome ==
  ASSUME Inv, TypeInv', blocks # <<>>, NEW n \in 1..(Len(blocks[1].data) - blocks[1].rptr),
         wire' = wire \o SubSeq(blocks[1].data, blocks[1].rptr + 1, blocks[1].rptr + n),
         UNCHANGED <<sent, recvVars>>,
         blocks[1].rptr + n < Len(blocks[1].data), Len(blocks') = Len(blocks),
         blocks'[1].data = blocks[1].data, blocks'[1].rptr = blocks[1].rptr + n,
         \A j \in 2..Len(blocks') : blocks'[j] = blocks[j]
  PROVE  Inv'
<1>0. TypeInv /\ Chained /\ InOrder
  BY DEF Inv
<1>1. 1 \in 1..Len(blocks) /\ Len(blocks) \in Nat
  BY <1>0, RestOf
<1> DEFINE d == blocks[1].data  m == blocks[1].rptr
           X == SubSeq(d, m + 1, m + n)  Y == SubSeq(d, (m + n) + 1, Len(d))
<1>2. d \in Seq(Units) /\ m \in Nat /\ Len(d) \in Nat /\ m + n < Len(d) /\ n \in Nat
  BY <1>0, <1>1, BlockHolds
<1>3. blocks' # <<>>
  BY <1>1
<1>4. Rest = X \o Y /\ X \in Seq(Units) /\ Y \in Seq(Units)
  <2>1. Rest = SubSeq(d, m + 1, Len(d))
    BY <1>0, RestOf
  <2> HIDE DEF d, m
  <2>2. m + 1 \in 1..(Len(d) + 1) /\ m + n \in ((m + 1) - 1)..Len(d) /\ Len(d) \in (m + n)..Len(d)
    BY <1>2
  <2>3. X \o Y = SubSeq(d, m + 1, Len(d))
    BY <1>2, <2>2, ConcatAdjacentSubSeq
  <2>4. X \in Seq(Units) /\ Y \in Seq(Units)
    BY <1>2, <2>2
  <2> QED
    BY <2>1, <2>3, <2>4
<1>5. Rest' = Y
  BY <1>3 DEF Rest
<1>6. Data' = Data /\ handled' = handled /\ wire' = wire \o X
  BY DEF Data, recvVars
<1> HIDE DEF X, Y
<1>7. Pending' = Pending
  <2>1. Data \in Seq(Units) /\ wire \in Seq(Units) /\ Data \o wire \in Seq(Units)
    BY <1>0, PendingSeq
  <2>0. /\ Data \in Seq(Units) /\ wire \in Seq(Units) /\ Data \o wire \in Seq(Units)
        /\ X \in Seq(Units) /\ Y \in Seq(Units)
    BY <1>4, <2>1
  <2>2. Pending' = (Data \o (wire \o X)) \o Y
    BY <1>5, <1>6 DEF Pending
  <2>3. (Data \o wire) \o X = Data \o (wire \o X)
    BY ONLY <2>0, ConcatAssociative
  <2> DEFINE W == Data \o wire
  <2>4. /\ W \in Seq(Units) /\ X \in Seq(Units) /\ Y \in Seq(Units)
        /\ Pending' = (W \o X) \o Y /\ Pending = W \o (X \o Y)
    BY <1>4, <2>0, <2>2, <2>3 DEF Pending
  <2> HIDE DEF W
  <2>5. (W \o X) \o Y = W \o (X \o Y)
    BY ONLY <2>4, ConcatAssociative
  <2> QED
    BY <2>4, <2>5
<1>8. \A j \in 1..Len(blocks) : FirstOf(blocks'[j]) = FirstOf(blocks[j]) /\ LastOf(blocks'[j]) = LastOf(blocks[j])
                                /\ blocks'[j].data = blocks[j].data
  <2>1. \A j \in 1..Len(blocks) : j = 1 \/ j \in 2..Len(blocks)
    BY <1>1
  <2>2. \A j \in 1..Len(blocks) : blocks'[j].data = blocks[j].data
    BY <2>1
  <2> QED
    BY <2>2 DEF FirstOf, LastOf
<1>9. Chained'
  <2>1. \A j \in 1..Len(blocks') : /\ Stretch(blocks'[j].data, FirstOf(blocks'[j]), LastOf(blocks'[j]) + 1)
                                   /\ FirstOf(blocks'[j]) \in 1..sent' /\ LastOf(blocks'[j]) \in 1..sent'
    BY <1>0, <1>8 DEF Chained
  <2>2. \A j \in 2..Len(blocks') : FirstOf(blocks'[j]) = LastOf(blocks'[j - 1]) + 1
    <3>1. \A j \in 2..Len(blocks') : j \in 1..Len(blocks) /\ j - 1 \in 1..Len(blocks)
      BY <1>1
    <3> QED
      BY <1>0, <1>8, <3>1 DEF Chained
  <2>3. LastOf(blocks'[Len(blocks')]) = sent'
    <3>1. Len(blocks) \in 1..Len(blocks)
      BY <1>1
    <3> QED
      BY <1>0, <1>8, <3>1 DEF Chained
  <2> QED
    BY <2>1, <2>2, <2>3 DEF Chained
<1>10. Upto' = Upto
  BY <1>1, <1>3, <1>8 DEF Upto
<1>11. InOrder'
  BY <1>0, <1>6, <1>7, <1>10, Moved
<1> QED
  BY <1>9, <1>11 DEF Inv

\* What is left of the first block goes to the wire, and the block is given back.
LEMMA port_on_writeLast ==
  ASSUME Inv, TypeInv', blocks # <<>>,
         wire' = wire \o SubSeq(blocks[1].data, blocks[1].rptr + 1, Len(blocks[1].data)),
         UNCHANGED <<sent, recvVars>>,
         Len(blocks') = Len(blocks) - 1, \A j \in 1..Len(blocks') : blocks'[j] = blocks[j + 1]
  PROVE  Inv'
<1>0. TypeInv /\ Chained /\ InOrder
  BY DEF Inv
<1>1. 1 \in 1..Len(blocks) /\ Len(blocks) \in Nat
  BY <1>0, RestOf
<1>2. Data' = Data /\ handled' = handled /\ sent' = sent /\ wire' = wire \o Rest
  BY <1>0, RestOf DEF Data, recvVars
<1>3. /\ Data \in Seq(Units) /\ wire \in Seq(Units) /\ Rest \in Seq(Units) /\ Pending \in Seq(Units)
      /\ Data \o (wire \o Rest) = Pending
  <2>1. Data \in Seq(Units) /\ wire \in Seq(Units) /\ Rest \in Seq(Units) /\ Pending \in Seq(Units)
    BY <1>0, PendingSeq
  <2>2. (Data \o wire) \o Rest = Data \o (wire \o Rest)
    BY ONLY <2>1, ConcatAssociative
  <2> QED
    BY <2>1, <2>2 DEF Pending
<1>4. Pending' = Pending \o Rest'
  BY <1>2, <1>3 DEF Pending
<1>5. Chained'
  <2>1. \A j \in 1..Len(blocks') : /\ Stretch(blocks'[j].data, FirstOf(blocks'[j]), LastOf(blocks'[j]) + 1)
                                   /\ FirstOf(blocks'[j]) \in 1..sent' /\ LastOf(blocks'[j]) \in 1..sent'
    <3>1. \A j \in 1..Len(blocks') : j + 1 \in 1..Len(blocks) /\ blocks'[j] = blocks[j + 1]
      BY <1>1
    <3> QED
      BY <1>0, <1>2, <3>1 DEF Chained
  <2>2. \A j \in 2..Len(blocks') : FirstOf(blocks'[j]) = LastOf(blocks'[j - 1]) + 1
    <3>1. \A j \in 2..Len(blocks') : /\ j + 1 \in 2..Len(blocks) /\ (j + 1) - 1 = j
                                     /\ blocks'[j] = blocks[j + 1] /\ blocks'[j - 1] = blocks[j]
      BY <1>1
    <3>2. \A j \in 2..Len(blocks) : FirstOf(blocks[j]) = LastOf(blocks[j - 1]) + 1
      BY <1>0, Zenon DEF Chained
    <3>3. SUFFICES ASSUME NEW j \in 2..Len(blocks')
                   PROVE  FirstOf(blocks'[j]) = LastOf(blocks'[j - 1]) + 1
      BY Zenon
    <3>4. FirstOf(blocks[j + 1]) = LastOf(blocks[(j + 1) - 1]) + 1
      BY <3>1, <3>2, Zenon
    <3> QED
      BY <3>1, <3>4, Zenon
  <2>3. blocks' # <<>> => LastOf(blocks'[Len(blocks')]) = sent'
    <3>1. blocks' # <<>> => Len(blocks') # 0
      BY EmptySeq DEF TypeInv, Typed
    <3>2. blocks' # <<>> => blocks'[Len(blocks')] = blocks[Len(blocks)]
      BY <1>1, <3>1
    <3> QED
      BY <1>0, <1>2, <3>2 DEF Chained
  <2> QED
    BY <2>1, <2>2, <2>3 DEF Chained
<1>6. CASE blocks' = <<>>
  <2>1. Len(blocks) = 1
    BY <1>1, <1>6
  <2>2. Upto' = Upto
    BY <1>0, <1>2, <1>6, <2>1 DEF Upto, Chained
  <2>3. Rest' = <<>>
    BY <1>6 DEF Rest
  <2>4. Pending' = Pending
    BY <1>3, <1>4, <2>3
  <2>5. InOrder'
    BY <1>0, <1>2, <2>2, <2>4, Moved
  <2> QED
    BY <1>5, <2>5 DEF Inv
<1>7. CASE blocks' # <<>>
  <2>1. Len(blocks) >= 2 /\ 2 \in 2..Len(blocks) /\ 2 \in 1..Len(blocks) /\ blocks'[1] = blocks[2]
    <3>1. Len(blocks') # 0
      BY <1>7, EmptySeq DEF TypeInv, Typed
    <3> QED
      BY <1>1, <3>1
  <2>2. blocks[2].data \in Seq(Units) /\ blocks[2].rptr = 0
    BY <1>0, <2>1, BlockHolds DEF TypeInv, BlocksOK
  <2>3. Rest' = blocks[2].data
    <3>1. Rest' = SubSeq(blocks[2].data, 0 + 1, Len(blocks[2].data))
      BY <1>7, <2>1, <2>2 DEF Rest
    <3>2. SubSeq(blocks[2].data, 1, Len(blocks[2].data)) = blocks[2].data
      BY <2>2, SubSeqFull
    <3>3. 0 + 1 = 1
      OBVIOUS
    <3> QED
      BY <3>1, <3>2, <3>3, Zenon
  <2> DEFINE r == LastOf(blocks[2]) + 1
  <2>4. Stretch(blocks[2].data, Upto, r)
    <3>1. Stretch(blocks[2].data, FirstOf(blocks[2]), r) /\ FirstOf(blocks[2]) = LastOf(blocks[2 - 1]) + 1
      BY <1>0, <2>1 DEF Chained
    <3>2. Upto = LastOf(blocks[1]) + 1 /\ 2 - 1 = 1
      BY DEF Upto
    <3> QED
      BY <3>1, <3>2
  <2>5. Upto' = r
    BY <1>7, <2>1 DEF Upto
  <2>6. r \in Nat /\ r <= Len(Args) + 1
    <3>1. LastOf(blocks[2]) \in 1..sent
      BY <1>0, <2>1 DEF Chained
    <3>2. sent \in Nat /\ Len(Args) \in Nat /\ sent <= Len(Args)
      BY UptoSent
    <3> QED
      BY <3>1, <3>2
  <2> HIDE DEF r
  <2>7. InOrder'
    BY <1>2, <1>4, <2>2, <2>3, <2>4, <2>5, <2>6, PendingGrows
  <2> QED
    BY <1>5, <2>7 DEF Inv
<1> QED
  BY <1>6, <1>7

LEMMA port_on_writeOrder ==
  ASSUME Inv, TypeInv', port_on_write
  PROVE  Inv'
<1>0. TypeInv /\ blocks # <<>> /\ UNCHANGED <<sent, recvVars>>
  BY DEF Inv, port_on_write
<1>1. Head(blocks) = blocks[1]
  BY <1>0 DEF TypeInv, Typed
<1>2. PICK n \in 1..(Len(blocks[1].data) - blocks[1].rptr) :
        /\ wire' = wire \o SubSeq(blocks[1].data, blocks[1].rptr + 1, blocks[1].rptr + n)
        /\ blocks' = skip_read_ptr(n)
  BY <1>1 DEF port_on_write
<1>3. \/ /\ blocks[1].rptr + n = Len(blocks[1].data)
         /\ Len(blocks') = Len(blocks) - 1 /\ \A j \in 1..Len(blocks') : blocks'[j] = blocks[j + 1]
      \/ /\ blocks[1].rptr + n < Len(blocks[1].data) /\ Len(blocks') = Len(blocks)
         /\ blocks'[1].data = blocks[1].data
         /\ blocks'[1].rptr = blocks[1].rptr + n
         /\ \A j \in 2..Len(blocks') : blocks'[j] = blocks[j]
  BY <1>0, <1>2, Skipped
<1>4. CASE /\ blocks[1].rptr + n = Len(blocks[1].data)
           /\ Len(blocks') = Len(blocks) - 1 /\ \A j \in 1..Len(blocks') : blocks'[j] = blocks[j + 1]
  BY <1>0, <1>2, <1>4, port_on_writeLast
<1>5. CASE /\ blocks[1].rptr + n < Len(blocks[1].data) /\ Len(blocks') = Len(blocks)
           /\ blocks'[1].data = blocks[1].data
           /\ blocks'[1].rptr = blocks[1].rptr + n
           /\ \A j \in 2..Len(blocks') : blocks'[j] = blocks[j]
  BY <1>0, <1>2, <1>5, port_on_writeSome
<1> QED
  BY <1>3, <1>4, <1>5

\* A packet behind the other data, in the first block.
LEMMA PacketBehind ==
  ASSUME Inv, UNCHANGED <<wire, recvVars>>, sent' = sent + 1, sent + 1 \in 1..Len(Args),
         Rest' = Rest \o Packet(sent + 1), Upto = sent + 1, Upto' = sent + 2
  PROVE  InOrder'
<1> DEFINE T == Packet(sent + 1)
<1>1. T \in Seq(Units)
  BY PacketType
<1>2. Stretch(T, sent + 1, (sent + 1) + 1)
  BY StretchOne
<1>3. Data' = Data /\ wire' = wire /\ handled' = handled /\ Rest' = Rest \o T
  BY DEF Data, recvVars
<1>4. sent \in Nat /\ Len(Args) \in Nat /\ (sent + 1) + 1 = sent + 2 /\ sent + 2 \in Nat /\ sent + 2 <= Len(Args) + 1
  BY UptoSent
<1> HIDE DEF T
<1>5. Pending' = Pending \o T
  <2>1. Data \in Seq(Units) /\ wire \in Seq(Units) /\ Rest \in Seq(Units)
    BY PendingSeq DEF Inv
  <2> DEFINE W == Data \o wire
  <2>2. /\ W \in Seq(Units) /\ Rest \in Seq(Units) /\ T \in Seq(Units)
        /\ Pending = W \o Rest /\ Pending' = W \o (Rest \o T)
    <3>1. W \in Seq(Units) /\ Rest \in Seq(Units) /\ T \in Seq(Units)
      BY <1>1, <2>1
    <3>2. Pending = W \o Rest
      BY DEF Pending
    <3>3. Pending' = (Data' \o wire') \o Rest'
      BY DEF Pending
    <3>4. Data' \o wire' = W
      BY <1>3
    <3> HIDE DEF W
    <3> QED
      BY <1>3, <3>1, <3>2, <3>3, <3>4
  <2> HIDE DEF W
  <2>3. (W \o Rest) \o T = W \o (Rest \o T)
    BY ONLY <2>2, ConcatAssociative
  <2> QED
    BY <2>2, <2>3
<1>6. Stretch(T, Upto, sent + 2) /\ Upto' = sent + 2
  BY <1>2, <1>4
<1> QED
  BY <1>1, <1>3, <1>4, <1>5, <1>6, PendingGrows

\* A packet in a block that is not the first one.
LEMMA PacketFurther ==
  ASSUME Inv, UNCHANGED <<wire, recvVars>>, blocks # <<>>, blocks' # <<>>, blocks'[1] = blocks[1]
  PROVE  InOrder'
<1>1. Data' = Data /\ wire' = wire /\ handled' = handled
  BY DEF Data, recvVars
<1>2. Rest' = Rest
  BY Zenon DEF Rest
<1>3. Upto' = Upto
  BY Zenon DEF Upto
<1>4. Pending' = Pending
  BY <1>1, <1>2 DEF Pending
<1> QED
  BY <1>1, <1>3, <1>4, Moved DEF Inv

\* The packet goes behind what the last block has.
LEMMA sendLast ==
  ASSUME Inv, TypeInv', UNCHANGED <<wire, recvVars>>, sent' = sent + 1, sent + 1 \in 1..Len(Args),
         NEW n, n = Len(blocks), n > 0, Len(blocks') = n,
         \A j \in 1..(n - 1) : blocks'[j] = blocks[j],
         blocks'[n].data = blocks[n].data \o Packet(sent + 1), blocks'[n].rptr = blocks[n].rptr,
         blocks'[n] \in Blocks
  PROVE  Inv'
<1> DEFINE T == Packet(sent + 1)  d == blocks[n].data
<1>0. TypeInv /\ Chained
  BY DEF Inv
<1>1. n \in Nat /\ n \in 1..n /\ sent \in Nat /\ Len(Args) \in Nat
  <2>1. blocks \in Seq(Blocks)
    BY <1>0 DEF TypeInv, Typed
  <2>2. n \in Nat
    BY <2>1
  <2>3. n \in 1..n
    BY <2>2
  <2> QED
    BY <2>2, <2>3, UptoSent
<1>2. T \in Seq(Units) /\ Stretch(T, sent + 1, sent + 2)
  <2>1. Stretch(T, sent + 1, (sent + 1) + 1)
    BY StretchOne
  <2>2. (sent + 1) + 1 = sent + 2
    BY <1>1
  <2> HIDE DEF T
  <2> QED
    BY <2>1, <2>2, PacketType DEF T
<1>3. /\ d \in Seq(Units) /\ Len(d) \in Nat /\ Len(d) > 0 /\ blocks[n].rptr \in Nat
      /\ blocks[n].rptr < Len(d)
  BY <1>1, BlockHolds, <1>0
<1>4. /\ Stretch(d, FirstOf(blocks[n]), LastOf(blocks[n]) + 1) /\ LastOf(blocks[n]) = sent
      /\ FirstOf(blocks[n]) \in 1..sent
  <2>1. blocks # <<>>
    BY <1>1
  <2> QED
    BY <1>0, <1>1, <2>1 DEF Chained
<1>5. Stretch(d \o T, FirstOf(blocks[n]), sent + 2)
  <2> DEFINE f == FirstOf(blocks[n])
  <2>1. f \in Nat /\ f >= 1 /\ sent + 1 \in Nat /\ sent + 2 \in Nat /\ sent + 2 <= Len(Args) + 1
    BY <1>1, <1>4
  <2>2. Stretch(d, f, sent + 1)
    BY <1>4
  <2> HIDE DEF f, d, T
  <2>3. Stretch(d \o T, f, sent + 2)
    BY <1>2, <1>3, <2>1, <2>2, StretchJoin
  <2> QED
    BY <2>3 DEF f
<1>6. /\ FirstOf(blocks'[n]) = FirstOf(blocks[n]) /\ LastOf(blocks'[n]) = sent + 1
      /\ Stretch(blocks'[n].data, FirstOf(blocks'[n]), LastOf(blocks'[n]) + 1)
  <2> DEFINE b == blocks'[n]
  <2>1. b \in Blocks /\ b.data = d \o T
    OBVIOUS
  <2> HIDE DEF b, d, T
  <2>2. Len(b.data) > 0
    <3>1. Len(d \o T) = Len(d) + Len(T) /\ Len(T) \in Nat
      BY <1>2, <1>3
    <3> QED
      BY <1>3, <2>1, <3>1
  <2>3. Stretch(b.data, FirstOf(blocks[n]), (sent + 1) + 1) /\ sent + 1 \in Nat
    <3>1. (sent + 1) + 1 = sent + 2 /\ sent + 1 \in Nat
      BY <1>1
    <3> QED
      BY <1>5, <2>1, <3>1
  <2>4. FirstOf(b) = FirstOf(blocks[n]) /\ LastOf(b) = sent + 1 /\ Stretch(b.data, FirstOf(b), LastOf(b) + 1)
    BY <2>1, <2>2, <2>3, ChainedBlock
  <2> QED
    BY <2>4 DEF b
<1> HIDE DEF T, d
<1>7. Chained'
  <2>1. ASSUME NEW j \in 1..Len(blocks')
        PROVE  /\ Stretch(blocks'[j].data, FirstOf(blocks'[j]), LastOf(blocks'[j]) + 1)
               /\ FirstOf(blocks'[j]) \in 1..sent' /\ LastOf(blocks'[j]) \in 1..sent'
    <3>1. CASE j = n
      <4>1. FirstOf(blocks[n]) \in 1..(sent + 1) /\ sent + 1 \in 1..(sent + 1)
        BY <1>1, <1>4
      <4> QED
        BY <1>6, <3>1, <4>1
    <3>2. CASE j # n
      <4>1. j \in 1..(n - 1) /\ j \in 1..Len(blocks)
        BY <1>1, <3>2
      <4>2. blocks'[j] = blocks[j]
        BY <4>1
      <4>3. /\ Stretch(blocks[j].data, FirstOf(blocks[j]), LastOf(blocks[j]) + 1)
            /\ FirstOf(blocks[j]) \in 1..sent /\ LastOf(blocks[j]) \in 1..sent
        BY <1>0, <4>1 DEF Chained
      <4>4. \A k \in 1..sent : k \in 1..(sent + 1)
        BY <1>1
      <4> QED
        BY <4>2, <4>3, <4>4
    <3> QED
      BY <3>1, <3>2
  <2>2. ASSUME NEW j \in 2..Len(blocks')
        PROVE  FirstOf(blocks'[j]) = LastOf(blocks'[j - 1]) + 1
    <3>1. j \in 2..Len(blocks) /\ j - 1 \in 1..(n - 1) /\ (j = n \/ j \in 1..(n - 1))
      BY <1>1
    <3>2. FirstOf(blocks[j]) = LastOf(blocks[j - 1]) + 1
      BY <1>0, <3>1 DEF Chained
    <3>3. blocks'[j - 1] = blocks[j - 1] /\ FirstOf(blocks'[j]) = FirstOf(blocks[j])
      BY <1>6, <3>1
    <3> QED
      BY <3>2, <3>3
  <2>3. LastOf(blocks'[Len(blocks')]) = sent'
    BY <1>6
  <2> QED
    BY <2>1, <2>2, <2>3 DEF Chained
<1>8. blocks # <<>> /\ blocks' # <<>>
  BY <1>1
<1>9. CASE n = 1
  <2>1. Upto = sent + 1 /\ Upto' = sent + 2
    <3>1. Upto = LastOf(blocks[1]) + 1 /\ Upto' = LastOf(blocks'[1]) + 1
      BY <1>8 DEF Upto
    <3>2. LastOf(blocks[1]) = sent /\ LastOf(blocks'[1]) = sent + 1
      BY <1>4, <1>6, <1>9
    <3> QED
      BY <1>1, <3>1, <3>2
  <2>2. Rest' = Rest \o T
    <3> DEFINE m == blocks[1].rptr
    <3>1. Rest = SubSeq(d, m + 1, Len(d)) /\ Rest' = SubSeq(d \o T, m + 1, Len(d \o T))
      BY <1>8, <1>9 DEF Rest, d, T
    <3>2. m \in Nat /\ m < Len(d)
      BY <1>3, <1>9
    <3> HIDE DEF m
    <3>3. SubSeq(d \o T, m + 1, Len(d \o T)) = SubSeq(d, m + 1, Len(d)) \o T
      BY <1>2, <1>3, <3>2, SuffixGrows
    <3> QED
      BY <3>1, <3>3
  <2>3. InOrder'
    BY <2>1, <2>2, PacketBehind DEF T
  <2> QED
    BY <1>7, <2>3 DEF Inv
<1>10. CASE n # 1
  <2>1. 1 \in 1..(n - 1)
    BY <1>1, <1>10
  <2>2. blocks'[1] = blocks[1]
    BY <2>1
  <2>3. InOrder'
    BY <1>8, <2>2, PacketFurther
  <2> QED
    BY <1>7, <2>3 DEF Inv
<1> QED
  BY <1>9, <1>10

\* The packet goes into a block of its own.
LEMMA sendNew ==
  ASSUME Inv, TypeInv', UNCHANGED <<wire, recvVars>>, sent' = sent + 1, sent + 1 \in 1..Len(Args),
         NEW n, n = Len(blocks), Len(blocks') = n + 1,
         \A j \in 1..n : blocks'[j] = blocks[j],
         blocks'[n + 1].data = Packet(sent + 1), blocks'[n + 1].rptr = 0,
         blocks'[n + 1] \in Blocks
  PROVE  Inv'
<1> DEFINE T == Packet(sent + 1)
<1>0. TypeInv /\ Chained
  BY DEF Inv
<1>1. n \in Nat /\ sent \in Nat /\ Len(Args) \in Nat /\ blocks \in Seq(Blocks)
  BY <1>0, UptoSent DEF TypeInv, Typed
<1>2. T \in Seq(Units) /\ Len(T) \in Nat /\ Len(T) > 0 /\ Stretch(T, sent + 1, (sent + 1) + 1)
  <2>1. T \in Seq(Units) /\ Len(T) = Lens[sent + 1]
    BY PacketType
  <2>2. Lens[sent + 1] \in Nat /\ Lens[sent + 1] # 0
    BY LensType
  <2>3. Stretch(T, sent + 1, (sent + 1) + 1)
    BY StretchOne
  <2> HIDE DEF T
  <2> QED
    BY <2>1, <2>2, <2>3
<1>3. /\ FirstOf(blocks'[n + 1]) = sent + 1 /\ LastOf(blocks'[n + 1]) = sent + 1
      /\ Stretch(blocks'[n + 1].data, FirstOf(blocks'[n + 1]), LastOf(blocks'[n + 1]) + 1)
  <2> DEFINE b == blocks'[n + 1]
  <2>1. b \in Blocks /\ b.data = T /\ sent + 1 \in Nat
    BY <1>1
  <2> HIDE DEF b, T
  <2>2. FirstOf(b) = sent + 1 /\ LastOf(b) = sent + 1 /\ Stretch(b.data, FirstOf(b), LastOf(b) + 1)
    BY <1>2, <2>1, ChainedBlock
  <2> QED
    BY <2>2 DEF b
<1> HIDE DEF T
<1>4. Chained'
  <2>1. ASSUME NEW j \in 1..Len(blocks')
        PROVE  /\ Stretch(blocks'[j].data, FirstOf(blocks'[j]), LastOf(blocks'[j]) + 1)
               /\ FirstOf(blocks'[j]) \in 1..sent' /\ LastOf(blocks'[j]) \in 1..sent'
    <3>1. CASE j = n + 1
      <4>1. sent + 1 \in 1..(sent + 1)
        BY <1>1
      <4> QED
        BY <1>3, <3>1, <4>1
    <3>2. CASE j # n + 1
      <4>1. j \in 1..n /\ j \in 1..Len(blocks)
        BY <1>1, <3>2
      <4>2. blocks'[j] = blocks[j]
        BY <4>1
      <4>3. /\ Stretch(blocks[j].data, FirstOf(blocks[j]), LastOf(blocks[j]) + 1)
            /\ FirstOf(blocks[j]) \in 1..sent /\ LastOf(blocks[j]) \in 1..sent
        BY <1>0, <4>1 DEF Chained
      <4>4. \A k \in 1..sent : k \in 1..(sent + 1)
        BY <1>1
      <4> QED
        BY <4>2, <4>3, <4>4
    <3> QED
      BY <3>1, <3>2
  <2>2. ASSUME NEW j \in 2..Len(blocks')
        PROVE  FirstOf(blocks'[j]) = LastOf(blocks'[j - 1]) + 1
    <3>1. CASE j = n + 1
      <4>1. n \in 1..n /\ j - 1 = n /\ n # 0
        BY <1>1, <3>1
      <4>2. blocks'[j - 1] = blocks[n] /\ blocks # <<>>
        BY <4>1
      <4>3. LastOf(blocks[n]) = sent
        BY <1>0, <4>2 DEF Chained
      <4> QED
        BY <1>3, <3>1, <4>2, <4>3
    <3>2. CASE j # n + 1
      <4>1. j \in 2..Len(blocks) /\ j \in 1..n /\ j - 1 \in 1..n
        BY <1>1, <3>2
      <4>2. FirstOf(blocks[j]) = LastOf(blocks[j - 1]) + 1
        BY <1>0, <4>1 DEF Chained
      <4>3. blocks'[j - 1] = blocks[j - 1] /\ blocks'[j] = blocks[j]
        BY <4>1
      <4> QED
        BY <4>2, <4>3
    <3> QED
      BY <3>1, <3>2
  <2>3. LastOf(blocks'[Len(blocks')]) = sent'
    BY <1>3
  <2> QED
    BY <2>1, <2>2, <2>3 DEF Chained
<1>5. blocks' # <<>>
  BY <1>1
<1>6. CASE n = 0
  <2>1. blocks = <<>> /\ n + 1 = 1
    <3>1. Len(blocks) = 0 /\ blocks \in Seq(Blocks)
      BY <1>1, <1>6
    <3>2. blocks = <<>>
      BY ONLY <3>1, EmptySeq
    <3> QED
      BY <1>6, <3>2
  <2>2. Upto = sent + 1 /\ Upto' = sent + 2
    <3>1. Upto = sent + 1 /\ Upto' = LastOf(blocks'[1]) + 1
      BY <1>5, <2>1 DEF Upto
    <3>2. LastOf(blocks'[1]) = sent + 1
      BY <1>3, <2>1
    <3> QED
      BY <1>1, <3>1, <3>2
  <2>3. Rest' = Rest \o T
    <3>1. Rest = <<>>
      BY <2>1 DEF Rest
    <3>2. blocks'[1].data = T /\ blocks'[1].rptr = 0
      BY <2>1 DEF T
    <3>3. Rest' = SubSeq(T, 0 + 1, Len(T))
      BY <1>5, <3>2 DEF Rest
    <3>4. SubSeq(T, 1, Len(T)) = T /\ 0 + 1 = 1
      BY <1>2, SubSeqFull
    <3>5. <<>> \o T = T
      BY <1>2
    <3> QED
      BY <3>1, <3>3, <3>4, <3>5
  <2>4. InOrder'
    BY <2>2, <2>3, PacketBehind DEF T
  <2> QED
    BY <1>4, <2>4 DEF Inv
<1>7. CASE n # 0
  <2>1. 1 \in 1..n /\ blocks # <<>>
    BY <1>1, <1>7
  <2>2. blocks'[1] = blocks[1]
    BY <2>1
  <2>3. InOrder'
    BY <1>5, <2>1, <2>2, PacketFurther
  <2> QED
    BY <1>4, <2>3 DEF Inv
<1> QED
  BY <1>6, <1>7

LEMMA sendOrder ==
  ASSUME Inv, TypeInv', send
  PROVE  Inv'
<1>0. TypeInv /\ blocks' \in Seq(Blocks)
  BY DEF Inv, TypeInv, Typed
<1>1. /\ sent' = sent + 1 /\ UNCHANGED <<wire, recvVars>>
      /\ blocks' = Alloc(Lens[sent + 1], Packet(sent + 1)) /\ sent < Len(Args)
  BY DEF send
<1>2. sent + 1 \in 1..Len(Args)
  BY <1>1, UptoSent
<1> DEFINE n == Len(blocks)  p == sent + 1
<1>3. \/ /\ n > 0 /\ Len(blocks') = n /\ \A j \in 1..(n - 1) : blocks'[j] = blocks[j]
         /\ blocks'[n].data = blocks[n].data \o Packet(p)
         /\ blocks'[n].rptr = blocks[n].rptr
      \/ /\ Len(blocks') = n + 1 /\ \A j \in 1..n : blocks'[j] = blocks[j]
         /\ blocks'[n + 1] = [size |-> BlockSize(Lens[p]), data |-> Packet(p), rptr |-> 0]
  BY <1>0, <1>1, <1>2, Allocated
<1>4. n \in Nat
  BY <1>0 DEF TypeInv, Typed
<1>5. CASE /\ n > 0 /\ Len(blocks') = n /\ \A j \in 1..(n - 1) : blocks'[j] = blocks[j]
           /\ blocks'[n].data = blocks[n].data \o Packet(p)
           /\ blocks'[n].rptr = blocks[n].rptr
  <2>1. blocks'[n] \in Blocks
    BY <1>0, <1>4, <1>5
  <2> QED
    BY <1>1, <1>2, <1>5, <2>1, sendLast
<1>6. CASE /\ Len(blocks') = n + 1 /\ \A j \in 1..n : blocks'[j] = blocks[j]
           /\ blocks'[n + 1] = [size |-> BlockSize(Lens[p]), data |-> Packet(p), rptr |-> 0]
  <2>1. blocks'[n + 1] \in Blocks
    BY <1>0, <1>4, <1>6
  <2>2. blocks'[n + 1].data = Packet(p) /\ blocks'[n + 1].rptr = 0
    BY <1>6
  <2> QED
    BY <1>1, <1>2, <1>6, <2>1, <2>2, sendNew
<1> QED
  BY <1>3, <1>5, <1>6

\* The other steps leave alone what is on its way.
LEMMA RestingOrder ==
  ASSUME Inv, TypeInv', UNCHANGED <<sent, blocks, wire, buf, rptr, wptr, handled>>
  PROVE  Inv'
<1>1. Chained' /\ Upto' = Upto /\ Rest' = Rest
  BY SameBlocks DEF Inv
<1>2. Data' = Data
  BY DEF Data
<1>3. Pending' = Pending
  BY <1>1, <1>2 DEF Pending
<1>4. InOrder'
  BY <1>1, <1>3, Moved DEF Inv
<1> QED
  BY <1>1, <1>4 DEF Inv

LEMMA StepOrder ==
  ASSUME Proto = "srv", Inv, [Next]_vars
  PROVE  Inv'
<1>0. TypeInv'
  BY StepType DEF Inv
<1>1. CASE send
  BY <1>0, <1>1, sendOrder
<1>2. CASE port_on_write
  BY <1>0, <1>2, port_on_writeOrder
<1>3. CASE Recv
  BY <1>0, <1>3, RecvOrder
<1>4. CASE RecvFull
  <2>1. UNCHANGED <<sent, blocks, wire, buf, rptr, wptr, handled>>
    BY <1>4 DEF RecvFull, sendVars
  <2> QED
    BY <1>0, <2>1, RestingOrder
<1>5. CASE Handle
  BY <1>0, <1>5, HandleOrder
<1>6. CASE LoopEnd
  BY <1>0, <1>6, LoopEndOrder
<1>7. CASE HandleRaises
  <2>1. UNCHANGED <<sent, blocks, wire, buf, rptr, wptr, handled>>
    BY <1>7 DEF HandleRaises, sendVars
  <2> QED
    BY <1>0, <2>1, RestingOrder
<1>8. CASE UNCHANGED vars
  <2>1. UNCHANGED <<sent, blocks, wire, buf, rptr, wptr, handled>>
    BY <1>8 DEF vars
  <2> QED
    BY <1>0, <2>1, RestingOrder
<1> QED
  BY <1>1, <1>2, <1>3, <1>4, <1>5, <1>6, <1>7, <1>8 DEF Next, Receive

LEMMA InvInOrder ==
  ASSUME Inv
  PROVE  HandledInOrder
<1>1. \A p \in 1..Len(handled) : handled[p].units = Packet(p)
  BY DEF Inv, InOrder
<1>2. Len(handled) + 1 <= Upto
  BY UptoSent DEF Stretch
<1>3. Len(handled) <= sent
  BY <1>2, UptoSent
<1> QED
  BY <1>1, <1>3 DEF HandledInOrder

LEMMA InvInOrderNext == Inv' => HandledInOrder'
  BY InvInOrder, PTL

\* HandledInOrder, for servers that talk Srvproto: what Sendbuf, the stream, Recvbuf
\* and the loop of Srvproto hand over are the packets that were sent, in that order,
\* each once and as a whole, for any packets, any sizes of the buffers, any split
\* of the stream and any handlers that raise an error.
THEOREM PacketsInOrder ==
  ASSUME Proto = "srv"
  PROVE  Spec => []HandledInOrder
<1>1. Init => Inv
  BY InitOrder
<1>2. Inv /\ [Next]_vars => Inv'
  BY StepOrder
<1>3. Inv => HandledInOrder
  BY InvInOrder
<1> QED
  BY <1>1, <1>2, <1>3, PTL DEF Spec

-----------------------------------------------------------------------------
(* The arguments of the packets *)

LEMMA FieldType ==
  ASSUME NEW unit \in Units
  PROVE  Field(unit) \in Items
<1>1. CASE unit = Junk
  BY <1>1, ItemTypes DEF Field
<1>2. CASE unit # Junk
  <2> DEFINE p == unit[1]  i == unit[2]
  <2>1. p \in 1..Len(Args) /\ i \in 1..Lens[p]
    BY <1>2 DEF Units
  <2>2. p \in DOMAIN Args /\ Args[p] \in Seq(Items)
    BY <2>1, ArgsType, LensType
  <2>3. Encoded[p] = Encode(Args[p]) /\ Lens[p] = calc_len(Args[p])
    BY <2>2 DEF Encoded, Lens
  <2>4. Encoded[p] \in Seq(Items) /\ Len(Encoded[p]) = Lens[p]
    BY <2>2, <2>3, EncodeType
  <2>5. Encoded[p][i] \in Items
    BY <2>1, <2>4
  <2> QED
    BY <1>2, <2>5 DEF Field
<1> QED
  BY <1>1, <1>2

\* A packet whose units are in front in the buffer is read with its arguments.
LEMMA PacketRead ==
  ASSUME TypeInv, NEW p \in 1..Len(Args), rptr + Lens[p] <= wptr,
         SubSeq(buf, rptr + 1, rptr + Lens[p]) = Packet(p),
         NEW fields, fields = [i \in 1..Datalen |-> Field(buf[rptr + i])]
  PROVE  /\ \A i \in 1..Sound(Args[p]) :
              i \in DOMAIN Decode(fields) /\ Arrives(Args[p][i], Decode(fields)[i])
         /\ Sound(Args[p]) = Len(Args[p]) => Len(Decode(fields)) = Sound(Args[p])
<1> DEFINE plen == Lens[p]  e == Encode(Args[p])
<1>1. /\ Args[p] \in Seq(Items) /\ p \in DOMAIN Args /\ plen \in Nat
  BY ArgsType, LensType
<1>2. e \in Seq(Items) /\ Len(e) = plen /\ Encoded[p] = e
  <2>1. Lens[p] = calc_len(Args[p]) /\ Encoded[p] = Encode(Args[p])
    BY <1>1 DEF Lens, Encoded
  <2> QED
    BY <1>1, <2>1, EncodeType
<1>3. /\ buf \in Seq(Units) /\ Len(buf) = BufSize /\ BufSize \in Nat
      /\ \A i \in 1..BufSize : buf[i] \in Units
  BY BufSeq DEF TypeInv
<1>4. rptr \in Nat /\ wptr \in Nat /\ rptr <= wptr /\ wptr <= BufSize
  BY DEF TypeInv, Typed
<1>5. Datalen \in Nat /\ plen <= Datalen /\ \A i \in 1..Datalen : rptr + i \in 1..BufSize
  BY <1>1, <1>3, <1>4 DEF Datalen
<1>6. /\ fields \in Seq(Items) /\ Len(fields) = Datalen
      /\ \A i \in 1..Datalen : fields[i] = Field(buf[rptr + i])
  <2>1. \A i \in 1..Datalen : Field(buf[rptr + i]) \in Items
    BY <1>3, <1>5, FieldType
  <2> QED
    BY <1>5, <2>1
<1>7. ASSUME NEW i \in 1..plen PROVE fields[i] = e[i]
  <2>1. /\ rptr <= rptr + plen /\ rptr + plen <= Len(buf) /\ (rptr + plen) - rptr = plen
        /\ rptr + plen \in Nat /\ i \in 1..Datalen
    BY <1>1, <1>3, <1>4, <1>5
  <2>2. SubSeq(buf, rptr + 1, rptr + plen)[i] = buf[rptr + i]
    BY <1>3, <1>4, <2>1, Part
  <2>3. Packet(p)[i] = <<p, i>>
    BY PacketType
  <2>4. buf[rptr + i] = <<p, i>>
    BY <2>2, <2>3
  <2>5. p # 0 /\ <<p, i>> # Junk
    BY DEF Junk
  <2>6. Field(<<p, i>>) = Encoded[p][i]
    BY <2>5 DEF Field
  <2> QED
    BY <1>2, <1>6, <2>1, <2>4, <2>6
<1> HIDE DEF plen, e
<1>8. IsPrefix(e, fields)
  <2>1. plen <= Len(e) /\ plen <= Len(fields)
    BY <1>1, <1>2, <1>5, <1>6
  <2>2. /\ SubSeq(e, 1, plen) \in Seq(Items) /\ Len(SubSeq(e, 1, plen)) = plen
        /\ SubSeq(fields, 1, plen) \in Seq(Items) /\ Len(SubSeq(fields, 1, plen)) = plen
        /\ \A i \in 1..plen : /\ SubSeq(e, 1, plen)[i] = e[i]
                              /\ SubSeq(fields, 1, plen)[i] = fields[i]
    <3>1. plen \in Nat /\ e \in Seq(Items) /\ fields \in Seq(Items)
      BY <1>1, <1>2, <1>6
    <3>2. 0 \in Nat /\ 0 <= plen /\ 0 + 1 = 1 /\ plen - 0 = plen /\ \A i \in 1..plen : 0 + i = i
      BY <3>1
    <3>3. /\ SubSeq(e, 0 + 1, plen) \in Seq(Items) /\ Len(SubSeq(e, 0 + 1, plen)) = plen - 0
          /\ \A i \in 1..(plen - 0) : SubSeq(e, 0 + 1, plen)[i] = e[0 + i]
      BY ONLY <2>1, <3>1, <3>2, Part
    <3>4. /\ SubSeq(fields, 0 + 1, plen) \in Seq(Items) /\ Len(SubSeq(fields, 0 + 1, plen)) = plen - 0
          /\ \A i \in 1..(plen - 0) : SubSeq(fields, 0 + 1, plen)[i] = fields[0 + i]
      BY ONLY <2>1, <3>1, <3>2, Part
    <3> QED
      BY ONLY <3>2, <3>3, <3>4
  <2>3. \A i \in 1..plen : SubSeq(e, 1, plen)[i] = SubSeq(fields, 1, plen)[i]
    BY <1>7, <2>2
  <2>4. SubSeq(e, 1, plen) = SubSeq(fields, 1, plen)
    BY <2>2, <2>3, SeqEqual
  <2> QED
    BY <1>2, <2>1, <2>4 DEF IsPrefix
<1> QED
  BY <1>1, <1>6, <1>8, ArgumentsRead DEF e

\* The next packet arrives with its arguments, and those before it keep theirs.
LEMMA HandleArgs ==
  ASSUME Proto = "srv", Inv, Inv', ArgsArrive, Handle
  PROVE  ArgsArrive'
<1>1. TypeInv /\ Typed /\ Typed'
  BY DEF Inv, TypeInv
<1>2. PICK plen \in Plens :
        Complete(plen) /\ handled' = Append(handled, Delivered(plen)) /\ rptr' = rptr + plen
  BY DEF Handle
<1>3. /\ plen \in Nat /\ rptr + plen <= wptr
      /\ Delivered(plen).units = SubSeq(buf, rptr + 1, rptr + plen)
      /\ Delivered(plen) \in [units : Seq(Units), args : Reads]
  BY <1>1, <1>2, CompleteFits
<1> DEFINE h == Len(handled)  p == h + 1
           fields == [i \in 1..Datalen |-> Field(buf[rptr + i])]
<1>4. /\ h \in Nat /\ Len(handled') = p /\ handled'[p] = Delivered(plen)
      /\ \A q \in 1..h : handled'[q] = handled[q]
  <2>1. handled \in Seq([units : Seq(Units), args : Reads])
    BY <1>1 DEF Typed
  <2> QED
    BY <1>2, <1>3, <2>1, AppendProperties
<1>5. HandledInOrder'
  BY InvInOrderNext
<1>6. p \in 1..Len(Args)
  <2>1. Len(handled') <= sent' /\ sent' \in 0..Len(Args) /\ Len(Args) \in Nat
    BY <1>1, <1>5, StreamAssumption DEF HandledInOrder, Typed
  <2> QED
    BY <1>4, <2>1
<1>7. SubSeq(buf, rptr + 1, rptr + plen) = Packet(p)
  <2>1. p \in 1..Len(handled')
    BY <1>4
  <2>2. handled'[p].units = Packet(p)
    BY <1>5, <2>1 DEF HandledInOrder
  <2> QED
    BY <1>3, <1>4, <2>2
<1>8. plen = Lens[p]
  <2>1. /\ buf \in Seq(Units) /\ rptr \in Nat /\ rptr + plen <= Len(buf)
        /\ rptr + plen \in Nat /\ rptr <= rptr + plen /\ (rptr + plen) - rptr = plen
    <3>1. buf \in Seq(Units) /\ Len(buf) = BufSize /\ BufSize \in Nat
      BY <1>1, BufSeq
    <3>2. rptr \in Nat /\ wptr \in Nat /\ wptr <= BufSize
      BY <1>1 DEF Typed
    <3> QED
      BY <1>3, <3>1, <3>2
  <2>2. Len(SubSeq(buf, rptr + 1, rptr + plen)) = plen
    BY <2>1, Part
  <2> QED
    BY <1>6, <1>7, <2>2, PacketType
<1>9. handled'[p].args = Decode(fields)
  BY <1>4 DEF Delivered
<1> DEFINE Arrived(q, got) ==
             /\ \A i \in 1..Sound(Args[q]) : i \in DOMAIN got /\ Arrives(Args[q][i], got[i])
             /\ Sound(Args[q]) = Len(Args[q]) => Len(got) = Sound(Args[q])
<1>10. Arrived(p, Decode(fields))
  BY <1>1, <1>3, <1>6, <1>7, <1>8, PacketRead
<1>11. \A q \in 1..h : Arrived(q, handled[q].args)
  BY DEF ArgsArrive
<1> HIDE DEF fields, Arrived, p
<1>12. \A q \in 1..p : q \in 1..h \/ q = p
  BY <1>4 DEF p
<1>13. \A q \in 1..Len(handled') : Arrived(q, handled'[q].args)
  BY <1>4, <1>9, <1>10, <1>11, <1>12
<1> QED
  BY <1>13 DEF ArgsArrive, Arrived

\* ArgsArrive: the function that a POST calls gets the arguments that were sent, up
\* to the first one that Srvproto cannot carry and but for the numbers that are not
\* an int32, which arrive as other numbers, and what was read wrong in a packet
\* leaves the next one alone, for any packets, any sizes of the buffers, any split of
\* the stream and any handlers that raise an error.
THEOREM ArgumentsArrive ==
  ASSUME Proto = "srv"
  PROVE  Spec => []ArgsArrive
<1>1. Init => Inv /\ ArgsArrive
  <2>1. ASSUME Init PROVE ArgsArrive
    <3>1. Len(handled) = 0
      BY <2>1 DEF Init
    <3>2. 1..0 = {}
      OBVIOUS
    <3> QED
      BY <3>1, <3>2 DEF ArgsArrive
  <2> QED
    BY <2>1, InitOrder
<1>2. Inv /\ ArgsArrive /\ [Next]_vars => (Inv /\ ArgsArrive)'
  <2> SUFFICES ASSUME Inv, ArgsArrive, [Next]_vars PROVE (Inv /\ ArgsArrive)'
    OBVIOUS
  <2>1. Inv'
    BY StepOrder
  <2>2. ASSUME UNCHANGED handled PROVE ArgsArrive'
    BY <2>2 DEF ArgsArrive
  <2>3. Handle \/ UNCHANGED handled
    BY DEF Next, Receive, send, port_on_write, Recv, RecvFull, LoopEnd, HandleRaises, recvVars, vars
  <2>4. ArgsArrive'
    BY <2>1, <2>2, <2>3, HandleArgs
  <2> QED
    BY <2>1, <2>4
<1> QED
  BY <1>1, <1>2, PTL DEF Spec

-----------------------------------------------------------------------------
(* Nothing waits *)

\* As long as no handler raised an error: the receiver closes only in front of a
\* packet that is larger than its buffer, and while a packet is on its way one of
\* the two ends has something to do.  AllHandled adds that it does it.
Settled ==
  raises = 0 =>
    /\ closed => Len(handled) < sent /\ Lens[Len(handled) + 1] > BufSize
    /\ ~closed /\ Len(handled) < sent =>
         /\ ars < Ars
         /\ (writable /\ blocks # <<>>) \/ wire # <<>> \/ phase = "parse"

\* While the receiver waits, its buffer is compacted and has no packet as a whole.
Waiting ==
  /\ phase # "more" /\ (closed => phase = "idle")
  /\ (blocks # <<>> => writable) /\ ars = raises
  /\ raises = 0 =>
       /\ phase = "idle" => rptr = 0 /\ (Datalen > 0 => Datalen < Lens[Len(handled) + 1])
       /\ closed => Len(handled) < sent /\ Lens[Len(handled) + 1] > BufSize

LEMMA RecvFullWaiting ==
  ASSUME Inv, Waiting, RecvFull
  PROVE  Waiting'
<1>1. /\ phase = "idle" /\ Bufremain = 0 /\ phase' = "idle"
      /\ UNCHANGED <<sent, blocks, writable, rptr, wptr, handled, ars, raises>>
  BY DEF RecvFull, Waiting, sendVars, Inv, TypeInv, Typed
<1>2. Datalen' = Datalen
  BY <1>1 DEF Datalen
<1>3. ASSUME raises = 0 PROVE Len(handled) < sent /\ Lens[Len(handled) + 1] > BufSize
  <2>1. rptr = 0 /\ (Datalen > 0 => Datalen < Lens[Len(handled) + 1])
    BY <1>1, <1>3 DEF Waiting
  <2>2. BufSize \in Nat /\ BufSize # 0 /\ wptr \in Nat
    BY StreamAssumption DEF Inv, TypeInv, Typed
  <2>3. wptr = BufSize
    BY <1>1, <2>2 DEF Bufremain
  <2>4. Datalen = BufSize /\ rptr < wptr /\ Datalen > 0
    BY <2>1, <2>2, <2>3 DEF Datalen
  <2>5. Len(handled) < sent /\ Lens[Len(handled) + 1] \in Nat
    BY <2>4, FrontUnit, LensType
  <2> QED
    BY <2>1, <2>2, <2>4, <2>5
<1> QED
  BY <1>1, <1>2, <1>3 DEF Waiting

LEMMA LoopEndWaiting ==
  ASSUME Inv, Waiting, LoopEnd
  PROVE  Waiting'
<1>1. /\ phase = "parse" /\ phase' = "idle" /\ ~closed /\ ~closed' /\ rptr' = 0 /\ wptr' = Datalen
      /\ UNCHANGED <<sent, blocks, writable, handled, ars, raises>>
      /\ Datalen <= 1 \/ \E plen \in Plens : ~Complete(plen)
  BY DEF LoopEnd, buf2line, Waiting, sendVars, Inv, TypeInv, Typed
<1>2. rptr \in Nat /\ wptr \in Nat /\ rptr <= wptr
  BY DEF Inv, TypeInv, Typed
<1>3. Datalen \in Nat /\ Datalen' = Datalen
  BY <1>1, <1>2 DEF Datalen
<1>4. ASSUME Datalen > 0 PROVE Datalen < Lens[Len(handled) + 1]
  <2> DEFINE p == Len(handled) + 1
  <2>1. rptr < wptr
    BY <1>2, <1>4 DEF Datalen
  <2>2. buf[rptr + 1] = <<p, 1>> /\ p \in 1..Len(Args)
    BY <2>1, FrontUnit
  <2> HIDE DEF p
  <2>3. Lens[p] \in Nat /\ Lens[p] >= 2
    BY <2>2, LensType
  <2>4. Plens = {Lens[p]}
    BY <1>3, <1>4, <2>2 DEF Plens
  <2>5. Datalen <= 1 \/ ~Complete(Lens[p])
    BY <1>1, <2>4
  <2>6. Datalen <= 1 \/ ~(Datalen >= Lens[p])
    BY <1>3, <2>5 DEF Complete
  <2>7. Datalen < Lens[p]
    BY <1>3, <2>3, <2>6
  <2> QED
    BY <2>7 DEF p
<1> QED
  BY <1>1, <1>3, <1>4 DEF Waiting

LEMMA StepWaiting ==
  ASSUME Proto = "srv", Inv, Waiting, [Next]_vars
  PROVE  Waiting'
<1>0. /\ phase \in {"idle", "parse", "more"} /\ closed \in BOOLEAN /\ raises \in Nat /\ ars \in Nat
      /\ sent \in Nat /\ Len(handled) \in Nat
  BY UptoSent, StreamAssumption DEF Inv, TypeInv, Typed
<1>1. CASE send
  <2>1. sent' = sent + 1 /\ writable' = TRUE /\ UNCHANGED recvVars
    BY <1>1 DEF send
  <2>2. UNCHANGED <<rptr, wptr, phase, closed, handled, ars, raises>>
    BY <2>1 DEF recvVars
  <2>3. Datalen' = Datalen
    BY <2>2 DEF Datalen
  <2> QED
    BY <1>0, <2>1, <2>2, <2>3 DEF Waiting
<1>2. CASE port_on_write
  <2>1. writable' = (blocks' # <<>>) /\ UNCHANGED <<sent, recvVars>>
    BY <1>2 DEF port_on_write
  <2>2. UNCHANGED <<sent, rptr, wptr, phase, closed, handled, ars, raises>> /\ Datalen' = Datalen
    BY <2>1 DEF recvVars, Datalen
  <2> QED
    BY <2>1, <2>2 DEF Waiting
<1>3. CASE Recv
  <2>1. ~closed /\ phase' = "parse" /\ UNCHANGED <<sendVars, closed, ars, raises>>
    BY <1>3 DEF Recv
  <2> QED
    BY <2>1 DEF Waiting, sendVars
<1>4. CASE RecvFull
  BY <1>4, RecvFullWaiting
<1>5. CASE Handle
  <2>1. phase = "parse" /\ phase' = "parse" /\ UNCHANGED <<sendVars, closed, ars, raises>>
    BY <1>5 DEF Handle
  <2>2. ~closed
    BY <2>1 DEF Waiting
  <2> QED
    BY <2>1, <2>2 DEF Waiting, sendVars
<1>6. CASE LoopEnd
  BY <1>6, LoopEndWaiting
<1>7. CASE HandleRaises
  <2>1. /\ phase = "parse" /\ phase' = "idle" /\ UNCHANGED <<sendVars, closed>>
        /\ raises' = raises + 1 /\ ars' = ars + 1
    BY <1>7 DEF HandleRaises
  <2>2. raises' # 0
    BY <1>0, <2>1
  <2>3. ars' = raises' /\ UNCHANGED <<writable, blocks>>
    BY <2>1 DEF Waiting, sendVars
  <2> QED
    BY <2>1, <2>2, <2>3 DEF Waiting
<1>8. CASE UNCHANGED vars
  BY <1>8 DEF Waiting, Datalen, vars
<1> QED
  BY <1>1, <1>2, <1>3, <1>4, <1>5, <1>6, <1>7, <1>8 DEF Next, Receive

\* When there is nothing between the buffers, what is in the receive buffer are the
\* packets that were not handled, as a whole.
LEMMA WaitingSettled ==
  ASSUME Inv, Waiting
  PROVE  Settled
<1> SUFFICES ASSUME raises = 0, ~closed, Len(handled) < sent,
                    wire = <<>>, blocks = <<>>, phase # "parse"
             PROVE  FALSE
  <2> DEFINE Busy == blocks # <<>> \/ wire # <<>> \/ phase = "parse"
  <2>1. raises = 0 => ars < Ars
    BY StreamAssumption DEF Waiting
  <2>2. blocks # <<>> => writable
    BY DEF Waiting
  <2>3. raises = 0 /\ closed => Len(handled) < sent /\ Lens[Len(handled) + 1] > BufSize
    BY DEF Waiting
  <2>4. raises = 0 /\ ~closed /\ Len(handled) < sent => Busy
    OBVIOUS
  <2> QED
    BY <2>1, <2>2, <2>3, <2>4, Zenon DEF Settled
<1> DEFINE h == Len(handled)  T == Pending
<1>1. phase = "idle" /\ (Datalen > 0 => Datalen < Lens[h + 1])
  BY DEF Waiting, Inv, TypeInv, Typed
<1>2. sent \in Nat /\ sent <= Len(Args) /\ Len(Args) \in Nat /\ h \in Nat /\ Stretch(T, h + 1, sent + 1)
  BY UptoSent DEF Upto
<1>3. T \in Seq(Units) /\ Len(T) \in Nat /\ Len(T) = Datalen
  <2>1. Data \in Seq(Units) /\ Len(Data) = wptr - rptr
    BY PendingType DEF DataOK, Inv, TypeInv
  <2>2. Rest = <<>>
    BY DEF Rest
  <2>3. (Data \o <<>>) \o <<>> = Data
    BY <2>1
  <2> QED
    BY <2>1, <2>2, <2>3 DEF Pending, Datalen
<1> HIDE DEF T, h
<1>4. /\ Len(T) # 0 /\ T[1] = <<h + 1, 1>> /\ T[Len(T)] = <<sent, Lens[sent]>> /\ Consecutive(T)
  <2>1. h + 1 # sent + 1 /\ (sent + 1) - 1 = sent
    BY <1>2 DEF h
  <2> QED
    BY <1>2, <1>3, <2>1 DEF Stretch
<1>5. h + 1 \in 1..Len(Args) /\ Lens[h + 1] \in Nat /\ Len(T) < Lens[h + 1]
  <2>1. h + 1 \in 1..Len(Args)
    BY <1>2 DEF h
  <2> QED
    BY <1>1, <1>3, <1>4, <2>1, LensType
<1>6. T[Len(T)] = <<h + 1, 1 + (Len(T) - 1)>>
  <2>1. /\ 1 \in 1..Len(T) /\ Len(T) \in 1..Len(T) /\ 1 <= Len(T)
        /\ T[1][1] = h + 1 /\ T[1][2] = 1 /\ Len(T) - 1 <= Lens[h + 1] - 1
    BY <1>3, <1>4, <1>5
  <2> QED
    BY <1>4, <2>1 DEF Consecutive
<1>7. sent = h + 1 /\ Lens[sent] = Len(T)
  BY <1>3, <1>4, <1>6
<1> QED
  BY <1>5, <1>7

\* Settled: nothing waits.  A packet between servers that was sent is handled, or is
\* on its way with somebody to move it on, or is behind a packet that does not fit
\* the receive buffer, for any packets and any sizes of the buffers, until a
\* handler raises an error.
THEOREM NothingWaits ==
  ASSUME Proto = "srv"
  PROVE  Spec => []Settled
<1>1. Init => Inv /\ Waiting
  <2>1. ASSUME Init PROVE Waiting
    <3>1. /\ phase = "idle" /\ closed = FALSE /\ blocks = <<>>
          /\ ars = 0 /\ raises = 0 /\ rptr = 0 /\ wptr = 0
      BY <2>1 DEF Init
    <3>2. Datalen = 0
      BY <3>1 DEF Datalen
    <3> QED
      BY <3>1, <3>2 DEF Waiting
  <2> QED
    BY <2>1, InitOrder
<1>2. Inv /\ Waiting /\ [Next]_vars => (Inv /\ Waiting)'
  BY StepOrder, StepWaiting
<1>3. Inv /\ Waiting => Settled
  BY WaitingSettled
<1> QED
  BY <1>1, <1>2, <1>3, PTL DEF Spec
=============================================================================
