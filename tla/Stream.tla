------------------------------- MODULE Stream --------------------------------
(***************************************************************************)
(* One direction of a connection, from the send of a packet to its handler:*)
(* Sendbuf (lsendbuf.cc) with port_on_write, the TCP stream, Recvbuf       *)
(* (lrecvbuf.cc) with port_on_read, and the loop that takes packets out of *)
(* the buffer, of Srvproto between servers and of Pbproto for clients.     *)
(*                                                                         *)
(* A packet is a sequence of units, as Srvproto writes them; the first one *)
(* is the length of the packet.                                            *)
(***************************************************************************)
EXTENDS Integers, Sequences, SequencesExt, FiniteSets, Srvproto

CONSTANTS
  Args,      \* the arguments of the packets, in the order they are sent
  Proto,     \* "srv" for Srvproto, "pb" for Pbproto
  BufSize,   \* size of a receive buffer (1024 bytes in sock_create)
  Sizes,     \* the sizes of the blocks of a send buffer (4096 times a power of 2)
  Ars,       \* entries of the Ar pool that can be taken (MAX_AR - 1)
  MaxRaise   \* bound: handlers that raise an error

ASSUME StreamAssumption ==
  /\ Args \in Seq(Seq([type : Types, val : Int]))
  /\ \A p \in DOMAIN Args : Args[p] = <<>> \/ Last(Args[p]) # Nil
  /\ Proto \in {"srv", "pb"}
  /\ BufSize \in Nat \ {0} /\ Sizes \subseteq Nat
  /\ Ars \in Nat \ {0} /\ MaxRaise \in Nat

VARIABLES
  sent,      \* packets sent so far
  blocks,    \* the blocks of the send buffer: size, what is in it, rptr
  writable,  \* the write event is registered
  wire,      \* units the sender's kernel took and the receiver did not read
  buf, rptr, wptr,  \* the receive buffer
  phase,     \* the receiver waits, takes packets out, or reads for one more
  closed,    \* the receiver closed the connection
  handled,   \* what the handlers got
  ars,       \* entries of the Ar pool that are taken
  raises     \* handlers that raised an error

sendVars == <<sent, blocks, writable>>
recvVars == <<buf, rptr, wptr, phase, closed, handled, ars, raises>>
vars == <<sent, blocks, writable, wire, buf, rptr, wptr, phase, closed, handled, ars, raises>>

\* The packets and their lengths.
Encoded == [p \in DOMAIN Args |-> Encode(Args[p])]
Lens == [p \in DOMAIN Args |-> calc_len(Args[p])]

\* There are blocks that are large enough for a packet.
ASSUME SizesAssumption == \A p \in DOMAIN Args : \E s \in Sizes : s >= Lens[p]

\* On its way a unit is named by its packet and its place.
Packet(p) == [i \in 1..Lens[p] |-> <<p, i>>]

\* What malloc left in a buffer.
Junk == <<0, 0>>

\* What the reader finds in a unit.
Field(unit) == IF unit = Junk THEN Garbage ELSE Encoded[unit[1]][unit[2]]

Init ==
  /\ sent = 0 /\ blocks = <<>> /\ writable = FALSE
  /\ wire = <<>>
  /\ buf = [i \in 1..BufSize |-> Junk]
  /\ rptr = 0 /\ wptr = 0
  /\ phase = "idle" /\ closed = FALSE
  /\ handled = <<>>
  /\ ars = 0 /\ raises = 0

-----------------------------------------------------------------------------
(* Send *)

\* The smallest size that is enough.
BlockSize(need) == CHOOSE s \in Sizes : s >= need /\ \A r \in Sizes : r >= need => s <= r

Room(block) == block.size - Len(block.data)

\* Sendbuf.alloc and Sendbuf.flush: the packet goes behind what the last block
\* has, or into a new block.
Alloc(need, data) ==
  IF blocks # <<>> /\ Room(Last(blocks)) >= need
  THEN [blocks EXCEPT ![Len(blocks)].data = @ \o data]
  ELSE Append(blocks, [size |-> BlockSize(need), data |-> data, rptr |-> 0])

send ==
  /\ sent < Len(Args) /\ ~closed
  /\ sent' = sent + 1
  /\ blocks' = Alloc(Lens[sent'], Packet(sent'))
  /\ writable' = TRUE
  /\ UNCHANGED <<wire, recvVars>>

\* Mutant: a block is given back one send too late.
skip_read_ptr_late(n) ==
  IF Head(blocks).rptr + n > Len(Head(blocks).data) THEN Tail(blocks)
  ELSE [blocks EXCEPT ![1].rptr = @ + n]

\* Mutant: a block is given back after the first send from it.
skip_read_ptr_block(n) == Tail(blocks)

\* sendbuf_skip_read_ptr: a block that was read to its end is given back.
skip_read_ptr(n) ==
  IF Head(blocks).rptr + n >= Len(Head(blocks).data) THEN Tail(blocks)
  ELSE [blocks EXCEPT ![1].rptr = @ + n]

\* The kernel takes some of what the first block has.
port_on_write ==
  /\ writable /\ ~closed
  /\ blocks # <<>>
  /\ LET block == Head(blocks) IN
     \E n \in 1..(Len(block.data) - block.rptr) :
       /\ wire' = wire \o SubSeq(block.data, block.rptr + 1, block.rptr + n)
       /\ blocks' = skip_read_ptr(n)
  /\ writable' = (blocks' # <<>>)
  /\ UNCHANGED <<sent, recvVars>>

-----------------------------------------------------------------------------
(* Receive *)

\* recv() writes n units behind position at, and Recvbuf.wskip counts them.
Fill(at, n) ==
  /\ buf' = [i \in 1..BufSize |-> IF i \in (at + 1)..(at + n) THEN wire[i - at] ELSE buf[i]]
  /\ wptr' = wptr + n
  /\ wire' = SubSeq(wire, n + 1, Len(wire))

Bufremain == BufSize - wptr

\* The read event: data arrived, and recv() returns some of them.  Srvproto reads
\* to wptr; Pbproto reads to rptr, also when it comes back for another packet.
Recv ==
  /\ phase # "parse" /\ ~closed
  /\ \E n \in 1..Bufremain :
       /\ n <= Len(wire)
       /\ Fill(IF Proto = "srv" THEN wptr ELSE rptr, n)
  /\ phase' = "parse"
  /\ UNCHANGED <<sendVars, rptr, closed, handled, ars, raises>>

\* A recv() into a buffer that is full returns 0, as at the end of the stream,
\* and the connection is closed.
RecvFull ==
  /\ phase # "parse" /\ ~closed
  /\ Bufremain = 0 /\ (phase = "idle" => wire # <<>>)
  /\ closed' = TRUE /\ phase' = "idle"
  /\ UNCHANGED <<sendVars, wire, buf, rptr, wptr, handled, ars, raises>>

Datalen == wptr - rptr

\* What may be read as the length of the next packet: anything, if what is at
\* rptr is not a header.
Plens ==
  LET unit == buf[rptr + 1] IN
  IF Datalen = 0 THEN {}
  ELSE IF unit[2] = 1 THEN {Lens[unit[1]]} ELSE 0..(BufSize + 1)

\* The packet is in the buffer as a whole.
Complete(plen) == Datalen > 1 /\ Datalen >= plen

\* What the handler of the packet gets: the units of the packet, and the
\* arguments, for which Srvproto reads in all that the buffer has.
Delivered(plen) ==
  [units |-> SubSeq(buf, rptr + 1, rptr + plen),
   args |-> IF Proto = "pb" THEN <<>>
            ELSE Decode([i \in 1..Datalen |-> Field(buf[rptr + i])])]

\* Mutant: the loop ends after one packet.
HandleOne ==
  /\ phase = "parse"
  /\ \E plen \in Plens :
       /\ Complete(plen)
       /\ handled' = Append(handled, Delivered(plen))
       /\ rptr' = 0 /\ wptr' = Datalen - plen
       /\ buf' = [i \in 1..BufSize |-> IF i <= Datalen - plen THEN buf[rptr + plen + i] ELSE buf[i]]
  /\ ars < Ars
  /\ phase' = "idle"
  /\ UNCHANGED <<sendVars, wire, closed, ars, raises>>

\* The handler of the next packet returns, and Recvbuf.rskip skips the packet.
\* Srvproto goes on with the next packet; Pbproto reads again first.  When the
\* Ar pool is used up, Srvproto reads 0 as the length of the packet, skips
\* nothing, and does not leave its loop any more: there is no step.
Handle ==
  /\ phase = "parse"
  /\ \E plen \in Plens :
       /\ Complete(plen)
       /\ handled' = Append(handled, Delivered(plen))
       /\ rptr' = rptr + plen
  /\ ars < Ars
  /\ phase' = IF Proto = "srv" THEN "parse" ELSE "more"
  /\ UNCHANGED <<sendVars, wire, buf, wptr, closed, ars, raises>>

\* The handler raises an error, which port_on_read logs: the packet is not
\* skipped, the buffer is not compacted and the Ar entry is not given back.
HandleRaises ==
  /\ phase = "parse" /\ Proto = "srv"
  /\ raises < MaxRaise /\ raises' = raises + 1
  /\ \E plen \in Plens : Complete(plen)
  /\ ars < Ars /\ ars' = ars + 1
  /\ phase' = "idle"
  /\ UNCHANGED <<sendVars, wire, buf, rptr, wptr, closed, handled>>

\* Recvbuf.buf2line moves what is left to the start of the buffer.
buf2line ==
  /\ buf' = [i \in 1..BufSize |-> IF i <= Datalen THEN buf[rptr + i] ELSE buf[i]]
  /\ rptr' = 0 /\ wptr' = Datalen

\* The loop ends: no packet is complete, or Pbproto had nothing more to read.
LoopEnd ==
  /\ phase = "parse" => Datalen <= 1 \/ \E plen \in Plens : ~Complete(plen)
  /\ phase # "idle"
  /\ buf2line
  /\ phase' = "idle"
  /\ UNCHANGED <<sendVars, wire, closed, handled, ars, raises>>

Receive == Recv \/ RecvFull \/ Handle \/ LoopEnd

Next == send \/ port_on_write \/ Receive \/ HandleRaises

Spec == Init /\ [][Next]_vars

\* The event loops of both ends run.  Whether a packet is sent is up to the
\* sender, and no handler has to raise an error.
FairSpec == Spec /\ WF_vars(port_on_write) /\ WF_vars(Receive)

-----------------------------------------------------------------------------
(* Properties *)

\* The pointers stay inside the buffer, and a block is not fuller than it is
\* large.
TypeOK ==
  /\ sent \in 0..Len(Args)
  /\ \A b \in Range(blocks) : b.rptr < Len(b.data) /\ Len(b.data) <= b.size
  /\ Len(buf) = BufSize
  /\ 0 <= rptr /\ rptr <= wptr /\ wptr <= BufSize
  /\ phase \in {"idle", "parse", "more"}
  /\ ars \in 0..Ars /\ raises \in 0..MaxRaise

\* The handlers get the packets that were sent, in that order, each of them once
\* and as a whole, however the kernel splits the stream, the send buffer
\* changes its block and the receive buffer is compacted.
HandledInOrder ==
  /\ Len(handled) <= sent
  /\ \A p \in 1..Len(handled) : handled[p].units = Packet(p)

\* The function that is called gets the arguments of the POST, if there is no
\* nil or table among them and a protobuf only at the end; otherwise at least
\* those in front.  A number that is not an int32 arrives as some other number and
\* spoils no argument behind it.  What was read wrong in one packet leaves the next
\* one alone.
ArgsArrive ==
  Proto = "srv" => \A p \in 1..Len(handled) :
    LET args == Args[p]
        n == Sound(args)
        got == handled[p].args
    IN /\ \A i \in 1..n : i \in DOMAIN got /\ Arrives(args[i], got[i])
       /\ n = Len(args) => Len(got) = n

\* A handler raised, and its packet has to wait: nothing more is on its way, the
\* buffer that was not compacted filled up, or the raised errors took all archives.
Stalled ==
  /\ raises > 0
  /\ closed \/ ars = Ars \/ (wire = <<>> /\ blocks = <<>>)

\* Every packet that is sent is handled, unless a packet up to it is larger than
\* the receive buffer or the receiver stalls for good: a packet does not wait in a
\* buffer for another one, a handler that raised is called again with what arrives
\* next, and nothing else makes the receiver close.
AllHandled ==
  \A p \in 1..Len(Args) :
    [](sent >= p => \/ <>(Len(handled) >= p \/ \E q \in 1..p : Lens[q] > BufSize)
                    \/ <>[]Stalled)
=============================================================================
