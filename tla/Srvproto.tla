------------------------------ MODULE Srvproto -------------------------------
(***************************************************************************)
(* The packets between servers (srvproto.lua, with the archive of ar.cc):  *)
(* how the arguments of a POST are written and read.                       *)
(*                                                                         *)
(* A packet is a sequence of units: its length, the count of its           *)
(* arguments, and the arguments, each a tag with its value.  A protobuf    *)
(* takes two units, because the reader stops in front of its body.         *)
(***************************************************************************)
EXTENDS Integers, Sequences, SequencesExt, FiniteSets

CONSTANT Half  \* the integers of the archive go from -Half to Half - 1 (2^31)

ASSUME HalfAssumption == Half \in Nat \ {0}

\* The types of a Lua value; a userdata is a protobuf.  A number is an integer or
\* has a fraction: then its value here is the integer lua_tointeger makes of it.
Types == {"nil", "boolean", "number", "fraction", "string", "table", "function", "thread",
          "protobuf"}

\* An argument, or another unit: its type and its value.
Arg(type, val) == [type |-> type, val |-> val]
Nil == Arg("nil", 0)
Body == Arg("body", 0)

\* What stands for anything that the reader may make of bytes that are not what
\* it takes them for.
Garbage == Arg("garbage", 0)

\* The conversion to int32 drops what is above the 32 bits.
Int32(v) == ((v + Half) % (2 * Half)) - Half

\* What is written of an argument.  Every number becomes an int32.  pairs() passes
\* over nil, so that the writer does not come to its case of nil, and it has no
\* case for a boolean or a function.
Write(a) ==
  CASE a.type = "protobuf" -> <<a, Body>>
    [] a.type \in {"number", "fraction"} -> <<Arg("number", Int32(a.val))>>
    [] a.type \in {"string", "table"} -> <<a>>
    [] OTHER -> <<>>

Written(args) == FlattenSeq([i \in DOMAIN args |-> Write(args[i])])

\* Mutant: the body of a protobuf is not counted.
calc_len_no_body(args) == 2 + Cardinality({i \in DOMAIN args : Write(args[i]) # <<>>})

\* The length of a packet: the length field, the count, and the arguments.
calc_len(args) == 2 + Len(Written(args))

\* The count is #args, which counts a nil that another argument follows.  What
\* does not fit the length is not written.
Encode(args) ==
  SubSeq(<<Arg("plen", calc_len(args)), Arg("argcount", Len(args))>> \o Written(args),
         1, calc_len(args))

\* One turn of the loop of dispatch: the arguments so far, and what is left of
\* the data behind the read pointer of the archive.
\*  - At the end of the data the tag is read as 0, and nothing is added.
\*  - A table comes as the string of its JSON.
\*  - Behind the body of a protobuf, where the pointer stays, and in the packet
\*    that follows, the tag is what happens to be there: anything may come.
ReadArg(s) ==
  LET u == Head(s.rest) IN
  CASE s.rest = <<>> -> s
    [] s.rest # <<>> /\ u.type \in {"number", "string"} ->
         [args |-> Append(s.args, u), rest |-> Tail(s.rest)]
    [] s.rest # <<>> /\ u.type = "table" ->
         [args |-> Append(s.args, Arg("string", u.val)), rest |-> Tail(s.rest)]
    [] s.rest # <<>> /\ u.type = "protobuf" /\ Len(s.rest) > 1 /\ s.rest[2] = Body ->
         [args |-> Append(s.args, u), rest |-> Tail(s.rest)]
    [] OTHER -> [args |-> Append(s.args, Garbage), rest |-> <<>>]

\* The arguments that are read from the data in the buffer, which begin with the
\* packet and may go on behind it.
Decode(units) ==
  LET count == units[2].val
      read[i \in 0..count] ==
        IF i = 0 THEN [args |-> <<>>, rest |-> SubSeq(units, 3, Len(units))]
        ELSE ReadArg(read[i - 1])
  IN read[count].args

-----------------------------------------------------------------------------
(* Properties *)

\* The arguments that the format carries: those before a nil or a table, and none
\* behind a protobuf.
Sound(args) == Cardinality({n \in DOMAIN args :
  /\ \A i \in 1..n : args[i].type \in {"number", "fraction", "string", "protobuf"}
  /\ \A i \in 1..(n - 1) : args[i].type # "protobuf"})

\* What such an argument arrives as: itself, but some number for one that has a
\* fraction or does not fit the integers of the archive.
Arrives(a, b) ==
  IF a.type \in {"string", "protobuf"} \/ (a.type = "number" /\ a.val \in (-Half)..(Half - 1))
  THEN b = a
  ELSE b.type = "number"
=============================================================================
