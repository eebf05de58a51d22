------------------------------ MODULE MCStream -------------------------------
(* Instances of Stream for TLC. *)
EXTENDS Stream

\* With Half = 4: the least integer that fits, the first that does not, and a
\* number with a fraction.
Num == Arg("number", -4)
Big == Arg("number", 4)
Frac == Arg("fraction", 1)
Str == Arg("string", 2)
Pb == Arg("protobuf", 3)

\* Packets of 3, 3, 5, 4, 5, 7 and 3 units, the sixth of which does not fit the
\* buffer of 6: a nil and a protobuf with arguments behind them, a table, and numbers
\* that do not arrive as they are, in front of a protobuf and of a nil.
Posts == <<<<Str>>, <<Num>>, <<Big, Pb>>, <<Frac, Nil, Arg("table", 4)>>, <<Pb, Str>>,
           <<Pb, Pb, Str>>, <<Num>>>>

Two == <<<<Num>>, <<Str>>>>
=============================================================================
