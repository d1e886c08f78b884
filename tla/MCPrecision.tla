----------------------------- MODULE MCPrecision -----------------------------
EXTENDS Precision

Op(operands) == [sample |-> FALSE, positions |-> <<>>, operands |-> operands, width |-> 64]
Resample(data, at) == [sample |-> TRUE, positions |-> <<at>>, operands |-> <<data>>, width |-> 32]

\* Data is argument 1; argument 2 feeds a chain of operations whose last value
\* is the position.
ProgramsC ==
  {[args |-> <<32, 64>>, ops |-> <<Op(<<2>>), Op(a), Op(b), Op(c), Resample(1, 6)>>] :
     a \in {<<2>>, <<3>>}, b \in {<<3>>, <<4>>}, c \in {<<5>>, <<3, 5>>, <<5, 3>>}}
=============================================================================
