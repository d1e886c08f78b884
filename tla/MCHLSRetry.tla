---------------------------- MODULE MCHLSRetry ----------------------------
(***************************************************************************)
(* Small kernels for HLSRetry: widths up to four, lanes and banks up to    *)
(* two, and a device that is a memory size and a number of banks.          *)
(***************************************************************************)
EXTENDS HLSRetry

SmallIRs == [io : {1, 2, 4}, rows : 1..2, reuse : 0..1]
SmallDesigns == [ir : SmallIRs, threshold : 1..2, factor : 1..2]

\* What a design needs: a plane kept on chip, wide transfers and lanes cost room.
Need(d) == (IF d.threshold = 2 THEN 3 ELSE 0) + d.ir.io + d.ir.rows - d.ir.reuse

\* A device has room for that much and this many banks.  On the first everything
\* fits; streaming, a narrower transfer or fewer lanes are needed on the next two;
\* nothing fits the fourth; fewer banks are needed, and there are too few for any
\* design on the last.
MCDevices == {<<9, 4>>, <<4, 4>>, <<2, 4>>, <<0, 4>>, <<5, 2>>, <<5, 0>>}
MCVerdicts ==
  [v \in MCDevices |-> [d \in SmallDesigns |->
     IF d.factor * d.ir.rows > v[2] THEN "partition"
     ELSE IF Need(d) > v[1] THEN "memory" ELSE "fits"]]

MCStarts == {[threshold |-> 2, factor |-> 2, io |-> 4, rows |-> 2, reuse |-> 0]}
MCPinnable == {Keys} \cup {Keys \ {k} : k \in {"threshold", "factor", "io", "rows"}}
=============================================================================
