----------------------------- MODULE MCPipeline -----------------------------
(* Pipeline with ids of two digits: three papers, one without a date, one   *)
(* cited twice by the same paper, and a date both plain and cross-listed.   *)
EXTENDS Pipeline

\* What a seed draws: the first subset of that size, or another one.
Pick(seed, S, k) ==
  LET sized == {T \in SUBSET S : Cardinality(T) = k}
      first == CHOOSE T \in sized : TRUE
  IN  IF seed = 1 \/ sized = {first} THEN first ELSE CHOOSE T \in sized \ {first} : TRUE

One == <<0, 1>>
Two == <<2, 0>>
Eleven == <<1, 1>>

\* Leading zeros are stripped in the edges file only.
Cycle == << <<<<1>>, Two>>, <<Two, Eleven>>, <<<<1>>, Two>>, <<Eleven, <<1>>>> >>

Plain == [id |-> One, year |-> "1992"]
Crossed == [id |-> <<1, 1>> \o One, year |-> "1993"]
Other == [id |-> <<1, 1>> \o Two, year |-> "1993"]

RawFiles ==
  {[edges |-> Cycle, dates |-> d] :
     d \in {<<Plain, Crossed, Other>>, <<Crossed, Other, Plain>>, <<Other, Crossed>>}}

Arguments3 == {[edges |-> 0, seed |-> 1], [edges |-> 2, seed |-> 1], [edges |-> 2, seed |-> 2]}
=============================================================================
