---------------------------- MODULE MCRelational ----------------------------
(* What programs do in the runs: for every library the operations it does  *)
(* something of its own for.                                               *)
EXTENDS Relational

MCRanges == {<<0, 2>>, <<1, 3>>}

MCOps ==
    [d \in Domains |->
        CASE d = "interval" -> {"add", "sub", "slt", "sge", "eq", "ne"}
          [] d = "sign"     -> {"add", "mul", "slt", "sgt", "ne"}
          [] d = "zero"     -> {"sub", "and", "sdiv", "ne", "ugt"}
          [] d = "bitvec"   -> {"sub", "ugt"}
          [] d = "unit"     -> {"add", "sle"}
          [] d = "constant" -> {"add", "sub", "ult", "slt", "trunc"}
          [] d = "trivial"  -> {"add", "eq", "trunc"}
          [] d = "term"     -> {"add", "slt", "eq", "zext"}]

\* Numbers are only compared with 0.
SignNe == [d \in Domains |-> {"ne"}]
=============================================================================
