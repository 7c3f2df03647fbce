------------------------------ MODULE MCStash -------------------------------
(***************************************************************************)
(* Programs for checking Stash: those of the tests test/basic/call-*.c and *)
(* what they leave out.                                                    *)
(***************************************************************************)
EXTENDS Stash, TLC

CONSTANTS main, f, g, bswap

At(caller, callee, actual) == [caller |-> caller, callee |-> callee, actual |-> actual]

\* f and g return a value of the given kinds.
Of(sites, ofF, ofG) ==
  [sites |-> sites, returns |-> [h \in Function |-> IF h = f THEN ofF ELSE IF h = g THEN ofG ELSE {}]]

\* Arguments in either place (call-b to call-f), recursion, and a function
\* that never sees an abstract value.
MatchedPrograms ==
  {Of({At(main, f, <<"const", "abs">>), At(main, f, <<"abs", "const">>),
       At(f, f, <<"abs", "abs">>), At(f, g, <<"const">>)}, {"abs"}, {"const"}),
   Of({At(main, f, <<"abs", "abs">>), At(f, g, <<"abs", "const", "abs">>), At(g, f, <<"const", "abs">>)},
      {"const"}, {"abs"})}

\* A function called with a concrete argument here and an abstract one there
\* (call-g), one of whose returns is concrete, and an intrinsic.
MismatchedPrograms ==
  {Of({At(main, f, <<"abs">>), At(main, f, <<"const">>)}, {"abs"}, {"const"}),
   Of({At(main, f, <<"abs">>)}, {"abs", "const"}, {"const"}),
   Of({At(main, f, <<"abs">>), At(main, bswap, <<"abs">>)}, {"const"}, {"const"})}

AllPrograms == MatchedPrograms \cup MismatchedPrograms

Symmetry == Permutations(Value)
=============================================================================
