---------------------------- MODULE MCForkChoose ----------------------------
(***************************************************************************)
(* Programs and options for checking ForkChoose.  Trees are built layer by *)
(* layer: every tree of the lower layer below every value of a choice.     *)
(***************************************************************************)
EXTENDS ForkChoose

Leaf(operation, argument) == [q \in {<< >>} |-> Do(operation, argument)]

\* The choice whose value v leads to tree sub[v + 1].
Branch(sub) ==
  LET n == Len(sub)
      paths == {<< >>} \cup UNION {{<<v>> \o q : q \in DOMAIN sub[v + 1]} : v \in 0 .. n - 1}
  IN  [q \in paths |->
         IF q = << >> THEN Do("choose", n) ELSE sub[q[1] + 1][Tail(q)]]

Trees(sub, n) == {Branch(s) : s \in [1 .. n -> sub]}

Joined(left, right) ==
  {Branch(<<l, r>>) : l \in left, r \in right}

\* Ends of a path the exploration tells apart: a quiet end, a nonzero exit
\* code, one whose low byte is 0, a failed assertion, a fatal signal.
Ok == Leaf("exit", 0)
Ends == {Ok, Leaf("exit", 1), Leaf("exit", 256), Leaf("fault", 1), Leaf("signal", 11)}

FewEnds == {Ok, Leaf("exit", 1), Leaf("fault", 1), Leaf("signal", 11)}

Short == Trees(FewEnds, 2)

\* Every end there is, on either side of a choice.
AllEnds == Ends \cup {Leaf("cancel", 0), Leaf("abort", 0), Leaf("fault", 0), Leaf("fail", 0)}

\* Three choices in a row, with other ends or short trees beside them: an
\* abnormal end has two ancestors to reach and one more to spare.
Deep ==
  LET two == Joined(Short, FewEnds) \cup Joined({Ok}, Short)
  IN  Joined(two, {Ok, Leaf("fault", 1)}) \cup Joined({Ok}, two)

Wide == Trees(Ends \cup {Branch(<<Ok, Ok>>), Branch(<<Ok>>)}, 3)

DecPrograms == AllEnds \cup Trees(AllEnds, 2) \cup Short \cup Deep \cup Wide

Option(bound, inc, traced, ask, noFail) ==
  [choose_bound |-> bound, choose_increasing |-> inc, trace_choices |-> traced,
   ask_choices |-> ask, no_fail_mode |-> noFail]

\* Decreasing order, without and with a bound.
DecConfigs ==
  {Option(0, FALSE, TRUE, FALSE, FALSE), Option(0, FALSE, TRUE, FALSE, TRUE),
   Option(1, FALSE, TRUE, FALSE, FALSE), Option(2, FALSE, TRUE, FALSE, FALSE)}

\* Programs without abnormal ends, for what a run must cover.
QuietPrograms ==
  {Branch(<<Ok, Ok>>), Branch(<<Ok, Ok, Ok>>)} \cup Joined({Ok, Branch(<<Ok, Ok>>)}, {Ok, Branch(<<Ok, Ok>>)})

IncConfigs == {Option(0, TRUE, TRUE, FALSE, FALSE)}

\* For the increasing and the interactive mode, for failing forks, and for
\* faults that end with status 0.
ModePrograms ==
  Ends \cup Joined(Short, FewEnds) \cup Joined({Ok, Branch(<<Ok>>)}, Short)
    \cup Trees(FewEnds, 3) \cup Deep

ModeConfigs ==
  {Option(bound, inc, TRUE, ask, noFail) :
     bound \in {0, 1}, inc \in BOOLEAN, ask \in BOOLEAN, noFail \in BOOLEAN}

Symmetry == Permutations(Pid \ {Root})
=============================================================================
