---------------------------- MODULE Exploration -----------------------------
(***************************************************************************)
(* What the native runtime promises of a run whose choices are explored in *)
(* the default (decreasing) order: an exhaustive depth-first enumeration   *)
(* of the program's paths, each at most once and in a fixed order, that a  *)
(* fault ends for good, and that leaves out exactly the paths beyond the   *)
(* bound and the alternatives given up after an abnormal end.              *)
(*                                                                         *)
(* There are no processes here: ForkChoose implements this with fork and   *)
(* wait.                                                                   *)
(***************************************************************************)
EXTENDS ChoiceTree

VARIABLES
  prog,       \* the program, a tree
  config,     \* the runtime's options
  explored,   \* the leaves reached so far, in order
  found,      \* an assertion failed
  finished    \* the first process of the run has ended

vars == <<prog, config, explored, found, finished>>

IsFault(q) == prog[q].op = "fault"

Skipped ==
  UNION {SkippedBy(prog, explored[i],
                   LeafStatus(prog[explored[i]], config.no_fail_mode))
           : i \in 1 .. Len(explored)}

Visited == {explored[i] : i \in 1 .. Len(explored)}

\* The leaves still to be visited if no fault turns up.
Pending ==
  {q \in Leaves(prog) : Admissible(prog, config.choose_bound, q)}
    \ (Visited \cup Skipped)

Init ==
  /\ explored = << >>
  /\ found = FALSE
  /\ finished = FALSE

\* The next path in order runs to its end.  If it was the last one, the run
\* may end in the same step: its process can be the first process itself.
Visit ==
  /\ ~found
  /\ Pending # {}
  /\ explored' = Append(explored, First(Pending))
  /\ found' = IsFault(First(Pending))
  /\ finished' \in BOOLEAN
  /\ finished' => (found' \/ Pending' = {})
  /\ UNCHANGED <<prog, config>>

Finish ==
  /\ ~finished
  /\ found \/ Pending = {}
  /\ finished' = TRUE
  /\ UNCHANGED <<prog, config, explored, found>>

Next == Visit \/ Finish

Spec == Init /\ [][Next]_vars

=============================================================================
