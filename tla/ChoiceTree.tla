----------------------------- MODULE ChoiceTree -----------------------------
(***************************************************************************)
(* The program under test, seen from the native runtime: its run is a      *)
(* function of the values that __lart_choose returned so far, so a program *)
(* is a decision tree.  A tree is a function from paths (sequences of      *)
(* choice results) to the next thing the program does: a record with the   *)
(* operation op and its argument arg.                                      *)
(*                                                                         *)
(*   choose n   calls __lart_choose( n )                                   *)
(*   exit c     returns from main, or calls exit, with code c              *)
(*   cancel     calls __lart_cancel (lart.cpp)                             *)
(*   abort      raises SIGABRT, which the fault handler intercepts         *)
(*   fault r    fails an assertion; r = 1 when it is a reach_error         *)
(*   fail       calls mixin::fail: "[lamp fail] unsupported" and a trap    *)
(*   signal s   dies of signal s without printing anything                 *)
(***************************************************************************)
EXTENDS Integers, Sequences, FiniteSets, FiniteSetsExt

Ops == {"choose", "exit", "cancel", "abort", "fault", "fail", "signal"}

Node == [op : Ops, arg : Nat]

Do(operation, argument) == [op |-> operation, arg |-> argument]

\* A tree that the program may be: defined on the root, on every answer to
\* each of its choices, and nowhere else.
IsTree(f) ==
  /\ DOMAIN f \subseteq Seq(Nat)
  /\ << >> \in DOMAIN f
  /\ \A q \in DOMAIN f : \A i \in 1 .. Len(q) :
       /\ SubSeq(q, 1, i - 1) \in DOMAIN f
       /\ f[SubSeq(q, 1, i - 1)].op = "choose"
       /\ q[i] < f[SubSeq(q, 1, i - 1)].arg
  /\ \A q \in DOMAIN f :
       /\ f[q] \in Node
       /\ f[q].op = "choose" =>
            /\ f[q].arg > 0
            /\ \A v \in 0 .. f[q].arg - 1 : Append(q, v) \in DOMAIN f
       /\ f[q].op = "signal" => f[q].arg \in 1 .. 127

Leaves(f) == {q \in DOMAIN f : f[q].op # "choose"}

\* The arity of the choice that element i of path q answers.
Arity(f, q, i) == f[SubSeq(q, 1, i - 1)].arg

-----------------------------------------------------------------------------
(***************************************************************************)
(* The order of the exploration: a choice tries its highest value first.   *)
(***************************************************************************)

Precedes(a, b) ==
  \E i \in 1 .. Len(a) :
    /\ i <= Len(b)
    /\ SubSeq(a, 1, i - 1) = SubSeq(b, 1, i - 1)
    /\ a[i] > b[i]

First(S) == CHOOSE q \in S : \A r \in S \ {q} : Precedes(q, r)

-----------------------------------------------------------------------------
(***************************************************************************)
(* What a bound prunes.  Result r of choose( n ) unwinds n - r activations *)
(* of choose, and each of them increments depth.                           *)
(***************************************************************************)

DepthBefore(f, q, i) ==
  LET sum[j \in 0 .. i - 1] ==
        IF j = 0 THEN 0 ELSE sum[j - 1] + Arity(f, q, j) - q[j]
  IN  sum[i - 1]

DepthOf(f, q) == DepthBefore(f, q, Len(q) + 1)

\* Once the bound is reached a choice offers its highest value only: the
\* test stands behind the exploration of the first child.
Admissible(f, bound, q) ==
  bound > 0 =>
    \A i \in 1 .. Len(q) :
      DepthBefore(f, q, i) >= bound => q[i] = Arity(f, q, i) - 1

-----------------------------------------------------------------------------
(***************************************************************************)
(* What an abnormal end prunes.                                            *)
(***************************************************************************)

\* The exit handed to wait(): only the low byte of the code survives, in the
\* second byte of the status word.
ExitStatus(code) == 256 * (code % 256)

SIGILL == 4

\* The wait status a process leaves at a leaf.
LeafStatus(node, noFail) ==
  CASE node.op = "exit"   -> ExitStatus(node.arg)
    [] node.op = "fault"  -> IF noFail THEN 0 ELSE ExitStatus(1)
    [] node.op = "signal" -> node.arg
    [] node.op = "fail"   -> SIGILL
    [] OTHER              -> 0

\* How many ancestors in a row see a nonzero status: each of them exits with
\* the status word it read, whose low byte is 0 after an exit and the signal
\* number after a signal.
StatusReach(status) ==
  CASE status = 0                           -> 0
    [] status # 0 /\ status % 256 = 0       -> 1
    [] status # 0 /\ status % 256 # 0       -> 2

\* The positions of q where its process, or an ancestor of it, was forked.
\* The lowest value is taken by the process that forked the others.
ForkPoints(q) == {i \in 1 .. Len(q) : q[i] > 0}

\* The nearest k fork points of q, counted from its end.
NearestForks(q, k) ==
  {i \in ForkPoints(q) : Cardinality({j \in ForkPoints(q) : j > i}) < k}

\* The leaves nobody visits once leaf q ended with that status: the lower
\* values of the choices where an ancestor gave up.
SkippedBy(f, q, status) ==
  {r \in Leaves(f) :
     \E i \in NearestForks(q, StatusReach(status)) :
       /\ Len(r) >= i
       /\ SubSeq(r, 1, i - 1) = SubSeq(q, 1, i - 1)
       /\ r[i] < q[i]}

=============================================================================
