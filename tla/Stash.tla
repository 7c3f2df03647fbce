------------------------------- MODULE Stash --------------------------------
(***************************************************************************)
(* Abstract values cross a call in the stash: two parallel stacks of the   *)
(* native runtime (stash.hpp, stash.cpp) of which one holds the abstract   *)
(* value and the other its taint.  The code that fills and empties them is *)
(* inserted by the compiler (lartcc/syntactic.cpp) on either side of a     *)
(* call, from what the dataflow analysis says of the arguments there: the  *)
(* two sides are decided separately, and nothing ties them at run time.    *)
(*                                                                         *)
(* A program is its call sites and returns; a run is any sequence of calls *)
(* and returns they allow.                                                 *)
(***************************************************************************)
EXTENDS Integers, Sequences, FiniteSets

CONSTANTS
  Value,       \* abstract values, as pointers to them
  Null,        \* the null pointer
  Function,    \* the functions of the module
  Intrinsic,   \* llvm intrinsics, whose calls have no body to instrument
  Main,        \* where the run starts
  Programs,    \* the programs considered
  StackSize,   \* abstract_stack_size, 256 in the code
  MaxCalls     \* bounds the depth of the calls in a run

\* What the dataflow analysis says of a value: no run makes it abstract, or
\* some run does.
Kind == {"const", "abs"}

\* A call site: who calls, who is called, and the kinds of the actuals.  A
\* function returns through return instructions of the given kinds.
Site == [caller : Function, callee : Function \cup Intrinsic, actual : Seq(Kind)]

Program ==
  {p \in [sites : SUBSET Site, returns : [Function -> SUBSET Kind]] :
     \A s, t \in p.sites :
       s.callee = t.callee => Len(s.actual) = Len(t.actual)}

ASSUME NullAssumption == Null \notin Value
ASSUME MainAssumption == Main \in Function
ASSUME IntrinsicAssumption == Intrinsic \cap Function = {}
ASSUME ProgramsAssumption == Programs \subseteq Program
ASSUME StackSizeAssumption == StackSize \in Nat \ {0}
ASSUME ArityAssumption ==
  \A p \in Programs : \A s \in p.sites : Len(s.actual) <= StackSize

Slot == 0 .. StackSize - 1

\* A concrete value is untainted and has a null abstract part.
Concrete == [taint |-> FALSE, value |-> Null]
Pair == [taint : BOOLEAN, value : Value \cup {Null}]
Given(kind) == {Concrete} \cup IF kind = "abs" THEN [taint : {TRUE}, value : Value] ELSE {}

VARIABLES
  prog,
  calls,            \* the functions called and not yet returned from
  steps,            \* the calls of the runtime around the last call or return
  pc,               \* how many of them were made
  sent,             \* what the last transfer was to hand over, in order
  got,              \* what it handed over
  stash_stack,
  stash_stack_top,
  taint_stack,
  taint_stack_top

stacks == <<stash_stack, stash_stack_top, taint_stack, taint_stack_top>>
vars == <<prog, calls, steps, pc, sent, got, stacks>>

\* A call of the runtime, and the position it is about.
RuntimeCall == [op : {"stash", "stash_taint", "unstash", "unstash_taint"}, at : Nat]

StashTypeOK ==
  /\ prog \in Programs
  /\ calls \in Seq(Function)
  /\ calls # << >>
  /\ steps \in Seq(RuntimeCall)
  /\ pc \in 0 .. Len(steps)
  /\ sent \in Seq(Pair)
  /\ got \in Seq(Pair)
  /\ stash_stack \in [Slot -> Value \cup {Null}]
  /\ taint_stack \in [Slot -> BOOLEAN]
  /\ stash_stack_top \in Slot
  /\ taint_stack_top \in Slot

Init ==
  /\ prog \in Programs
  /\ calls = <<Main>>
  /\ steps = << >>
  /\ pc = 0
  /\ sent = << >>
  /\ got = << >>
  /\ stash_stack = [i \in Slot |-> Null]
  /\ taint_stack = [i \in Slot |-> FALSE]
  /\ stash_stack_top = 0
  /\ taint_stack_top = 0

Current == calls[Len(calls)]

\* The running function executes its own code.
Running == pc = Len(steps)

-----------------------------------------------------------------------------
(***************************************************************************)
(* The stacks.  The tops are eight bits wide and the stacks have as many   *)
(* entries as such a top has values: they are rings.  Each has its own top *)
(* and is pushed and popped by its own calls.                              *)
(***************************************************************************)

Moved(top, n) == (top + n) % StackSize

\* The runtime call in turn is one of op, about the given position.
Turn(op, at) ==
  /\ pc < Len(steps)
  /\ steps[pc + 1] = [op |-> op, at |-> at]
  /\ pc' = pc + 1
  /\ UNCHANGED <<prog, calls, steps, sent>>

\* Faulty variant: the arguments of __lart_stash swapped.
StashSwapped(at) ==
  /\ Turn("stash", at)
  /\ stash_stack' = [stash_stack EXCEPT ![stash_stack_top] = sent[at].taint]
  /\ stash_stack_top' = Moved(stash_stack_top, 1)
  /\ UNCHANGED <<got, taint_stack, taint_stack_top>>

\* stash(), the first half of __lart_stash.
Stash(at) ==
  /\ Turn("stash", at)
  /\ stash_stack' = [stash_stack EXCEPT ![stash_stack_top] = sent[at].value]
  /\ stash_stack_top' = Moved(stash_stack_top, 1)
  /\ UNCHANGED <<got, taint_stack, taint_stack_top>>

\* stash_taint(), the second half.
StashTaint(at) ==
  /\ Turn("stash_taint", at)
  /\ taint_stack' = [taint_stack EXCEPT ![taint_stack_top] = sent[at].taint]
  /\ taint_stack_top' = Moved(taint_stack_top, 1)
  /\ UNCHANGED <<got, stash_stack, stash_stack_top>>

\* __lart_unstash: the slot keeps what it held.
Unstash(at) ==
  /\ Turn("unstash", at)
  /\ stash_stack_top' = Moved(stash_stack_top, -1)
  /\ got' = [got EXCEPT ![at].value = stash_stack[stash_stack_top']]
  /\ UNCHANGED <<stash_stack, taint_stack, taint_stack_top>>

\* __lart_unstash_taint.
UnstashTaint(at) ==
  /\ Turn("unstash_taint", at)
  /\ taint_stack_top' = Moved(taint_stack_top, -1)
  /\ got' = [got EXCEPT ![at].taint = taint_stack[taint_stack_top']]
  /\ UNCHANGED <<stash_stack, stash_stack_top, taint_stack>>

-----------------------------------------------------------------------------
(***************************************************************************)
(* What the compiler decides.                                              *)
(***************************************************************************)

\* has_abstract_arg: the call stashes all its arguments, or none of them.
has_abstract_arg(site) == \E i \in DOMAIN site.actual : site.actual[i] = "abs"

\* The analysis unifies a formal with its actual at every site, so a formal
\* is abstract when some site makes it so; function_has_abstract_arg: then
\* the function unstashes all its arguments, whoever calls it.
function_has_abstract_arg(f) ==
  \E site \in prog.sites : site.callee = f /\ has_abstract_arg(site)

\* A return instruction that is abstract makes the function abstract, and
\* that makes all its calls abstract.
abstract_result(f) == "abs" \in prog.returns[f]

-----------------------------------------------------------------------------
(***************************************************************************)
(* What the compiler inserts.                                              *)
(***************************************************************************)

\* Of two runtime calls in a row the first is about a value, the second about
\* its taint.
Half(k, value, taint) == IF k % 2 = 1 THEN value ELSE taint
Place(k) == (k + 1) \div 2

\* A __lart_stash for each of n values, in order.
Stashes(n) ==
  [k \in 1 .. 2 * n |-> [op |-> Half(k, "stash", "stash_taint"), at |-> Place(k)]]

\* Faulty variant: the first value is fetched first.
UnstashesInOrder(n) ==
  [k \in 1 .. 2 * n |-> [op |-> Half(k, "unstash", "unstash_taint"), at |-> Place(k)]]

\* Faulty variant: each unstash_taint goes behind those of the arguments ahead.
UnstashesTaintsInOrder(n) ==
  [k \in 1 .. 2 * n |->
     [op |-> Half(k, "unstash", "unstash_taint"), at |-> Half(k, n + 1 - Place(k), Place(k))]]

\* The unstash and the unstash_taint of each of n values, the last value first:
\* those of an argument are inserted at the front of the entry block, before
\* the ones of the arguments ahead of it.
Unstashes(n) ==
  [k \in 1 .. 2 * n |->
     [op |-> Half(k, "unstash", "unstash_taint"), at |-> n + 1 - Place(k)]]

\* What is inserted for n values if the condition holds.
If(condition, inserted) == IF condition THEN inserted ELSE << >>

\* A transfer begins: nothing has arrived, n positions wait for it.
Transfer(inserted, n) ==
  /\ steps' = inserted
  /\ pc' = 0
  /\ got' = [i \in 1 .. n |-> Concrete]
  /\ UNCHANGED <<prog, stacks>>

\* The arguments a call at a site may pass.
Arguments(site) ==
  {pairs \in [DOMAIN site.actual -> Pair] :
     \A i \in DOMAIN site.actual : pairs[i] \in Given(site.actual[i])}

\* Faulty variant: only the possibly abstract arguments are stashed.
CallStashingAbstract(site) ==
  /\ Running
  /\ site.caller = Current
  /\ site.callee \in Function
  /\ Len(calls) < MaxCalls
  /\ sent' \in Arguments(site)
  /\ LET n    == Len(site.actual)
         kept == SelectSeq([i \in 1 .. n |-> i], LAMBDA i : site.actual[i] = "abs")
     IN  Transfer([k \in 1 .. 2 * Len(kept) |-> [Stashes(n)[k] EXCEPT !.at = kept[Place(k)]]]
                    \o If(function_has_abstract_arg(site.callee), Unstashes(n)), n)
  /\ calls' = Append(calls, site.callee)

\* The call at a site: what is inserted in front of it, and what the entry
\* block of the callee begins with.  A function without abstract arguments
\* takes them all as concrete.
Call(site) ==
  /\ Running
  /\ site.caller = Current
  /\ site.callee \in Function
  /\ Len(calls) < MaxCalls
  /\ sent' \in Arguments(site)
  /\ LET n == Len(site.actual)
     IN  Transfer(If(has_abstract_arg(site), Stashes(n))
                    \o If(function_has_abstract_arg(site.callee), Unstashes(n)), n)
  /\ calls' = Append(calls, site.callee)

\* The call of an intrinsic: its arguments are stashed like any others, and
\* nobody fetches them.
CallIntrinsic(site) ==
  /\ Running
  /\ site.caller = Current
  /\ site.callee \in Intrinsic
  /\ has_abstract_arg(site)
  /\ sent' \in Arguments(site)
  /\ Transfer(Stashes(Len(site.actual)), 0)
  /\ UNCHANGED calls

\* A return instruction: an abstract one stashes the value, and the call
\* fetches it if the function is abstract.
Return(kind) ==
  /\ Running
  /\ Len(calls) > 1
  /\ kind \in prog.returns[Current]
  /\ LET fetched == IF abstract_result(Current) THEN 1 ELSE 0
     IN  /\ \E pair \in Given(kind) : sent' = [i \in 1 .. fetched |-> pair]
         /\ Transfer(If(kind = "abs", Stashes(1)) \o Unstashes(fetched), fetched)
  /\ calls' = SubSeq(calls, 1, Len(calls) - 1)

\* Two more producers of a stashed value, fetched like a result: __lamp_any and
\* lift hand out an abstract value, and a division whose operands may be
\* tainted hands out an abstract result or a concrete one.
AnyValue(v) ==
  /\ Running
  /\ sent' = <<[taint |-> TRUE, value |-> v]>>
  /\ Transfer(Stashes(1) \o Unstashes(1), 1)
  /\ UNCHANGED calls

Divide ==
  /\ Running
  /\ \E pair \in Given("abs") : sent' = <<pair>>
  /\ Transfer(Stashes(1) \o Unstashes(1), 1)
  /\ UNCHANGED calls

Runtime ==
  \E at \in 1 .. StackSize : Stash(at) \/ StashTaint(at) \/ Unstash(at) \/ UnstashTaint(at)

Next ==
  \/ \E site \in prog.sites : Call(site) \/ CallIntrinsic(site)
  \/ \E kind \in Kind : Return(kind)
  \/ \E v \in Value : AnyValue(v)
  \/ Divide
  \/ Runtime

Spec == Init /\ [][Next]_vars

-----------------------------------------------------------------------------
(***************************************************************************)
(* Properties.                                                             *)
(***************************************************************************)

\* In every program, also where stash and unstash do not match: an operand
\* taken for abstract has an abstract value to work on, because its value and
\* its taint come from the same __lart_stash although separate calls move the
\* two tops and all that is popped was not pushed for it.
TaintedHaveValues ==
  Running => \A i \in DOMAIN got : got[i].taint => got[i].value # Null

\* The programs in which every unstash has its stash: whoever calls a function
\* with abstract arguments has one to pass, no intrinsic is given one, and a
\* function returns abstract values only or none.
Matched ==
  /\ \A site \in prog.sites : site.callee \in Intrinsic => ~has_abstract_arg(site)
  /\ \A site \in prog.sites :
       function_has_abstract_arg(site.callee) => has_abstract_arg(site)
  /\ \A f \in Function : abstract_result(f) => prog.returns[f] = {"abs"}

\* Two values are the same to the abstract program: a concrete value has no
\* abstract part worth looking at.
Same(a, b) == a.taint = b.taint /\ (a.taint => a.value = b.value)

Handed ==
  Running =>
    /\ Len(got) = Len(sent)
    /\ \A i \in DOMAIN got : Same(got[i], sent[i])

\* In a matched program every argument arrives at its own formal, in spite of
\* the last-in first-out order, and every result at its call.
ValuesArrive == Matched => Handed

\* In a matched program nothing is left on the stacks while a function runs
\* its own code: their use is bounded by the arguments of a single call,
\* however deep the calls nest, and 256 entries do not overflow.
NothingLeft == Matched /\ Running => stash_stack_top = 0 /\ taint_stack_top = 0

=============================================================================
