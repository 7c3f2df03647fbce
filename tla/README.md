# A verification development for LART

LART turns a program into one that computes with *abstract values*: the
compiler (`lartcc`) finds the instructions that may see such a value and puts
calls next to them; the bridge (`lamp`) and the domains (`lava`) compute; and
a small native runtime carries abstract values through memory and calls,
answers nondeterministic choices by `fork`, and reports failed assertions.
This directory holds TLA+ modules of LART's logic, TLC configurations that
check them on small instances, and TLAPS proofs of the most important results
for all instances.

## Inventory

| part | state it keeps | operations | how it interacts | what is hard | correct when |
|---|---|---|---|---|---|
| choice and fork runtime (`runtime/native/choose.cpp`, `fault.cpp`, `lart.cpp`, `config.cpp`, `trace.hpp`) | `depth`, `trace` per process; `config` in a shared mapping | `__lart_choose`, `__lart_cancel`, `__assert_fail`, the SIGABRT handler | called by the program and by the domains; processes meet in `wait`, on `stderr` and in `config->error_found` | a recursion that is spread over processes; status words; failing forks | a depth-first enumeration of all paths within the bound; ends; stops at an error |
| stash (`stash.hpp`, `stash.cpp`, placement in `lartcc/syntactic.cpp`) | two rings of 256 entries with 8-bit tops | stash and unstash of a value and of its taint | the compiler inserts both sides of a transfer separately | nothing at run time ties a pop to its push | every value arrives at its own formal or call |
| shadow memory (`runtime/native/shadow.cpp`, `freeze` and `melt` of `lamp/wrapper.hpp`) | byte -> label, label -> value, a list of bytes per frame | poke, peek, taint test, frame entry and exit | instrumented loads, stores, entries and returns | overlapping accesses of different sizes; lifetimes | labels agree with what was stored; none outlives its byte |
| dataflow analysis (`lartcc/dfa.cpp`) | worklist, value -> type onion | push, process, join, peel, wrap | starts from the roots, asks SVF for aliases | order independence, termination | the least fixed point of the edges |
| instrumentation (`lartcc/syntactic.cpp`, `shadow.cpp`, `taint.cpp`, `lifter.cpp`, `backend/native`) | `abstract`, `places`, `identity`, `ops` | one intrinsic per operation, placeholders filled later | consumes the onions, feeds the lowering | operations come in hash order | no placeholder remains, each user sees its operand |
| lamp (`lamp/wrapper.hpp`, `support`) | none | `__lamp_*` | between instrumented code and a domain | dispatch between domains | the operation of the right domain |
| lava (`lava/include/lava`) | values, with the operation and operands they came from; for terms a solver | forward and backward operators | choose, cancel | case splits, boundaries, narrowing shared operands in place | every concrete result is contained, no concrete case lost |
| containers (`runtime/include/runtime/map.hpp`) | a sorted vector | insert, emplace, erase, find | the pointer domain | order after erase | a set, a map |
| SV-COMP wrapper (`scripts/svcomp`) | a work directory, a report | compile, run, read the report, build a witness | starts the compiler and the abstracted binary | exit status ignored, lines of many processes in one file | "true" only after a full exploration |

Not logic of the tool: build files, ports, presentations, the test harness, the
benchmark container. SVF, Z3, CVC5, LLVM and the library `sc` are external.

`PROJECT.json` has the same list with sources, the hazards of the code, each at
its line, and for every definition the lines it stands for.

## Modules

| module | what it is |
|---|---|
| `ChoiceTree` | the program under test, a tree of choices; order of paths, what a bound and an abnormal end prune |
| `Exploration` | the abstract specification of a run: depth-first, no processes |
| `ForkChoose` | the runtime: processes, `fork`, `wait`, `check_terminate`, the ends of a path |
| `ForkChoose_proofs` | theorems about it |
| `Exploration_proofs` | `ForkChoose` implements `Exploration`, and runs every path |
| `SvcompVerdict` | the SV-COMP wrapper around `ForkChoose` |
| `SvcompVerdict_proofs` | its answers are true |
| `Stash` | the stash, its rings and the inserted code |
| `Stash_proofs` | theorems about it |
| `ShadowMemory` | shadow memory, `freeze` and `melt` |
| `ShadowMemory_proofs` | theorems about it |
| `Onion` | the types of the data-flow analysis and their join |
| `Dataflow` | the analysis: roots, edges, queue, and the preprocessing of functions in the middle of it |
| `Dataflow_proofs` | theorems about it: types, and that it ends with the least solution |
| `Instrument` | the rest of the compiler, from pointer arithmetic to the lowering, on top of `Dataflow` |
| `Instrument_proofs` | theorems about it: types, and how operands are linked to abstract values |
| `LavaTristate`, `SignDomain`, `ZeroDomain`, `IntervalDomain`, `IntervalBackward` | the operators of the finite and the interval domains |
| `LampDomain` | what each lamp library answers to a call |
| `Relational` | a program that calls one library, beside the concrete run it stands for: history, tags, propagation, forks |
| `Relational_proofs` | theorems about it: types, that what a branch teaches only narrows, and that no library but intervals loses the concrete run |
| `MC...` | programs, options, layouts and references for TLC |

Each module puts *faulty variants* of some operators before the operator they
could replace (`ForkNoWait` before `Fork`): plausible bugs of the code there.
`PROJECT.json` pairs every property with the variant that breaks it. They are
not used by any specification.

`map` in `PROJECT.json` has no entry for helpers that take an operator as a
parameter (`Then`, `Typed`, `Rewrite` ...): the definitions that use
them have the lines.

### ForkChoose

A program is a function of the answers to its choices, so it is a tree, whose
nodes say what the program does next (`ChoiceTree`). A process is a slot of
`Pid`. `fork_choose_dec` recurses through `choose`, `fork_choose_inc` loops; in
both the state of a choice that is being answered is (`want`, `cnt`), the count
asked for and the values left. The actions follow the code's blocking points:
`CallChoose`, `Fork` (or `ForkFails`, when no slot is free: the result -1 is
not tested and `status` stays uninitialised), `Wait`, one of `ExitOnStatus`,
`ExitOnError`, `ExitOnBound` and `NextValue` for `check_terminate`,
`ReturnLast`. `Return` does what the unwinding of the recursion does: it pushes
the result once per activation and increments `depth` as often. The ends of a
path are `ExitProgram`, `Cancel`, `Abort`, `Fault`, `Fail` and `Crash`.
`status` holds real wait words: an exit code in the second byte, of which eight
bits survive, or a signal number in the first.

`report` is the set of kinds of lines on `stderr`, `explored` the history of
finished paths.

`Exploration` has no processes: it visits the first pending path in order. A
path is pending when the bound admits it, it was not visited, and no abnormal
end before it made an ancestor give up. `RefinesExploration` is the claim that
the processes implement this.

### SvcompVerdict

Adds the wrapper's `phase` and `verdict` to `ForkChoose`. It compiles, runs the
binary to the end of its first process and turns the lines of the report into
an answer.

### Stash

A program is a set of call sites, each with a kind (`"const"` or `"abs"`) for
every actual, and the kinds of the return instructions of each function; a run
is any sequence of calls and returns these allow. The two rings are those of
the runtime, each with a top of its own, taken modulo the size; `Stash`,
`StashTaint`, `Unstash` and `UnstashTaint` are the runtime's calls and move one
value or one taint each. `Call` and `Return` begin a transfer: they put into
`steps` the runtime calls that the compiler inserts on both sides, those of the
caller before the call and those of the callee's entry, or those before the
return and behind the call, and `pc` says how many of them were made.
`CallIntrinsic`, `AnyValue` and `Divide` are the other producers of stashed
values. `sent` and `got` are history: what the last transfer was to hand over,
and what it did.

`TaintedHaveValues` is claimed of every program: whatever an unstash finds, a
tainted operand has an abstract value to work on. That rests on the order of
the separate calls on both sides of all transfers there were. That values
arrive and the stacks drain is stated for *matched* programs, where each
unstash has its stash by the analysis's own decisions. In the others an unstash
may read what an older transfer left: nothing clears a slot (`stash.hpp:43`).

### ShadowMemory

`shadow`, `shadow_info`, `frames` and `allocated` are the runtime's maps.
`memory` is not in the code: it records what the program's own stores mean,
byte by byte, and is what the labels must agree with. `Freeze` is an
instrumented store, `Load` the taint test followed by `melt`, which walks over
labels the way `read_shadow_label` and `peek` do.

### Onion and Dataflow

A program is a record: every value has a kind, a function, operands and the
nesting of its type; points-to sets are part of the program, as SVF answers
them. `types` is the type map, in which a missing value has the type of its
LLVM type, `worklist` the queue of edges. `Process` joins an edge's onion
into its target and, if that changed, pushes what the target induces:
`InducedEdges` is the `switch` over kinds of users, with loads peeling and
stores wrapping. The first push of a value of a function preprocesses it, so
selects and comparisons are rewritten (`Prepare`) while edges of other
functions wait in the queue. The queue is first in, first out; roots are added
and the uses of a value pushed in every order, as neither has one to rely on.
The roots are gathered before the analysis changes anything (`toAdd`), as
`gather_roots` does. `WellFormed` lists what the analysis takes from LLVM and
SVF without a test: operands are of the same function, calls have no more
arguments than parameters, points-to sets have allocations and globals only.
`Supportable` says of which programs the analysis has a rule for every user:
`EdgesSupported` is about those, as all programs of the runs are.

`LeastFixpoint` compares the result with `Reference`, a round-based solution
of the same equations over the whole preprocessed program. `FlowCovered` does
not use onions or edges at all: `Flow` says where an abstract value may go when
the program runs, through memory by objects.

### Instrument

`stage` is the loop of the driver that runs and `todo` what it has not visited:
`LowerGeps`, `Unstash`, `Shadows`, `ProcessType`, `Stores` and `ProcessStore`,
`Branches` and `ProcessBranch`, `Transfers`, `Lower`, in the driver's order.
The visits of one loop come in any order, as those of the code's hash tables
do. `abstract` and `identity` are the maps of the syntactic pass, `shadows` the
one of the shadow pass, where a taint is the set of sources it is the
disjunction of. `intrs` holds every intrinsic with its operands: for each the
concrete value, the taint and the abstract value, which is `Null` as long as it
is a placeholder. `Become` is what the code does when an operation gets its
intrinsic: it enters `abstract` and fills the placeholders that wait for it,
along the chain of casts in `identity`. `redirected` says which uses were
turned over to the result of the intrinsic. Instructions that the lowering of
pointer arithmetic makes are in the program from the start, as `"unborn"`
values that `newgep` names (`Lowerable`); kinds have the operands LLVM gives
them, and branches without a condition are left out (`Operated`).

`PlaceholdersFilled` and `AbstractOnce` say that the order of the visits does
not show in the maps: an operand is linked as soon as its value has an abstract
value, and what it was linked to stays.

What the result means is stated over *valuations*: a set of sources of taint
that are tainted when the program runs. `TakesAbstractPath` is the test of the
generated function, `Receives` what an operand then is: abstract, lifted from
the concrete value, or null.

### The domains: LavaTristate ... LampDomain, Relational

The tables of `sign.hpp` and `zero.hpp` are functions; intervals are pairs of
bounds with infinities, as `bound` is. Backward operators (`IntervalBackward`)
take a fork and return the set of forks it may become:
`__lart_choose` is one of them for each answer, `__lart_cancel` is none, and a
count below 1, as it is when it wraps, is a fork that is `"stuck"`. The library
`zero` is modelled from its source, although `lamp/CMakeLists.txt:18-19` has it
commented out.

`Relational` runs a program that makes numbers with `__lamp_any` and its
variants, computes, compares and branches on every comparison. `con` is the
concrete run, in machine numbers; `forks` the processes that have branched the
same way, each with its abstract values. `Make` is a call, `Branch` is
`__lamp_to_bool`, the branch and `__lamp_assume`, whose `BackwardPropagate`
walks the history in the order the code does. `assume` and the operators of
intervals write through the storage they share with the operand, so it is
narrowed in place. The operators of signs for `!=` and `>` do not: when the
comparison came true they assign to a reference of their own, which deletes the
storage of the left operand and narrows nothing (`sign.hpp:382, 391`,
`storage.hpp:109`, `base.hpp:48`). Such a value is `Freed` (`SignDeletes`,
`DeleteLeft`), and a fork that reads or deletes it again is `"wild"`: it may do
anything from there on. `Covered` is the soundness of the whole: there is a fork
whose values mean the numbers of the concrete run, or one that failed in the
open.

With `Strict`, only calls are made that a library answers soundly (`Sound`, and
the constraints in `Lift`, `Operate` and `Cast`). What is excluded is a list of
what the code gets wrong or leaves out, each read from the source:

* intervals and signs do not know the width of a number (`interval.hpp:166`),
  so nothing may overflow, and numbers are lifted unsigned
  (`wrapper.hpp:139-162`), so only numbers below the sign bit are;
* `bop_add` and `bop_sub` of intervals assume different operands and finite
  bounds (`interval.hpp:205-247`), and `bop_mul` misses a semicolon
  (`interval.hpp:302-313`);
* the split of an equality never tries the highest common value
  (`interval.hpp:330-340`), so one side has to be a lifted number; that of an
  order wraps when both sides are unbounded (`interval.hpp:355-374`): without
  `Strict`, TLC finds that `x > x` with `x` unbounded loses all executions;
* division by an interval that has 0, bit operations of intervals, which end
  the path (`interval.hpp:186-188`), and their casts;
* `!=` and `>` of signs where they come true, which deletes the left operand
  (without `Strict` this is the run `relational_freed`). A value that is only
  known to be other than 0 would come from that difference alone, which leaks,
  so that no live value is `Nez`: the entry of the sum of a positive number and
  such a one, which says positive (`sign.hpp:168`), is never looked up;
* the product of `zero` looks its answer up in the table of the sum
  (`zero.hpp:203`);
* the extensions of constants and their fits keep the old width.

The bounds of ranges are unsigned, too (`wrapper.hpp:184-187`), and for
intervals and signs below the sign bit (`Fits`). A domain without an operation ends the process in the open, which
`Covered` accepts; so does a division by zero in `zero`.

## Runs

| run | question | outcome |
|---|---|---|
| `explore` | is a run in the default order a depth-first enumeration that leaves nothing out, and do the processes form a chain with one runner? | holds |
| `modes` | does every process above a fault stop, also where only the flag says so, in the increasing and interactive modes, without the fail mode and with failing forks, and do runs end? | holds |
| `verdict` | are the wrapper's answers true? | holds for programs whose every end prints or exits with 0 |
| `stash` | has every tainted operand a value, does every value arrive, and do the stacks drain? | the first holds for all programs, the others for matched ones |
| `shadow` | do labels agree with memory and do whole values come back? | holds |
| `compile` | are edges never forgotten (`Saturated`) and the types the least solution, is every placeholder filled and does every abstract operand arrive with its taint, is every branch decided, and does the compiler end, in any order? | holds, for what is listed under the bounds |
| `relational` | does a fork cover the concrete run, and do branches narrow and decide? | holds for the calls of `Sound` |
| `explore_inc` | does the increasing order run every path? | violated: every child gets the highest value (`choose.cpp:64`) |
| `verdict_silent` | are the answers true when a path exits with a nonzero code? | violated: branches are given up silently (`choose.cpp:31`, `runner.py:171`) |
| `shadow_callee` | does an output argument stay abstract, as `test/basic/call-h.c` expects? | violated: the callee's frame owns the label (`shadow.cpp:85`) |
| `compile_uses` | do all uses of a division get the result of its intrinsic, as `syntactic.cpp:358` says? | violated in `x / k + 1`, where the sum and its intrinsic use the quotient: the loop over uses ends at the first it moves (`syntactic.cpp:362`) |
| `relational_freed` | does a value still stand for its number after a branch found it to be other than 0? | violated: its storage is deleted (`sign.hpp:391`) |

### Bounds, and why they are enough

* `explore`: every tree with two and three levels of binary choices over four
  kinds of ends, ternary choices with all five ends, a bound of 0, 1 or 2, with
  and without the no-fail mode. An abnormal end reaches at most two ancestors,
  and the deep trees have three. Four process slots are enough for the deepest
  chain, so that no fork fails here.
* `modes`: three slots and trees of up to three choices, so that forks fail; the
  uninitialised word is 0, a signal or an exit. A fault ends with status 0 in
  the no-fail mode, and then nothing but the flag `error_found` stops its parent
  and the parent of that (`choose.cpp:34`). Without the test of the flag
  `ErrorStops` is violated, which is one of the mutants.
* `verdict`: the bounds 1 (reached) and 4 (never reached, as the wrapper's 100
  is not by most programs).
* `stash`: rings of four entries where the code has 256, so that wrapping and
  drifting occur within a few calls; calls nest up to `MaxCalls` = 5, two
  abstract values.
* `shadow`: four bytes of `main`, two of a callee and one global; accesses of
  1, 2 and 4 bytes at aligned addresses; two abstract stores per run
  (`MaxLabels`), any number of concrete ones, any number of calls up to
  `MaxDepth`. Two labels make every overlap of two accesses. The same
  properties were checked once with three labels.

* `compile`: seven programs, written as code without optimisation has them: a
  counter in memory, recursive calls with a select and a returned comparison,
  a pointer in memory, an abstract pointer that goes through an integer, a
  quotient, a transfer with a concrete parameter, and pointer arithmetic; and
  every well-typed program of one abstract number, two objects and two phis,
  loads or stores (476 of them), which has every meeting of two edges of
  different nesting. All orders of roots, uses and visits.
* `relational`: numbers of 3 bits and twice that, two unknown numbers, four
  values and two branches per program: two branches on one operand make a
  narrowing meet an earlier one, and four values are two operands, a result and
  what it is compared with. `ChooseBound` = 3 is the code's limit of 200 on
  splits, which both sides of are met, and `MaxBound` = 31 the greatest of the
  bound type: bounds saturate there and counts wrap. `relational_freed` has one
  unknown, four values, one branch and comparisons with 0 only.

`compile` makes no claim of some programs. A phi has a taint and no abstract
value (`syntactic.cpp:288-313`), and of two casts that change nothing of one
value only the last is remembered (`syntactic.cpp:283`): operands that come
from these are left out of `OperandsLinked` (`Unlinked`). A load through an
abstract pointer gets no taint (a TODO at `shadow.cpp:198-201`), and what is
computed from it is left out too (`FromAbstractLoad`). Phis that form a cycle
make the shadow pass recurse without an end, which is the stage `"overflow"`.
A call with an abstract argument and a concrete result is forwarded the taints
of its arguments and has no abstract value (`shadow.cpp:81, 166`): an operation
on the result is tainted and gets null. No program of the run has such a call.
Programs in which an erased division keeps a use are the matter of
`compile_uses`. No program
has a `memcpy` or another function ignored by name, an index that a cast at the
gep displaces, or a call of an external function with an abstract argument.

Symmetry is used over process slots other than the root and over abstract
values, which nothing compares, and only in runs without liveness.

### Fairness

`Terminates` and `VerdictGiven` assume weak fairness of the steps of each
process, which an operating system's scheduler gives to runnable processes; a
step of a process blocked in `wait` is enabled once its child has ended, and
stays so. `VerdictGiven` also assumes that the wrapper, a sequential script,
takes its steps. Programs are finite trees: nothing is claimed of a program
that loops.

`Terminates` of `Instrument` assumes weak fairness of the compiler's next step:
it is one sequential program, and all its loops are among the steps.

## Proofs

`ForkChoose_proofs` proves, for any set of process slots (a finite one is not
assumed), any set of trees, any options and any content of an uninitialised
word:

* `TypeCorrect`: `Spec => []TypeOK`. `TypeOK` includes `AtNode`: every process
  stands at a node of the tree, and the choice it answers is the one at that
  node. This part is what makes the type invariant inductive: `Return` extends
  a path with a value that the tree must have.
* `OneRunnerAlways` and `EveryoneAwaitedAlways`. Neither is inductive. The
  strengthening is `Chain`: there is a single active process; parents of live
  processes other than the root are waiting and no two have the same parent;
  and every waiting process has a child. A step of the runner either keeps it
  the runner, makes a fresh child the runner while it blocks, or ends it;
  a step of `Wait` frees the ended child and makes its parent the runner.
* `ErrorStopsAlways`: after a fault no process is started and no path ends.
  It needs that the only process that could do so is the one that failed
  the assertion, which is `Chain` again, with the fact that after an error the
  runner is a zombie or in `check_terminate`.
* `ChildOnBranchAlways`. Its invariant is `Branches`, for live processes: of two
  of them one stands on a path that the other's extends (`Linear`), the first
  process stands above all (`RootFirst`), the parent of a process is the
  nearest one above it (`Nearest`), and in decreasing order a child's next
  answer behind its parent's path is the value the parent handed out last
  (`Forked`).
* `DepthCountsActivationsAlways`: inductive by itself, once it is known how
  `DepthOf` grows with a path (`DepthOfAppend`).

`Exploration_proofs` proves that the processes implement the enumeration:

* `RefinesWithEnoughSlots`: `Spec /\ Decreasing /\ EnoughSlots =>
  RefinesExploration`. `Decreasing` is the default order of the values. The
  increasing one is not depth-first, and with a failing fork nothing is
  promised. The abstract run has `Pending`, the leaves not yet visited or
  skipped; the processes have `ToCome`, the leaves that each has still to hand
  out. The invariant is the equation of the two (`SamePending`): the leaves to
  come of processes that will not give up (`Open`), as far as the bound admits
  them (`Remaining`), are the pending ones. A step that ends no path moves
  leaves between processes: a fork shares them out between parent and child, an
  exit at the bound drops what was not admissible. A step that ends a path
  takes out that leaf, which is the first in order because the runner is the
  lowest process (`LeafIsFirst`), and the leaves of the ancestors that will
  give up on its status, which are the abstract run's `Skipped`
  (`SkippedAreGivenUp`): a process that exits on the status of its child passes
  a word of which the low byte survives, so an abnormal end reaches two
  ancestors and no more. `Allowed` says that no process stands where the bound
  would not let it.
* `SlotFreeAlways`: `EnoughSlots` says that there are more slots than choices
  on any path. Then no fork fails: the live processes stand at different heights
  on one branch, so a full table would need a longer path than the tree has.
* `EveryPathExploredAlways`: without a bound and without abnormal ends every
  path is run. It adds `History`, what `explored`, `error_found` and `report`
  say of each other, and `SameOpen`, that without a bounded exit the open leaves
  are those neither visited nor skipped.

The hypotheses are those of the run `explore`, whose trees have three choices
on a path and whose four slots satisfy `EnoughSlots`, as those of `verdict` do.

`SvcompVerdict_proofs` proves of the wrapper, for any bound and programs:

* `WrapperTypeCorrect`.
* `FaultReportedAlways`, in any mode and when forks fail: from `History` and
  `Answered`, that an answer is a function of the report of a run that is over.
* `VerdictSoundAlways`: with `Decreasing`, `EnoughSlots` and `EndsShow`, that
  every abnormal end of the program prints something. Without the last the
  answer can be wrong, which is the run `verdict_silent`. If the report has no
  bounded exit, `SameOpen` says that at the end nothing was left out.

Induction. The set forms `LeastNumber`, `Climb` and `Descend` are proved once
from the well-foundedness of the order of numbers and stand for induction over
naturals, as the prover does not instantiate the induction rules that take an
operator. Recursive functions (`DepthOf`, the walk of `melt`) are shown to exist
by tables that are extended by one entry.

`Stash_proofs` proves, for any programs and values, any depth of calls and any
size of the rings that fits the arguments of one call (`ArityAssumption`):

* `StashTypeCorrect` and `TaintedHaveValuesAlways`, for matched programs and
  others. The type invariant is carried by `Coupled`: the runtime calls that the
  compiler inserts come in pairs, one about a value and one about the taint of
  the same value. The invariant behind the second is `Together`. Between two
  pairs both tops are at the same place and every slot that holds a taint holds
  a value, whoever filled it; after the first call of a pair one top is ahead
  by one, and the slot, or the position that waits, is the only one of which
  this is not known. A transfer that pops what was not pushed for it, or leaves
  what was, keeps this, as it does so on both rings alike.
* `ValuesArriveAlways` and `NothingLeftAlways`, for matched programs. Neither is
  inductive. The strengthening is `Transit`: a function runs with both tops at
  the start (`Idle`), or values are handed over (`Handing`): what was inserted
  is, as the program is matched, a stash of each value and then an unstash of
  each (`Both`), and after any number of these calls each ring holds, from its
  start, as many of `sent` as were pushed and not yet popped (`Values`,
  `Taints`), while those popped have arrived. This holds also when the arguments
  fill the ring and the top is back at 0 (`PushPop`, `PopPush`).

`ShadowMemory_proofs` proves, for any layout of memory, any sizes of accesses
and any depth of calls:

* `ShadowTypeCorrect`, `RecordedOnceAlways` and `NoStaleTaintAlways`. Their
  invariant is `Ownership`. To types and `RecordedOnce` it adds `RecordedBelow`:
  a byte recorded by a frame belongs to the function of that frame or to one
  below it. Without it a returning function could leave a label of its own
  bytes in the list of a caller.
* `ShadowAgreesAlways`, inductive relative to `Ownership`: a store relabels the
  bytes it covers and no others, also when it cuts values that were there.
* `WholeLoadsExactAlways`, from `ShadowAgrees` and the meaning of `melt`: its walk
  over the labels of a load goes from value to value, so at a load of whole
  values, also truncated or mixed with concrete bytes, it has collected what
  the bytes stand for (by induction over the bytes). `LabelInRange` adds to the
  types that a byte with a label is one of those stored under it.

`Dataflow_proofs` proves of the analysis by itself (`DfaSpec`), for any
well-formed program, any roots and any order of roots, edges and uses:

* Joining. `Under` compares onions layer by layer from the last; `UnderOrder`
  says that it is an order, `JoinIsLeast` that the join of two onions is the
  least onion above both, and `CarryIs` that what an edge carries grows with the
  type it comes from, also when it is peeled or wrapped. Joins are thus
  commutative and associative although onions of different depth lose layers.
* Preprocessing. `PrepareKeeps` says what the lowering of selects and
  comparisons of one function leaves alone: a program stays well-formed, and the
  edges of values of other functions stay what they were if their users are
  supported.
* `DfaTypeCorrect` and `SaturatedAlways`, from the invariant `DfaInv`: edges in
  the queue leave values that have a type of their own and are edges of the
  program as it is now (`Queued`); the functions of such values are preprocessed
  (`Entered`), so that later preprocessing cannot change their edges; what these
  edges carry has arrived or they are in the queue (`Closed`); and as long as
  roots are added no edge was processed (`Fresh`). The last is needed because
  the type of a root is set and not joined: if something had flowed to a root,
  it would be lost.
* `LeastSolution`: when the queue is empty, the types are a solution of the
  equations of the program as it is then, and the least one. So they do not
  depend on the order of edges, roots or preprocessing. `LeastInv` says that in
  every state no type is above any solution of the equations of the values that
  changed so far.
* `EdgesSupportedAlways`: no user of an unsupported kind is met in programs
  that are `Supportable`: their users have rules, or are selects of values of
  their own function and of constants. A select is gone before its edges are
  asked for, because its function is preprocessed when the first of the values
  it selects from is pushed; a global may be pushed before, and then a select of
  it is met. `SupportInv` is the invariant.

The only assumption is `WellFormed` of the programs (`ProgramsAssumption`),
which TLC evaluates for the programs of the runs. Nothing else is claimed of a
run that met a user of an unsupported kind (`failed`), where the code is at
`llvm_unreachable` (`dfa.cpp:235-239`). The runs check the same properties under `CompileSpec`,
where the analysis is the first stage.

`Instrument_proofs` proves of the whole compiler (`CompileSpec`), for any
well-formed program and any order in which the loops visit values. `Operated`
and `Lowerable` (`GepsAssumption`) are what LLVM provides beyond `WellFormed`:
instructions have the operands of their kind, parameters are those of
functions, calls have a callee, and the names of the instructions that replace
pointer arithmetic are free.

* Reach. `Closure` is a recursive function that goes on for as many rounds as
  there are values. `ClosureIs` says that this is enough: the result has what is
  next to its members. If a round adds nothing there is nothing to add, and
  otherwise every round adds a value.
* `CompileTypeCorrect`, `PlaceholdersFilledAlways` and `AbstractOnceAlways`. The
  invariant is `CompileInv`. Its core is `Links`: the identity map leads from a
  value to a cast of it (`CastsIn`), a cast has the abstract value of what it
  casts if it has one at all (`Rooted`) and does have one if it is in the
  identity map (`Followed`), and operands are linked (`Linked`). When a value
  gets its abstract value, the casts that `Chain` leads to get it too;
  `BecomeKeeps` shows that no operand of theirs can be linked to anything else,
  because by `Rooted` a cast that has an abstract value has that of the root.
  That the root has none before is `Unvisited`: what waits to be visited has an
  abstract value only if it unstashes one, and what unstashes and is visited
  is a division, which keeps it (`BecomesResult`).
* `CompileEdgesSupported` carries `EdgesSupportedAlways` over to the compiler.
* `TaintsCompleteAlways`. The invariant is `TaintInv`: once the pass over taints
  has run, every value that may be abstract (`IsAbstract`) has a taint, and it
  has all sources that abstract values may come from (`Tainted`). The pass
  follows the operands of more kinds of instructions than values travel
  through, so what `Origins` reaches it reaches too (`OriginsReached`); the
  sources on the way are parameters, calls and divisions, which were unstashed
  before, or loads, which melt (`ShadowsTainted`). That needs that lowered
  pointer arithmetic left no operand behind (`GepsLaid`), that types are onions
  in every stage (`TypesAreOnions`, so that what is abstract may be abstract and
  its parameter was unstashed), and that erasing a division keeps it a source
  (`LowerTainted`). What an intrinsic passes is exactly the taint of its operand
  (`TaintedBy`, a part of `Links`).
* `BranchesDecidedAlways`: if every abstract condition is used by one branch
  only and is no division (`ConditionsUsedOnce`), every branch on one takes the
  direction its tobool decided. Preprocessing gives comparisons a branch of
  their own, but two branches may share one, and other conditions may have any
  users; then the loop over uses may move another use than the branch's
  (`syntactic.cpp:361-367`), and the claim is false. The invariant is
  `BranchInv`: until it is visited such a branch takes its condition, as the
  earlier loops redirect only uses by intrinsics and uses of divisions; when it
  is visited, its use is the only one there is, because intrinsics are named by
  instructions whose operands they pass (`Consumes`) and those of the branch do
  not exist yet.

`Relational_proofs` proves of the domains and of the program that calls them,
for any width, any libraries and operations and any length of a program whose
numbers are bounds of intervals (`NumbersAssumption`: `2^Width <= MaxBound`):

* `ValuesAreMade`: `RelSpec => []RelTypeOK`. `RelInv` adds that every running
  fork has for every node a value of its domain (`ValuesOK`) whose interval
  stays within the store, and that the operands of a node are nodes before it
  (`NodesOK`). Each forward operation gives such a value. In `interval` this
  needs that a division by an interval without elements traps and that only
  finite differences are shared out between operands (`SplittableFinite`,
  `DivUpIn`), so that the bounds that a case split computes are bounds again.
* `BranchesNarrow`: `RelSpec => Narrowing` if intervals are not fitted to the
  width of a result (`zfit`) and there are no signs or only sound calls
  (`Strict`). `Narrowing` says of a value also that a branch does not delete
  it. A branch writes back through the whole history
  and forks on the way. `Kept` says of two forks that the second has no world and
  no value that the first had not, and still a value for every node; `AllKept`
  says it of all forks that one answer leads to. One backward operation keeps
  (`IntervalBackStore`, `IntervalBackInside`, and `DomainBackKept`
  for the libraries together), and so does the walk over all operations
  (`WalkKept`), by `Climb` over the number of nodes still to visit. The order
  `ValueBelow` is proved to be the run's `Narrower` (`BelowNarrower`). Of signs,
  sound calls are those whose `!=` and `>` come false: then no comparison is
  assumed to be true that would delete its operand, now or when a later branch
  propagates through it (`NoDelete`, `AllSettled`). The first
  hypothesis is needed: the code assigns the interval of the result to the
  operand without meeting the two (`interval.hpp:403`), and as the result was
  copied when the cast was made, what an earlier branch taught the operand is
  lost. With two such casts TLC finds it; the runs have none.
* `RunIsCovered`: `RelSpec => [](domain # "interval" => Covered)` under
  `Strict`. `FollowInv` says that there is a choice of the unknowns such
  that some fork ended in the open or `Follows` the run under all choices that
  agree with it on the unknowns met so far (`Agreeing`): all its values stand
  for the run's numbers, and the solver still allows these choices. That there
  must be many of them, where `Covered` asks for one, is what makes it
  inductive: a term is made before the unknowns of later calls have a number.
  `NodesSound` adds that what is branched on is a truth value, and that
  constants have the width of their library.
  The steps are:
  - what the library answers stands for what the machine computes, for all
    numbers of every width: the tables of `sign` (`SignOpSound`), those of
    `zero` (`ZeroOpSound`, which needs that the bits of a conjunction or
    disjunction are summed up right, by `Climb` over the bits), constants that
    are cut to a wider type (`ConstantOpSound`), and terms (`TermOpSound`);
    `OpCovers` and `CastCovers` say it for the libraries together;
  - the branch the run takes is open to the fork that follows it
    (`BranchOpen`), and assuming the condition (`AssumeValueFine`) and each
    step of the walk (`BackwardStepFine`, `WalkFine`) lead to a fork that
    follows it, too.

  Without `Strict` this is false of signs: `relational_freed` is the program
  that shows it.

What stays with TLC:

* `Terminates` of both specifications and `VerdictGiven`: liveness under
  fairness is beyond this prover.
* `LeastFixpoint` and `FlowCovered`, which compare the result with references
  that iterate to a fixed point by recursion. `LeastSolution` is what can be
  proved of the first without them.
* `TaintsFollow` and `OperandsLinked`, and `BranchesDecided` without a condition
  on uses. They hold of programs as compilers write them, with the exceptions
  listed under the bounds, and not of every well-formed one: a call forwards
  the taints of its arguments although its result does not come from them, and
  phis have no abstract value. `TaintsComplete` is the part of `TaintsFollow`
  that holds of all, and the one soundness rests on; it is claimed of values
  computed from loads through abstract pointers, too.
* `Covered` of intervals, `ChoicesInRange` and `SplitsDecide`. For intervals none
  of the three holds for every `MaxBound`: their bounds grow with every
  operation, and the size of an interval is a machine word that wraps around.
  They hold of the intervals that programs of the run's length can make.

## Plan

1. Done: `ForkChoose` with `Exploration`, `SvcompVerdict`, `Stash`,
   `ShadowMemory` and proofs about them; `Onion`, `Dataflow` and `Instrument`;
   the domains and `Relational`.
2. `ArrayMap`: `array_set` and `array_map` against a set and a function.
3. `WitnessModel`: the lines of nondeterministic calls and of the model, on
   top of `ForkChoose`.

## Not modelled, and why

The text of messages, the backtrace, and the buffering of the trace file are
left out of `ForkChoose`. Answers of an interactive user outside the range of a
choice, and choices of a count below 1 in the program, are not inputs of that
model. `Stash` has no variadic, indirect or external calls, which `lartcc`
rejects, and nothing is said of threads, whose stacks are separate.
`ShadowMemory` has aligned accesses within one object, no exceptions and no
`longjmp`.

Alias analysis is SVF's: `Dataflow` takes its answers from the program.
Generated functions that are shared by name, the linking of the runtime and
calls of `__lamp_dump` are left out of `Instrument`.

Of the domains, floating-point numbers are out of TLC's reach, terms are
modelled by the set of executions their solver stands for and not by formulas,
and the tracing libraries print and forward. The pointer domain fails at its
first lift of an object, so there is no run of it to model, and the containers,
whose only user it is, are planned. The witness and the model of a
counterexample are planned. Stubs of verifier functions, streams, the benchmark
container, build files and the test harness have no logic of their own.
