----------------------------- MODULE ForkChoose -----------------------------
(***************************************************************************)
(* Nondeterministic choice by fork, as the native runtime does it          *)
(* (runtime/native: choose.cpp, fault.cpp, lart.cpp, trace.hpp,            *)
(* config.cpp).  A process that must choose forks a child for one value,   *)
(* waits for the child to end, and goes on with the other values.  depth   *)
(* and trace are copied by fork; config lives in a shared mapping, so the  *)
(* error_found that one process sets is read by all the others.            *)
(*                                                                         *)
(* fork_choose_dec recurses through choose and fork_choose_inc loops; both *)
(* are modelled by the pair (want, cnt): want is the count the program     *)
(* asked for, cnt the values not yet handed out.                           *)
(***************************************************************************)
EXTENDS ChoiceTree, TLC

CONSTANTS
  Pid,          \* the process slots the system grants; fork fails without one
  Root,         \* the process that starts the run
  Programs,     \* the programs considered, each a tree
  Configs,      \* the option settings considered
  UninitStatus  \* what an uninitialised status word may hold

Config ==
  [choose_bound : Nat, choose_increasing : BOOLEAN, trace_choices : BOOLEAN,
   ask_choices : BOOLEAN, no_fail_mode : BOOLEAN]

ASSUME RootAssumption == Root \in Pid
ASSUME ProgramsAssumption == \A f \in Programs : IsTree(f)
ASSUME ConfigsAssumption == Configs \subseteq Config
ASSUME UninitAssumption == UninitStatus \subseteq Nat

VARIABLES
  prog,         \* the program under test
  config,       \* config_t without error_found: read-only after load_config
  error_found,  \* config->error_found
  pc,           \* where each process is
  parent,       \* who forked it
  path,         \* the choice results the program saw in this process
  depth,        \* the static counter of choose.cpp
  trace,        \* trace.choices
  want,         \* the count of the choice being answered
  cnt,          \* the values of that choice not yet handed out
  status,       \* the word wait() stored, or the one the process leaves
  report,       \* the kinds of lines on the shared stderr
  explored      \* history: the leaves the program reached, in order

frame == <<want, cnt, status>>
memory == <<path, depth, trace>>
vars == <<prog, config, error_found, pc, parent, path, depth, trace, want, cnt,
          status, report, explored>>

\* "free": the slot holds no process.  "prog": runs the program under test.
\* "fork": in fork_choose_*, about to fork or to return.  "wait": blocked in
\* wait().  "check": in check_terminate.  "zombie": ended, not yet reaped.
States == {"free", "prog", "fork", "wait", "check", "zombie"}

Lines == {"reach_error", "fault", "unsupported", "bounded"}

\* A process is at a node of the tree, and a choice being answered is the one
\* at that node.
AtNode(p) ==
  /\ path[p] \in DOMAIN prog
  /\ pc[p] \in {"fork", "wait", "check"} =>
       /\ prog[path[p]] = Do("choose", want[p])
       /\ cnt[p] \in 1 .. want[p]
       /\ pc[p] # "fork" => cnt[p] > 1

TypeOK ==
  /\ prog \in Programs
  /\ config \in Configs
  /\ error_found \in BOOLEAN
  /\ pc \in [Pid -> States]
  /\ parent \in [Pid -> Pid]
  /\ path \in [Pid -> Seq(Nat)]
  /\ depth \in [Pid -> Nat]
  /\ trace \in [Pid -> Seq(Nat)]
  /\ want \in [Pid -> Nat]
  /\ cnt \in [Pid -> Nat]
  /\ status \in [Pid -> Nat]
  /\ report \subseteq Lines
  /\ explored \in Seq(Seq(Nat))
  /\ \A p \in Pid : AtNode(p)

-----------------------------------------------------------------------------
Init ==
  /\ prog \in Programs
  /\ config \in Configs
  /\ error_found = FALSE
  /\ pc = [p \in Pid |-> IF p = Root THEN "prog" ELSE "free"]
  /\ parent = [p \in Pid |-> Root]
  /\ path = [p \in Pid |-> << >>]
  /\ depth = [p \in Pid |-> 0]
  /\ trace = [p \in Pid |-> << >>]
  /\ want = [p \in Pid |-> 0]
  /\ cnt = [p \in Pid |-> 0]
  /\ status = [p \in Pid |-> 0]
  /\ report = {}
  /\ explored = << >>

-----------------------------------------------------------------------------
(***************************************************************************)
(* The return from choose.  In decreasing order every value handed out so  *)
(* far left one activation of choose on the stack, and each pushes the     *)
(* result and counts it as it unwinds.                                     *)
(***************************************************************************)

\* Faulty variants, which the properties below must catch, stand before the
\* operator they replace.  The value of a choice forgets its "- 1".
ResultIsCount(p) == IF config.choose_increasing THEN want[p] - 1 ELSE cnt[p]

\* Faulty variant: the child returns the highest value every time.
ResultIsHighest(p) == want[p] - 1

Result(p) == IF config.choose_increasing THEN want[p] - 1 ELSE cnt[p] - 1

\* Faulty variant: the recursion does not count.
ActivationsOne(p) == 1

Activations(p) == IF config.choose_increasing THEN 1 ELSE want[p] - cnt[p] + 1

Pushed(v, k) == IF config.trace_choices THEN [j \in 1 .. k |-> v] ELSE << >>

\* Process q continues in the program as process p does after result v was
\* returned through k activations of choose.
Return(q, p, v, k) ==
  /\ path' = [path EXCEPT ![q] = Append(path[p], v)]
  /\ depth' = [depth EXCEPT ![q] = depth[p] + k]
  /\ trace' = [trace EXCEPT ![q] = trace[p] \o Pushed(v, k)]

\* The program calls choose; in the two fork modes the branching starts.
CallChoose(p) ==
  /\ pc[p] = "prog"
  /\ prog[path[p]].op = "choose"
  /\ ~config.ask_choices
  /\ pc' = [pc EXCEPT ![p] = "fork"]
  /\ want' = [want EXCEPT ![p] = prog[path[p]].arg]
  /\ cnt' = [cnt EXCEPT ![p] = prog[path[p]].arg]
  /\ UNCHANGED <<prog, config, error_found, parent, memory, status, report,
                 explored>>

\* ask_choices: the user types the result, which scanf reads.  Answers
\* outside the range are not modelled: the code returns them unchecked.
AskChoose(p) ==
  /\ pc[p] = "prog"
  /\ prog[path[p]].op = "choose"
  /\ config.ask_choices
  /\ \E v \in 0 .. prog[path[p]].arg - 1 : Return(p, p, v, 1)
  /\ UNCHANGED <<prog, config, error_found, pc, parent, frame, report, explored>>

\* Faulty variant: the parent does not wait and tests an old status.
ForkNoWait(p) ==
  /\ pc[p] = "fork"
  /\ cnt[p] > 1
  /\ \E c \in Pid :
       /\ pc[c] = "free"
       /\ pc' = [pc EXCEPT ![p] = "check", ![c] = "prog"]
       /\ parent' = [parent EXCEPT ![c] = p]
       /\ Return(c, p, Result(p), Activations(p))
       /\ want' = [want EXCEPT ![c] = 0]
       /\ cnt' = [cnt EXCEPT ![c] = 0]
       /\ status' = [status EXCEPT ![c] = 0]
  /\ UNCHANGED <<prog, config, error_found, report, explored>>

\* fork(): the child returns its value to the program, the parent waits.
Fork(p) ==
  /\ pc[p] = "fork"
  /\ cnt[p] > 1
  /\ \E c \in Pid :
       /\ pc[c] = "free"
       /\ pc' = [pc EXCEPT ![p] = "wait", ![c] = "prog"]
       /\ parent' = [parent EXCEPT ![c] = p]
       /\ Return(c, p, Result(p), Activations(p))
       /\ want' = [want EXCEPT ![c] = 0]
       /\ cnt' = [cnt EXCEPT ![c] = 0]
       /\ status' = [status EXCEPT ![c] = 0]
  /\ UNCHANGED <<prog, config, error_found, report, explored>>

\* fork() returns -1, which nobody tests: wait() finds no child and leaves
\* status uninitialised.
ForkFails(p) ==
  /\ pc[p] = "fork"
  /\ cnt[p] > 1
  /\ \A c \in Pid : pc[c] # "free"
  /\ \E s \in UninitStatus : status' = [status EXCEPT ![p] = s]
  /\ pc' = [pc EXCEPT ![p] = "check"]
  /\ UNCHANGED <<prog, config, error_found, parent, memory, want, cnt, report,
                 explored>>

\* One value is left: this process takes it.
ReturnLast(p) ==
  /\ pc[p] = "fork"
  /\ cnt[p] = 1
  /\ pc' = [pc EXCEPT ![p] = "prog"]
  /\ Return(p, p, Result(p), Activations(p))
  /\ want' = [want EXCEPT ![p] = 0]
  /\ cnt' = [cnt EXCEPT ![p] = 0]
  /\ UNCHANGED <<prog, config, error_found, parent, status, report, explored>>

\* Faulty variant: a wait that does not block (WNOHANG).
WaitNotBlocking(p) ==
  /\ pc[p] = "wait"
  /\ status' = [status EXCEPT ![p] = 0]
  /\ pc' = [pc EXCEPT ![p] = "check"]
  /\ UNCHANGED <<prog, config, error_found, parent, memory, want, cnt, report,
                 explored>>

\* Faulty variant: a wait repeated until the child has exited by itself.
WaitForExit(p) ==
  /\ pc[p] = "wait"
  /\ \E c \in Pid :
       /\ c # Root
       /\ pc[c] = "zombie"
       /\ parent[c] = p
       /\ status[c] % 256 = 0
       /\ status' = [status EXCEPT ![p] = status[c]]
       /\ pc' = [pc EXCEPT ![p] = "check", ![c] = "free"]
  /\ UNCHANGED <<prog, config, error_found, parent, memory, want, cnt, report,
                 explored>>

\* wait() returns the status word of a child that has ended.
Wait(p) ==
  /\ pc[p] = "wait"
  /\ \E c \in Pid :
       /\ c # Root
       /\ pc[c] = "zombie"
       /\ parent[c] = p
       /\ status' = [status EXCEPT ![p] = status[c]]
       /\ pc' = [pc EXCEPT ![p] = "check", ![c] = "free"]
  /\ UNCHANGED <<prog, config, error_found, parent, memory, want, cnt, report,
                 explored>>

-----------------------------------------------------------------------------
(***************************************************************************)
(* check_terminate, and std::exit.                                         *)
(***************************************************************************)

Exit(p, code) ==
  /\ pc' = [pc EXCEPT ![p] = "zombie"]
  /\ status' = [status EXCEPT ![p] = ExitStatus(code)]

\* Faulty variant: one choice too many.
BoundReachedLate(p) == config.choose_bound > 0 /\ depth[p] > config.choose_bound

BoundReached(p) == config.choose_bound > 0 /\ depth[p] >= config.choose_bound

\* The raw status word becomes the exit code.
ExitOnStatus(p) ==
  /\ pc[p] = "check"
  /\ status[p] # 0
  /\ Exit(p, status[p])
  /\ UNCHANGED <<prog, config, error_found, parent, memory, want, cnt, report,
                 explored>>

ExitOnError(p) ==
  /\ pc[p] = "check"
  /\ status[p] = 0
  /\ error_found
  /\ Exit(p, 0)
  /\ UNCHANGED <<prog, config, error_found, parent, memory, want, cnt, report,
                 explored>>

ExitOnBound(p) ==
  /\ pc[p] = "check"
  /\ status[p] = 0
  /\ ~error_found
  /\ BoundReached(p)
  /\ report' = report \cup {"bounded"}
  /\ Exit(p, 0)
  /\ UNCHANGED <<prog, config, error_found, parent, memory, want, cnt, explored>>

\* Faulty variant: check_terminate does not look at the error flag.
NextValueDespiteError(p) ==
  /\ pc[p] = "check"
  /\ status[p] = 0
  /\ ~BoundReached(p)
  /\ pc' = [pc EXCEPT ![p] = "fork"]
  /\ cnt' = [cnt EXCEPT ![p] = cnt[p] - 1]
  /\ UNCHANGED <<prog, config, error_found, parent, memory, want, status, report,
                 explored>>

\* check_terminate returns: the next value is tried.
NextValue(p) ==
  /\ pc[p] = "check"
  /\ status[p] = 0
  /\ ~error_found
  /\ ~BoundReached(p)
  /\ pc' = [pc EXCEPT ![p] = "fork"]
  /\ cnt' = [cnt EXCEPT ![p] = cnt[p] - 1]
  /\ UNCHANGED <<prog, config, error_found, parent, memory, want, status, report,
                 explored>>

-----------------------------------------------------------------------------
(***************************************************************************)
(* The ends of a path.                                                     *)
(***************************************************************************)

Reaches(p, operation) ==
  /\ pc[p] = "prog"
  /\ prog[path[p]].op = operation
  /\ explored' = Append(explored, path[p])
  /\ UNCHANGED <<prog, config, parent, memory, want, cnt>>

\* main returns, or the program calls exit.
ExitProgram(p) ==
  /\ Reaches(p, "exit")
  /\ Exit(p, prog[path[p]].arg)
  /\ UNCHANGED <<error_found, report>>

\* __lart_cancel.
Cancel(p) ==
  /\ Reaches(p, "cancel")
  /\ Exit(p, 0)
  /\ UNCHANGED <<error_found, report>>

\* The SIGABRT handler.
Abort(p) ==
  /\ Reaches(p, "abort")
  /\ Exit(p, 0)
  /\ UNCHANGED <<error_found, report>>

\* __assert_fail: report, set the shared flag, exit.
Fault(p) ==
  /\ Reaches(p, "fault")
  /\ report' = report \cup {IF prog[path[p]].arg = 1 THEN "reach_error" ELSE "fault"}
  /\ error_found' = TRUE
  /\ Exit(p, IF config.no_fail_mode THEN 0 ELSE 1)

\* mixin::fail: a message, then __builtin_trap.
Fail(p) ==
  /\ Reaches(p, "fail")
  /\ report' = report \cup {"unsupported"}
  /\ pc' = [pc EXCEPT ![p] = "zombie"]
  /\ status' = [status EXCEPT ![p] = SIGILL]
  /\ UNCHANGED error_found

\* The program dies of a signal; nothing is printed.
Crash(p) ==
  /\ Reaches(p, "signal")
  /\ pc' = [pc EXCEPT ![p] = "zombie"]
  /\ status' = [status EXCEPT ![p] = prog[path[p]].arg]
  /\ UNCHANGED <<error_found, report>>

-----------------------------------------------------------------------------
Done == pc[Root] = "zombie"

Terminated == Done /\ UNCHANGED vars

Step(p) ==
  \/ CallChoose(p) \/ AskChoose(p)
  \/ Fork(p) \/ ForkFails(p) \/ ReturnLast(p)
  \/ Wait(p)
  \/ ExitOnStatus(p) \/ ExitOnError(p) \/ ExitOnBound(p) \/ NextValue(p)
  \/ ExitProgram(p) \/ Cancel(p) \/ Abort(p) \/ Fault(p) \/ Fail(p) \/ Crash(p)

Next == (\E p \in Pid : Step(p)) \/ Terminated

\* The operating system runs every runnable process and wakes a process
\* whose child has ended.
Fairness == \A p \in Pid : WF_vars(Step(p))

Spec == Init /\ [][Next]_vars

FairSpec == Spec /\ Fairness

-----------------------------------------------------------------------------
(***************************************************************************)
(* Properties.                                                             *)
(***************************************************************************)

\* Neither an empty slot nor a parent blocked in wait().
Active(p) == pc[p] \notin {"free", "wait"}

\* At every moment exactly one process of the run is not blocked: the others
\* wait for a child.  That is why depth and trace need no lock and why the
\* lines of two paths never mix on stderr.
OneRunner == \E p \in Pid : Active(p) /\ \A q \in Pid : Active(q) => q = p

ChildrenOf(p) == {c \in Pid \ {Root} : pc[c] # "free" /\ parent[c] = p}

\* A parent that waits has exactly one child to wait for, and every process
\* but the first one is awaited by the parent that forked it: wait() cannot
\* return the status of another branch, and no path is left to run behind
\* the back of the exploration.
EveryoneAwaited ==
  /\ \A p \in Pid : pc[p] = "wait" => \E c \in Pid : ChildrenOf(p) = {c}
  /\ \A c \in Pid \ {Root} : pc[c] # "free" => pc[parent[c]] = "wait"

\* While a parent waits in decreasing order, all that runs beyond it runs in
\* the subtree of the value it handed out last: the values below are still
\* to come and no other process touches them.
ChildOnBranch ==
  \A p \in Pid :
    /\ pc[p] = "wait"
    /\ ~config.choose_increasing
    => \A c \in ChildrenOf(p) :
         /\ Len(path[p]) < Len(path[c])
         /\ SubSeq(path[c], 1, Len(path[p]) + 1) = Append(path[p], cnt[p] - 1)

\* The counter that choose_bound is compared with, and the choices printed
\* at exit, count the unwound activations of choose on the path of the
\* process: n - r of them for result r of choose( n ).
DepthCountsActivations ==
  \A p \in Pid :
    /\ pc[p] # "free"
    /\ ~config.choose_increasing
    /\ ~config.ask_choices
    => /\ depth[p] = DepthOf(prog, path[p])
       /\ config.trace_choices => Len(trace[p]) = depth[p]

\* Once an assertion failed in any process, no process of the run starts
\* another branch or reaches another end of the program.
ErrorStops ==
  [][error_found =>
       /\ explored' = explored
       /\ \A p \in Pid : pc[p] = "free" => pc'[p] = "free"]_vars

\* Every run of a program whose paths are finite ends.
Terminates == <>Done

\* The run implements the depth-first enumeration.
E == INSTANCE Exploration WITH found <- error_found, finished <- Done

RefinesExploration == E!Spec

\* A program all of whose paths end with status 0 and without a fault.
Quiet == \A q \in Leaves(prog) : LeafStatus(prog[q], FALSE) = 0

\* What a choice is for: with no bound, a quiet program is run through all
\* its paths.
EveryPathExplored ==
  Done /\ Quiet /\ config.choose_bound = 0
    => \A q \in Leaves(prog) : \E i \in 1 .. Len(explored) : explored[i] = q

=============================================================================
