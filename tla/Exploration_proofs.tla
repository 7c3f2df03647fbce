------------------------- MODULE Exploration_proofs -------------------------
(***************************************************************************)
(* ForkChoose implements the depth-first enumeration of Exploration: for   *)
(* any programs, any bound and any number of processes, provided that the  *)
(* choices are tried in decreasing order and that fork never fails.        *)
(***************************************************************************)
EXTENDS ForkChoose_proofs

\* The system has a process for every fork.
SlotFree ==
  \A p \in Pid : pc[p] = "fork" /\ cnt[p] > 1 => \E c \in Pid : pc[c] = "free"

\* The values of the choice at p that have not been handed out.
Left(p) == IF pc[p] = "fork" THEN cnt[p] ELSE cnt[p] - 1

\* The leaves that p itself will still run to, or fork for.
ToCome(p) ==
  {r \in Leaves(prog) :
     /\ Agree(path[p], r, Len(path[p]))
     /\ \/ pc[p] = "prog"
        \/ /\ pc[p] \in {"fork", "wait", "check"}
           /\ Len(path[p]) < Len(r)
           /\ r[Len(path[p]) + 1] < Left(p)}

\* The status word that p leaves, if it is sure already.
Word(p) ==
  CASE pc[p] = "zombie" -> status[p]
    [] pc[p] = "check"  -> ExitStatus(status[p])
    [] OTHER            -> 0

\* Once p left word w, x exits without another value: x reads w, or the word
\* that a process between them makes of it.
GivesUp(p, w, x) ==
  \/ p # Root /\ x = parent[p] /\ w # 0
  \/ /\ p # Root /\ parent[p] # Root /\ x = parent[parent[p]]
     /\ ExitStatus(w) # 0

\* What the active process has read or left made it certain that x exits
\* without another value.
Doomed(x) ==
  \E p \in Pid :
    /\ Active(p)
    /\ \/ x = p /\ pc[p] = "check" /\ status[p] # 0
       \/ GivesUp(p, Word(p), x)

\* Leaves that some process will still come to, unless a process it
\* depends on is bound to end the run of its parent.
Open == {r \in Leaves(prog) : \E x \in Pid : r \in ToCome(x) /\ ~Doomed(x)}

\* The open leaves within the bound: what the abstract run calls pending.
Remaining == {r \in Open : Admissible(prog, config.choose_bound, r)}

\* Every process stands where the bound lets it, and offers lower values only
\* if the bound is not reached.
Allowed ==
  Decreasing =>
    \A y \in Pid : Live(y) =>
      /\ Admissible(prog, config.choose_bound, path[y])
      /\ pc[y] = "fork" /\ cnt[y] < want[y] => ~BoundReached(y)

\* What the enumeration has before it is what the processes have before them.
SamePending == Decreasing /\ ~error_found => E!Pending = Remaining

\* What the proofs below carry along.
Invariant ==
  TypeOK /\ Chain /\ Branches /\ DepthCountsActivations /\ Allowed /\ SamePending

\* The program is one of the trees and has the facts of a tree.
LEMMA ProgramFacts ==
  TypeOK => /\ IsTree(prog)
            /\ \A p \in Pid : path[p] \in DOMAIN prog /\ path[p] \in Seq(Nat)
            /\ config.choose_bound \in Nat
BY ProgramsAssumption, ConfigsAssumption DEF TypeOK, AtNode, Config

\* No step changes the program or its options.
LEMMA StepKeepsProgram ==
  ASSUME NEW p \in Pid, Step(p)
  PROVE  UNCHANGED <<prog, config>>
BY DEF Step, CallChoose, AskChoose, Fork, ForkFails, ReturnLast, Wait, ExitOnStatus,
   ExitOnError, ExitOnBound, NextValue, ExitProgram, Cancel, Abort, Fault, Fail,
   Crash, Reaches

-----------------------------------------------------------------------------
(***************************************************************************)
(* What the bound lets through.                                            *)
(***************************************************************************)

\* The value that a process returns is admissible at its choice.
LEMMA ResultAdmissible ==
  ASSUME TypeOK, DepthCountsActivations, Allowed, Decreasing,
         NEW p \in Pid, pc[p] = "fork"
  PROVE  Admissible(prog, config.choose_bound, Append(path[p], Result(p)))
<1>1. /\ prog[path[p]] = Do("choose", want[p]) /\ want[p] \in Nat /\ cnt[p] \in 1 .. want[p]
      /\ Append(path[p], Result(p)) \in DOMAIN prog
  BY ResultInRange
<1>2. Result(p) = cnt[p] - 1 /\ Result(p) \in Nat /\ prog[path[p]].arg = want[p]
  BY <1>1 DEF Result, Decreasing, Do
<1>3. /\ Admissible(prog, config.choose_bound, path[p])
      /\ cnt[p] < want[p] => ~BoundReached(p)
      /\ DepthOf(prog, path[p]) = depth[p]
  BY DEF Allowed, DepthCountsActivations, Decreasing, Live
<1>4. config.choose_bound > 0 /\ DepthOf(prog, path[p]) >= config.choose_bound
        => Result(p) = prog[path[p]].arg - 1
  BY <1>1, <1>2, <1>3 DEF BoundReached
<1> QED
  BY <1>1, <1>2, <1>3, <1>4, ProgramFacts, AdmissibleAppend

\* What the steps do to choices under way.
LEMMA StepOnFrames ==
  ASSUME TypeOK, NEW p \in Pid, Step(p), ~Fork(p), ~ReturnLast(p), ~config.ask_choices
  PROVE  /\ UNCHANGED <<path, depth>>
         /\ \A r \in Pid : pc'[r] # "free" => pc[r] # "free"
         /\ \A r \in Pid :
              pc'[r] = "fork" =>
                \/ pc[r] = "fork" /\ cnt'[r] = cnt[r] /\ want'[r] = want[r]
                \/ cnt'[r] = want'[r]
                \/ ~BoundReached(r)
<1>1. CASE CallChoose(p)
  BY <1>1 DEF CallChoose, TypeOK, memory
<1>2. CASE NextValue(p)
  BY <1>2 DEF NextValue, TypeOK, memory
<1>3. CASE ForkFails(p)
  BY <1>3 DEF ForkFails, TypeOK, memory
<1>4. CASE ExitOnStatus(p) \/ ExitOnError(p) \/ ExitOnBound(p)
  BY <1>4 DEF ExitOnStatus, ExitOnError, ExitOnBound, Exit, TypeOK, memory
<1>5. CASE ExitProgram(p) \/ Cancel(p) \/ Abort(p) \/ Fault(p) \/ Fail(p) \/ Crash(p)
  BY <1>5 DEF ExitProgram, Cancel, Abort, Fault, Fail, Crash, Reaches, Exit, TypeOK, memory
<1>6. CASE Wait(p)
  BY <1>6 DEF Wait, TypeOK, memory
<1>7. ~AskChoose(p)
  BY DEF AskChoose
<1> QED
  BY <1>1, <1>2, <1>3, <1>4, <1>5, <1>6, <1>7 DEF Step

\* Statuses stay consistent with the ends of paths, step by step.
LEMMA AllowedStep ==
  TypeOK /\ DepthCountsActivations /\ Allowed /\ [Next]_vars => Allowed'
<1> SUFFICES ASSUME TypeOK, DepthCountsActivations, Allowed, [Next]_vars,
                    Decreasing', NEW y \in Pid, Live(y)'
             PROVE  /\ Admissible(prog', config'.choose_bound, path'[y])
                    /\ pc'[y] = "fork" /\ cnt'[y] < want'[y] => ~BoundReached(y)'
  BY DEF Allowed
<1>1. ASSUME NEW p \in Pid, Step(p)
      PROVE  /\ Admissible(prog', config'.choose_bound, path'[y])
             /\ pc'[y] = "fork" /\ cnt'[y] < want'[y] => ~BoundReached(y)'
  <2>1. UNCHANGED <<prog, config>> /\ Decreasing /\ ~config.ask_choices
    BY <1>1, StepKeepsProgram DEF Decreasing
  <2>2. CASE Fork(p)
    <3>1. PICK c \in Pid :
            /\ pc[c] = "free"
            /\ pc' = [pc EXCEPT ![p] = "wait", ![c] = "prog"]
            /\ Return(c, p, Result(p), Activations(p))
            /\ want' = [want EXCEPT ![c] = 0]
            /\ cnt' = [cnt EXCEPT ![c] = 0]
      BY <2>2 DEF Fork
    <3>2. pc[p] = "fork"
      BY <2>2 DEF Fork
    <3>3. CASE y = c
      <4>1. path'[c] = Append(path[p], Result(p)) /\ pc'[c] = "prog"
        BY <3>1, <3>2 DEF Return, TypeOK
      <4> QED
        BY <2>1, <3>2, <3>3, <4>1, ResultAdmissible
    <3>4. CASE y # c
      <4>1. /\ path'[y] = path[y] /\ depth'[y] = depth[y]
            /\ want'[y] = want[y] /\ cnt'[y] = cnt[y]
        BY <3>1, <3>4 DEF Return, TypeOK
      <4>2. pc[y] # "free" /\ (pc'[y] = "fork" => pc[y] = "fork")
        BY <3>1, <3>2, <3>4 DEF TypeOK, Live
      <4> QED
        BY <2>1, <4>1, <4>2 DEF Allowed, Live, BoundReached
    <3> QED
      BY <3>3, <3>4
  <2>3. CASE ReturnLast(p)
    <3>1. /\ pc[p] = "fork" /\ pc' = [pc EXCEPT ![p] = "prog"]
          /\ Return(p, p, Result(p), Activations(p))
          /\ want' = [want EXCEPT ![p] = 0]
          /\ cnt' = [cnt EXCEPT ![p] = 0]
      BY <2>3 DEF ReturnLast
    <3>2. CASE y = p
      <4>1. path'[p] = Append(path[p], Result(p)) /\ pc'[p] = "prog"
        BY <3>1 DEF Return, TypeOK
      <4> QED
        BY <2>1, <3>1, <3>2, <4>1, ResultAdmissible
    <3>3. CASE y # p
      <4>1. /\ path'[y] = path[y] /\ depth'[y] = depth[y]
            /\ want'[y] = want[y] /\ cnt'[y] = cnt[y] /\ pc'[y] = pc[y]
        BY <3>1, <3>3 DEF Return, TypeOK
      <4> QED
        BY <2>1, <4>1 DEF Allowed, Live, BoundReached
    <3> QED
      BY <3>2, <3>3
  <2>4. CASE ~Fork(p) /\ ~ReturnLast(p)
    <3>1. /\ UNCHANGED <<path, depth>>
          /\ pc'[y] # "free" => pc[y] # "free"
          /\ pc'[y] = "fork" =>
               \/ pc[y] = "fork" /\ cnt'[y] = cnt[y] /\ want'[y] = want[y]
               \/ cnt'[y] = want'[y]
               \/ ~BoundReached(y)
      BY <1>1, <2>1, <2>4, StepOnFrames
    <3>2. /\ Admissible(prog, config.choose_bound, path[y])
          /\ pc[y] = "fork" /\ cnt[y] < want[y] => ~BoundReached(y)
      BY <2>1, <3>1 DEF Allowed, Live
    <3>3. BoundReached(y)' <=> BoundReached(y)
      BY <2>1, <3>1 DEF BoundReached
    <3>4. pc'[y] = "fork" /\ cnt'[y] < want'[y] => ~BoundReached(y)'
      <4>1. pc'[y] = "fork" /\ cnt'[y] = want'[y] => ~(cnt'[y] < want'[y])
        <5>1. ASSUME pc'[y] = "fork", cnt'[y] = want'[y], cnt'[y] < want'[y] PROVE FALSE
          <6>1. want'[y] \in Nat
            BY <1>1, TypeStep DEF TypeOK, Next
          <6> QED
            BY <5>1, <6>1
        <5> QED
          BY <5>1
      <4> QED
        BY <3>1, <3>2, <3>3, <4>1
    <3> QED
      BY <2>1, <3>1, <3>2, <3>4
  <2> QED
    BY <2>2, <2>3, <2>4
<1>2. CASE UNCHANGED vars
  BY <1>2 DEF vars, memory, frame, Allowed, Live, BoundReached, Decreasing
<1> QED
  BY <1>1, <1>2 DEF Next, Terminated

\* Nothing has ended at the start.
LEMMA AllowedInit == Init => Allowed
<1> SUFFICES ASSUME Init PROVE Allowed
  OBVIOUS
<1>1. \A y \in Pid : path[y] = << >> /\ pc[y] # "fork"
  BY DEF Init
<1>2. Admissible(prog, config.choose_bound, << >>)
  BY DEF Admissible
<1> QED
  BY <1>1, <1>2 DEF Allowed

\* Two exits in a row lose a status: the exit of a word keeps its low byte
\* only, which an exit has left 0.
LEMMA ExitStatusWord ==
  ASSUME NEW s \in Nat
  PROVE  /\ ExitStatus(s) \in Nat
         /\ ExitStatus(s) # 0 <=> s % 256 # 0
         /\ ExitStatus(s) % 256 = 0
         /\ ExitStatus(ExitStatus(s)) = 0
<1>1. s % 256 \in 0 .. 255
  OBVIOUS
<1>2. \A m \in 0 .. 255 : (256 * m) % 256 = 0 /\ 256 * m \in Nat /\ (256 * m # 0 <=> m # 0)
  OBVIOUS
<1>3. ExitStatus(s) \in Nat /\ (ExitStatus(s) # 0 <=> s % 256 # 0) /\ ExitStatus(s) % 256 = 0
  BY <1>1, <1>2 DEF ExitStatus
<1>4. ExitStatus(ExitStatus(s)) = 256 * 0
  BY <1>3 DEF ExitStatus
<1> QED
  BY <1>3, <1>4

-----------------------------------------------------------------------------
(***************************************************************************)
(* The leaves to come, step by step.  Steps that do not reach a leaf keep  *)
(* the set Open: a fork splits what the parent had, and the steps of wait  *)
(* and exit pass the news of a bad status on.                              *)
(***************************************************************************)

\* As long as the active process has no nonzero status, nobody is doomed.
NobodyDoomed ==
  \A p \in Pid :
    Active(p) /\ Word(p) = 0 /\ (pc[p] = "check" => status[p] = 0)
      => \A x \in Pid : ~Doomed(x)

\* As long as the runner ends normally nobody gives anything up.
LEMMA NobodyDoomedAlways == [](Chain => NobodyDoomed)
<1>1. ExitStatus(0) = 0
  BY DEF ExitStatus
<1>2. Chain => NobodyDoomed
  BY <1>1 DEF Chain, OneActive, NobodyDoomed, Doomed, GivesUp
<1> QED
  BY <1>2, PTL

\* The leaves to come of a process depend on that process only.
LEMMA ToComeSame ==
  ASSUME UNCHANGED prog, NEW x \in Pid,
         path'[x] = path[x], pc'[x] = pc[x], cnt'[x] = cnt[x]
  PROVE  ToCome(x)' = ToCome(x)
BY DEF ToCome, Left

\* Which leaves are open depends on who will still come to them.
LEMMA OpenSame ==
  ASSUME UNCHANGED prog,
         \A r \in Leaves(prog) :
           (\E x \in Pid : r \in ToCome(x)' /\ ~Doomed(x)')
             <=> (\E x \in Pid : r \in ToCome(x) /\ ~Doomed(x))
  PROVE  Open' = Open
<1>1. Open' = {r \in Leaves(prog) : \E x \in Pid : r \in ToCome(x)' /\ ~Doomed(x)'}
  BY DEF Open
<1> QED
  BY <1>1 DEF Open

\* The leaves of a process by its place.
LEMMA ToComeFacts ==
  TypeOK =>
    \A x \in Pid : \A r \in Leaves(prog) :
      /\ pc[x] \in {"free", "zombie"} => r \notin ToCome(x)
      /\ pc[x] = "prog" => (r \in ToCome(x) <=> Agree(path[x], r, Len(path[x])))
      /\ pc[x] = "fork" =>
           (r \in ToCome(x) <=> /\ Agree(path[x], r, Len(path[x]))
                                /\ Len(path[x]) < Len(r)
                                /\ r[Len(path[x]) + 1] < cnt[x])
      /\ pc[x] \in {"wait", "check"} =>
           (r \in ToCome(x) <=> /\ Agree(path[x], r, Len(path[x]))
                                /\ Len(path[x]) < Len(r)
                                /\ r[Len(path[x]) + 1] < cnt[x] - 1)
BY DEF ToCome, Left

\* The same at every moment, so also after a step.
LEMMA ToComeAlways ==
  [](TypeOK =>
       \A x \in Pid : \A r \in Leaves(prog) :
         /\ pc[x] \in {"free", "zombie"} => r \notin ToCome(x)
         /\ pc[x] = "prog" => (r \in ToCome(x) <=> Agree(path[x], r, Len(path[x])))
         /\ pc[x] = "fork" =>
              (r \in ToCome(x) <=> /\ Agree(path[x], r, Len(path[x]))
                                   /\ Len(path[x]) < Len(r)
                                   /\ r[Len(path[x]) + 1] < cnt[x])
         /\ pc[x] \in {"wait", "check"} =>
              (r \in ToCome(x) <=> /\ Agree(path[x], r, Len(path[x]))
                                   /\ Len(path[x]) < Len(r)
                                   /\ r[Len(path[x]) + 1] < cnt[x] - 1))
BY ToComeFacts, PTL

\* Asking for a choice loses no leaf.
LEMMA CallKeepsOpen ==
  ASSUME TypeOK, TypeOK', Chain, Chain', NEW p \in Pid, CallChoose(p)
  PROVE  Open' = Open
<1>1. /\ pc[p] = "prog" /\ prog[path[p]].op = "choose"
      /\ pc'[p] = "fork" /\ cnt'[p] = prog[path[p]].arg
      /\ UNCHANGED <<prog, path>>
      /\ \A r \in Pid \ {p} : pc'[r] = pc[r] /\ cnt'[r] = cnt[r]
  BY DEF CallChoose, TypeOK, memory
<1>2. \A x \in Pid : ~Doomed(x) /\ ~Doomed(x)'
  <2>1. Active(p) /\ Active(p)' /\ Word(p) = 0 /\ Word(p)' = 0
    BY <1>1 DEF Active, Word
  <2>2. NobodyDoomed /\ NobodyDoomed'
    BY NobodyDoomedAlways, PTL
  <2> QED
    BY <1>1, <2>1, <2>2 DEF NobodyDoomed
<1>3. \A x \in Pid \ {p} : ToCome(x)' = ToCome(x)
  BY <1>1, ToComeSame
<1>4. ASSUME NEW r \in Leaves(prog) PROVE r \in ToCome(p)' <=> r \in ToCome(p)
  <2>1. r \in ToCome(p) <=> Agree(path[p], r, Len(path[p]))
    BY <1>1, ToComeFacts
  <2>2. r \in ToCome(p)' <=> /\ Agree(path[p], r, Len(path[p]))
                             /\ Len(path[p]) < Len(r)
                             /\ r[Len(path[p]) + 1] < prog[path[p]].arg
    BY <1>1 DEF ToCome, Left
  <2>3. Agree(path[p], r, Len(path[p])) =>
          /\ Len(path[p]) < Len(r)
          /\ r[Len(path[p]) + 1] \in 0 .. prog[path[p]].arg - 1
    BY <1>1, ProgramFacts, LeafUnder
  <2>4. prog[path[p]].arg \in Nat
    BY <1>1 DEF TypeOK
  <2> QED
    BY <2>1, <2>2, <2>3, <2>4
<1> QED
  BY <1>1, <1>2, <1>3, <1>4, OpenSame

\* A fork shares out the leaves between parent and child.
LEMMA ForkKeepsOpen ==
  ASSUME TypeOK, TypeOK', Chain, Chain', Decreasing, NEW p \in Pid, Fork(p)
  PROVE  Open' = Open
<1>1. PICK c \in Pid :
        /\ pc[c] = "free"
        /\ pc' = [pc EXCEPT ![p] = "wait", ![c] = "prog"]
        /\ Return(c, p, Result(p), Activations(p))
        /\ cnt' = [cnt EXCEPT ![c] = 0]
  BY DEF Fork
<1>2. /\ pc[p] = "fork" /\ p # c /\ UNCHANGED prog
      /\ pc'[p] = "wait" /\ pc'[c] = "prog"
      /\ \A x \in Pid \ {p, c} : pc'[x] = pc[x]
      /\ \A x \in Pid \ {c} : cnt'[x] = cnt[x]
  <2>1. pc[p] = "fork" /\ p # c /\ UNCHANGED prog
    BY <1>1 DEF Fork
  <2>2. pc \in [Pid -> States] /\ cnt \in [Pid -> Nat]
    BY DEF TypeOK
  <2> QED
    BY <1>1, <2>1, <2>2
<1>3. /\ path'[c] = Append(path[p], cnt[p] - 1)
      /\ \A x \in Pid \ {c} : path'[x] = path[x]
  BY <1>1 DEF Return, TypeOK, Result, Decreasing
<1>4. \A x \in Pid : ~Doomed(x) /\ ~Doomed(x)'
  <2>1. Active(p) /\ Active(c)' /\ Word(p) = 0 /\ Word(c)' = 0
    BY <1>2 DEF Active, Word
  <2>2. NobodyDoomed /\ NobodyDoomed'
    BY NobodyDoomedAlways, PTL
  <2> QED
    BY <1>2, <2>1, <2>2 DEF NobodyDoomed
<1>5. \A x \in Pid \ {p, c} : ToCome(x)' = ToCome(x)
  BY <1>2, <1>3, ToComeSame
<1>6. ASSUME NEW r \in Leaves(prog)
      PROVE  /\ r \notin ToCome(c)
             /\ r \in ToCome(p)' \/ r \in ToCome(c)' <=> r \in ToCome(p)
  <2>1. /\ r \notin ToCome(c)
        /\ r \in ToCome(p) <=> /\ Agree(path[p], r, Len(path[p]))
                               /\ Len(path[p]) < Len(r)
                               /\ r[Len(path[p]) + 1] < cnt[p]
    BY <1>1, <1>2, ToComeFacts
  <2>2. r \in ToCome(p)' <=> /\ Agree(path[p], r, Len(path[p]))
                             /\ Len(path[p]) < Len(r)
                             /\ r[Len(path[p]) + 1] < cnt[p] - 1
    BY <1>2, <1>3 DEF ToCome, Left
  <2>3. r \in ToCome(c)' <=> Agree(path'[c], r, Len(path'[c]))
    BY <1>2 DEF ToCome
  <2>4. /\ path[p] \in Seq(Nat) /\ r \in Seq(Nat)
        /\ cnt[p] \in Nat /\ cnt[p] - 1 \in Nat
    BY <1>2, ProgramFacts, ResultInRange DEF IsTree, Leaves
  <2>5. r \in ToCome(c)' <=> /\ Agree(path[p], r, Len(path[p]))
                             /\ Len(path[p]) < Len(r)
                             /\ r[Len(path[p]) + 1] = cnt[p] - 1
    BY <1>3, <2>3, <2>4, AgreeAppend
  <2>6. Len(path[p]) < Len(r) => r[Len(path[p]) + 1] \in Nat
    BY <2>4
  <2> QED
    BY <2>1, <2>2, <2>4, <2>5, <2>6
<1> QED
  BY <1>2, <1>4, <1>5, <1>6, OpenSame

\* The last value leads to all leaves that are left.
LEMMA ReturnKeepsOpen ==
  ASSUME TypeOK, TypeOK', Chain, Chain', Decreasing, NEW p \in Pid, ReturnLast(p)
  PROVE  Open' = Open
<1>1. /\ pc[p] = "fork" /\ cnt[p] = 1 /\ UNCHANGED prog /\ pc'[p] = "prog"
      /\ \A x \in Pid \ {p} : pc'[x] = pc[x] /\ cnt'[x] = cnt[x]
  BY DEF ReturnLast, TypeOK
<1>2. /\ path'[p] = Append(path[p], 0)
      /\ \A x \in Pid \ {p} : path'[x] = path[x]
  BY <1>1 DEF ReturnLast, Return, TypeOK, Result, Decreasing
<1>3. \A x \in Pid : ~Doomed(x) /\ ~Doomed(x)'
  <2>1. Active(p) /\ Active(p)' /\ Word(p) = 0 /\ Word(p)' = 0
    BY <1>1 DEF Active, Word
  <2>2. NobodyDoomed /\ NobodyDoomed'
    BY NobodyDoomedAlways, PTL
  <2> QED
    BY <1>1, <2>1, <2>2 DEF NobodyDoomed
<1>4. \A x \in Pid \ {p} : ToCome(x)' = ToCome(x)
  BY <1>1, <1>2, ToComeSame
<1>5. ASSUME NEW r \in Leaves(prog) PROVE r \in ToCome(p)' <=> r \in ToCome(p)
  <2>1. r \in ToCome(p) <=> /\ Agree(path[p], r, Len(path[p]))
                            /\ Len(path[p]) < Len(r)
                            /\ r[Len(path[p]) + 1] < 1
    BY <1>1, ToComeFacts
  <2>2. r \in ToCome(p)' <=> Agree(path'[p], r, Len(path'[p]))
    BY <1>1 DEF ToCome
  <2>3. path[p] \in Seq(Nat) /\ r \in Seq(Nat)
    BY ProgramFacts DEF IsTree, Leaves
  <2>4. r \in ToCome(p)' <=> /\ Agree(path[p], r, Len(path[p]))
                             /\ Len(path[p]) < Len(r)
                             /\ r[Len(path[p]) + 1] = 0
    BY <1>2, <2>2, <2>3, AgreeAppend
  <2>5. Len(path[p]) < Len(r) => r[Len(path[p]) + 1] \in Nat
    BY <2>3
  <2> QED
    BY <2>1, <2>4, <2>5
<1> QED
  BY <1>1, <1>3, <1>4, <1>5, OpenSame

\* The value a child took is done when its parent goes on.
LEMMA NextValueKeepsOpen ==
  ASSUME TypeOK, TypeOK', Chain, Chain', NEW p \in Pid, NextValue(p)
  PROVE  Open' = Open
<1>1. /\ pc[p] = "check" /\ status[p] = 0 /\ UNCHANGED <<prog, path>>
      /\ pc'[p] = "fork" /\ cnt'[p] = cnt[p] - 1
      /\ \A x \in Pid \ {p} : pc'[x] = pc[x] /\ cnt'[x] = cnt[x]
  BY DEF NextValue, TypeOK, memory
<1>2. \A x \in Pid : ~Doomed(x) /\ ~Doomed(x)'
  <2>1. Active(p) /\ Active(p)' /\ Word(p) = 0 /\ Word(p)' = 0
    BY <1>1 DEF Active, Word, ExitStatus
  <2>2. NobodyDoomed /\ NobodyDoomed'
    BY NobodyDoomedAlways, PTL
  <2> QED
    BY <1>1, <2>1, <2>2 DEF NobodyDoomed
<1>3. \A x \in Pid \ {p} : ToCome(x)' = ToCome(x)
  BY <1>1, ToComeSame
<1>4. ToCome(p)' = ToCome(p)
  BY <1>1 DEF ToCome, Left
<1> QED
  BY <1>1, <1>2, <1>3, <1>4, OpenSame

\* A parent learns what its child ended with; who is doomed stays the same.
LEMMA WaitKeepsOpen ==
  ASSUME TypeOK, TypeOK', Chain, Chain', NEW p \in Pid, Wait(p)
  PROVE  Open' = Open
<1>1. PICK c \in Pid :
        /\ c # Root /\ pc[c] = "zombie" /\ parent[c] = p
        /\ status' = [status EXCEPT ![p] = status[c]]
        /\ pc' = [pc EXCEPT ![p] = "check", ![c] = "free"]
  BY DEF Wait
<1>a. DOMAIN pc = Pid /\ DOMAIN status = Pid
  BY DEF TypeOK
<1>b. pc[p] = "wait" /\ UNCHANGED <<prog, path, cnt, parent>>
  BY DEF Wait, memory
<1>2. /\ pc[p] = "wait" /\ p # c /\ UNCHANGED <<prog, path, cnt, parent>>
      /\ pc'[p] = "check" /\ pc'[c] = "free" /\ status'[p] = status[c]
      /\ \A x \in Pid \ {p, c} : pc'[x] = pc[x]
  BY <1>1, <1>a, <1>b
<1>3. Active(c) /\ Active(p)' /\ Word(c) = status[c] /\ Word(p)' = ExitStatus(status[c])
  BY <1>1, <1>2 DEF Active, Word
<1>4. (\A q \in Pid : Active(q) <=> q = c) /\ (\A q \in Pid : Active(q)' <=> q = p)
  BY <1>3 DEF Chain, OneActive
<1>5. ExitStatus(ExitStatus(status[c])) = 0
  BY ExitStatusWord DEF TypeOK
<1>6. \A x \in Pid : Doomed(x) <=>
        \/ x = p /\ status[c] # 0
        \/ p # Root /\ x = parent[p] /\ ExitStatus(status[c]) # 0
  BY <1>1, <1>3, <1>4 DEF Doomed, GivesUp
<1>7. \A x \in Pid : Doomed(x)' <=>
        \/ x = p /\ status[c] # 0
        \/ p # Root /\ x = parent[p] /\ ExitStatus(status[c]) # 0
  BY <1>2, <1>3, <1>4, <1>5 DEF Doomed, GivesUp
<1>8. \A x \in Pid \ {p, c} : ToCome(x)' = ToCome(x)
  BY <1>2, ToComeSame
<1>9. ToCome(p)' = ToCome(p)
  BY <1>2 DEF ToCome, Left
<1>10. \A r \in Leaves(prog) : r \notin ToCome(c) /\ r \notin ToCome(c)'
  BY <1>1, <1>2 DEF ToCome
<1> QED
  BY <1>2, <1>6, <1>7, <1>8, <1>9, <1>10, OpenSame

\* A process that exits on a status it read passes it on; it had given up its
\* values when it read it.
LEMMA ExitKeepsOpen ==
  ASSUME TypeOK, TypeOK', Chain, Chain', NEW p \in Pid, ExitOnStatus(p)
  PROVE  Open' = Open
<1>1. /\ pc[p] = "check" /\ status[p] # 0 /\ UNCHANGED <<prog, path, cnt, parent>>
      /\ pc'[p] = "zombie" /\ status'[p] = ExitStatus(status[p])
      /\ \A x \in Pid \ {p} : pc'[x] = pc[x]
  BY DEF ExitOnStatus, Exit, TypeOK, memory
<1>2. Active(p) /\ Active(p)' /\ Word(p) = ExitStatus(status[p]) /\ Word(p)' = Word(p)
  BY <1>1 DEF Active, Word
<1>3. (\A q \in Pid : Active(q) <=> q = p) /\ (\A q \in Pid : Active(q)' <=> q = p)
  BY <1>2 DEF Chain, OneActive
<1>4. Doomed(p)
  BY <1>1, <1>2 DEF Doomed, GivesUp
<1>5. \A x \in Pid \ {p} : Doomed(x)' <=> Doomed(x)
  BY <1>1, <1>2, <1>3 DEF Doomed, GivesUp
<1>6. \A x \in Pid \ {p} : ToCome(x)' = ToCome(x)
  BY <1>1, ToComeSame
<1>7. \A r \in Leaves(prog) : r \notin ToCome(p)'
  BY <1>1 DEF ToCome
<1> QED
  BY <1>1, <1>4, <1>5, <1>6, <1>7, OpenSame

\* What a process at the bound leaves undone was not admissible.
LEMMA BoundKeepsRemaining ==
  ASSUME TypeOK, TypeOK', Chain, Chain', DepthCountsActivations, Decreasing,
         NEW p \in Pid, ExitOnBound(p)
  PROVE  Remaining' = Remaining
<1>1. /\ pc[p] = "check" /\ status[p] = 0 /\ BoundReached(p)
      /\ UNCHANGED <<prog, config, path, cnt, parent>>
      /\ pc'[p] = "zombie" /\ status'[p] = 0
      /\ \A x \in Pid \ {p} : pc'[x] = pc[x]
  BY DEF ExitOnBound, Exit, TypeOK, memory, ExitStatus
<1>2. \A x \in Pid : ~Doomed(x) /\ ~Doomed(x)'
  <2>1. Active(p) /\ Active(p)' /\ Word(p) = 0 /\ Word(p)' = 0
    BY <1>1 DEF Active, Word, ExitStatus
  <2>2. NobodyDoomed /\ NobodyDoomed'
    BY NobodyDoomedAlways, PTL
  <2> QED
    BY <1>1, <2>1, <2>2 DEF NobodyDoomed
<1>3. \A x \in Pid \ {p} : ToCome(x)' = ToCome(x)
  BY <1>1, ToComeSame
<1>4. ASSUME NEW r \in Leaves(prog), Admissible(prog, config.choose_bound, r)
      PROVE  r \notin ToCome(p) /\ r \notin ToCome(p)'
  <2> DEFINE i == Len(path[p]) + 1
  <2>1. r \notin ToCome(p)'
    BY <1>1 DEF ToCome
  <2> SUFFICES ASSUME r \in ToCome(p) PROVE FALSE
    BY <2>1
  <2>2. Agree(path[p], r, Len(path[p])) /\ Len(path[p]) < Len(r) /\ r[i] < cnt[p] - 1
    BY <1>1, ToComeFacts
  <2>3. /\ prog[path[p]] = Do("choose", want[p]) /\ want[p] \in Nat /\ cnt[p] \in 1 .. want[p]
    BY <1>1, ResultInRange
  <2>4. r[i] \in 0 .. want[p] - 1 /\ Arity(prog, r, i) = want[p]
    BY <2>2, <2>3, ProgramFacts, LeafUnder DEF Do
  <2>5. /\ config.choose_bound \in Nat \ {0}
        /\ DepthOf(prog, path[p]) >= config.choose_bound
    BY <1>1, ProgramFacts DEF BoundReached, DepthCountsActivations, Decreasing
  <2>6. r \in DOMAIN prog
    BY DEF Leaves
  <2>7. r[i] = Arity(prog, r, i) - 1
    BY <1>4, <2>2, <2>5, <2>6, ProgramFacts, AdmissibleBelow
  <2> QED
    BY <2>2, <2>3, <2>4, <2>7
<1>5. Remaining = {r \in Leaves(prog) : Admissible(prog, config.choose_bound, r)
                                        /\ \E x \in Pid : r \in ToCome(x)}
  BY <1>2 DEF Remaining, Open
<1>6. Remaining' = {r \in Leaves(prog) : Admissible(prog, config.choose_bound, r)
                                         /\ \E x \in Pid : r \in ToCome(x)'}
  BY <1>1, <1>2 DEF Remaining, Open
<1> QED
  BY <1>3, <1>4, <1>5, <1>6

-----------------------------------------------------------------------------
(***************************************************************************)
(* A leaf.  The processes above the one that reaches it stand where its    *)
(* path was forked, the parent at the last of these places; so the         *)
(* ancestors that give up are those at the nearest places, and what they   *)
(* still had to come are the leaves SkippedBy names.                       *)
(***************************************************************************)

\* How deep in the tree a process stands.
Place(x) == Len(path[x]) + 1

\* Waiting processes stand at or above the runner.
LEMMA OthersAbove ==
  ASSUME TypeOK, Chain, Branches, NEW p \in Pid, Active(p)
  PROVE  /\ \A x \in Pid \ {p} : Live(x) => OnBranch(x, p)
         /\ \A x \in Pid : Live(x) /\ x # p => pc[x] = "wait"
         /\ \A x \in Pid : OnBranch(x, p) => x # p /\ Live(x)
<1>1. \A x \in Pid : ~OnBranch(p, x)
  BY DEF OnBranch, Active
<1>2. \A x \in Pid \ {p} : Live(x) => OnBranch(x, p)
  BY <1>1 DEF Branches, Linear, Active, Live
<1> QED
  BY <1>1, <1>2 DEF OnBranch, Live

\* Waiting processes above p and places where its path was forked.
LEMMA PlacesAreForks ==
  ASSUME TypeOK, Branches, Decreasing, NEW p \in Pid, Live(p)
  PROVE  /\ \A x \in Pid : OnBranch(x, p) =>
              Place(x) \in ForkPoints(path[p]) /\ path[p][Place(x)] = cnt[x] - 1
         /\ \A i \in ForkPoints(path[p]) : \E x \in Pid : OnBranch(x, p) /\ Place(x) = i
         /\ \A x, y \in Pid : OnBranch(x, y) => Place(x) < Place(y)
<1>1. \A x \in Pid : Len(path[x]) \in Nat
  BY PathType
<1>2. ASSUME NEW x \in Pid, OnBranch(x, p)
      PROVE  Place(x) \in ForkPoints(path[p]) /\ path[p][Place(x)] = cnt[x] - 1
  <2>1. cnt[x] > 1 /\ cnt[x] \in Nat
    BY <1>2 DEF OnBranch, TypeOK, AtNode
  <2>2. path[p][Place(x)] = cnt[x] - 1 /\ Len(path[x]) < Len(path[p])
    BY <1>2 DEF OnBranch, Decreasing, Place
  <2>3. Place(x) \in 1 .. Len(path[p])
    BY <1>1, <2>2 DEF Place
  <2> QED
    BY <2>1, <2>2, <2>3 DEF ForkPoints
<1>3. ASSUME NEW i \in ForkPoints(path[p]) PROVE \E x \in Pid : OnBranch(x, p) /\ Place(x) = i
  <2>1. i \in 1 .. Len(path[p]) /\ path[p][i] > 0
    BY DEF ForkPoints
  <2>2. PICK x \in Pid : OnBranch(x, p) /\ Len(path[x]) = i - 1
    BY <2>1 DEF Branches, Forked
  <2> QED
    BY <2>1, <2>2 DEF Place
<1>4. \A x, y \in Pid : OnBranch(x, y) => Place(x) < Place(y)
  BY <1>1 DEF OnBranch, Place
<1> QED
  BY <1>2, <1>3, <1>4

\* The process at a place gives up exactly if the place is near enough.
LEMMA NearestGiveUp ==
  ASSUME TypeOK, Chain, Branches, Decreasing, NEW p \in Pid, Active(p),
         NEW s \in Nat, NEW x \in Pid, OnBranch(x, p)
  PROVE  Place(x) \in NearestForks(path[p], StatusReach(s)) <=> GivesUp(p, s, x)
<1>1. Live(p) /\ path[p] \in Seq(Nat) /\ \A y \in Pid : Place(y) \in Nat
  BY PathType DEF Active, Live, Place
<1>2. /\ \A y \in Pid : OnBranch(y, p) => Place(y) \in ForkPoints(path[p])
      /\ \A i \in ForkPoints(path[p]) : \E y \in Pid : OnBranch(y, p) /\ Place(y) = i
      /\ \A y, z \in Pid : OnBranch(y, z) => Place(y) < Place(z)
  BY <1>1, PlacesAreForks
<1>3. /\ Place(x) \notin NearestForks(path[p], 0)
      /\ Place(x) \in NearestForks(path[p], 1)
           <=> \A y \in Pid : OnBranch(y, p) => ~(Place(y) > Place(x))
      /\ Place(x) \in NearestForks(path[p], 2)
           <=> \A y, z \in Pid : /\ OnBranch(y, p) /\ Place(y) > Place(x)
                                 /\ OnBranch(z, p) /\ Place(z) > Place(x)
                                 => Place(y) = Place(z)
  <2>1. Place(x) \in ForkPoints(path[p])
    BY <1>2
  <2>2. /\ Place(x) \notin NearestForks(path[p], 0)
        /\ Place(x) \in NearestForks(path[p], 1)
             <=> \A j \in ForkPoints(path[p]) : ~(j > Place(x))
        /\ Place(x) \in NearestForks(path[p], 2)
             <=> \A j, k \in ForkPoints(path[p]) : j > Place(x) /\ k > Place(x) => j = k
    BY <1>1, <2>1, NearestForksAre
  <2> QED
    BY <1>2, <2>2
<1>4. p # Root
  <2>1. OnBranch(Root, x) \/ x = Root
    BY OthersAbove, RootAssumption DEF Branches, RootFirst
  <2>2. \A y \in Pid : ~OnBranch(p, y)
    BY DEF OnBranch, Active
  <2> QED
    BY <2>1, <2>2, OthersAbove
<1> DEFINE a == parent[p]
           b == parent[a]
<1>5. /\ a \in Pid /\ OnBranch(a, p)
      /\ \A z \in Pid : z # a /\ OnBranch(z, p) => OnBranch(z, a)
  <2>1. a \in Pid
    BY DEF TypeOK
  <2> QED
    BY <1>1, <1>4, <2>1 DEF Branches, Nearest
<1>6. a # Root => /\ b \in Pid /\ OnBranch(b, a) /\ OnBranch(b, p)
                  /\ \A z \in Pid : z # b /\ OnBranch(z, a) => OnBranch(z, b)
  <2> SUFFICES ASSUME a # Root
               PROVE  /\ b \in Pid /\ OnBranch(b, a) /\ OnBranch(b, p)
                      /\ \A z \in Pid : z # b /\ OnBranch(z, a) => OnBranch(z, b)
    OBVIOUS
  <2>1. b \in Pid
    BY <1>5 DEF TypeOK
  <2>2. Live(a)
    BY <1>5 DEF OnBranch, Live
  <2>3. /\ OnBranch(b, a)
        /\ \A z \in Pid : z # b /\ OnBranch(z, a) => OnBranch(z, b)
    BY <1>5, <2>1, <2>2 DEF Branches, Nearest
  <2>4. b # p /\ Live(b)
    BY <2>3 DEF OnBranch, Live, Active
  <2>5. OnBranch(b, p)
    BY <2>1, <2>4, OthersAbove
  <2> QED
    BY <2>1, <2>3, <2>5
<1>7. a = Root => x = a
  <2> SUFFICES ASSUME a = Root, x # a PROVE FALSE
    OBVIOUS
  <2>1. OnBranch(x, a) /\ Live(x)
    BY <1>5, OthersAbove
  <2>2. OnBranch(a, x)
    BY <2>1 DEF Branches, RootFirst
  <2> QED
    BY <1>1, <1>2, <1>5, <2>1, <2>2
<1> HIDE DEF a, b
<1>8. Place(x) \in NearestForks(path[p], 1) <=> x = a
  BY <1>1, <1>2, <1>3, <1>5
<1>9. Place(x) \in NearestForks(path[p], 2) <=> x = a \/ (a # Root /\ x = b)
  <2>1. CASE x = a
    <3>1. \A y \in Pid : OnBranch(y, p) => ~(Place(y) > Place(x))
      BY <1>1, <1>2, <1>5, <2>1
    <3> QED
      BY <1>3, <2>1, <3>1
  <2>2. CASE x # a /\ a # Root /\ x = b
    <3>1. \A y \in Pid : OnBranch(y, p) /\ Place(y) > Place(x) => y = a
      BY <1>1, <1>2, <1>5, <1>6, <2>2
    <3> QED
      BY <1>3, <2>2, <3>1
  <2>3. CASE x # a /\ ~(a # Root /\ x = b)
    <3>1. a # Root /\ x # b
      BY <1>7, <2>3
    <3>2. Place(x) < Place(b) /\ Place(b) < Place(a)
      BY <1>2, <1>5, <1>6, <2>3, <3>1
    <3>3. Place(a) > Place(x) /\ Place(b) > Place(x) /\ Place(a) # Place(b)
      BY <1>1, <1>5, <1>6, <3>1, <3>2
    <3>4. ~(Place(x) \in NearestForks(path[p], 2))
      BY <1>3, <1>5, <1>6, <3>1, <3>3
    <3> QED
      BY <2>3, <3>4
  <2> QED
    BY <2>1, <2>2, <2>3
<1>10. GivesUp(p, s, x) <=> (x = a /\ s # 0) \/ (a # Root /\ x = b /\ s % 256 # 0)
  BY <1>4, ExitStatusWord DEF GivesUp, a, b
<1>11. CASE s = 0
  BY <1>3, <1>10, <1>11 DEF StatusReach
<1>12. CASE s # 0 /\ s % 256 = 0
  <2>1. StatusReach(s) = 1
    BY <1>12 DEF StatusReach
  <2> QED
    BY <1>8, <1>10, <1>12, <2>1
<1>13. CASE s % 256 # 0
  <2>1. s # 0
    BY <1>13
  <2>2. StatusReach(s) = 2
    BY <1>13, <2>1 DEF StatusReach
  <2> QED
    BY <1>9, <1>10, <1>13, <2>1, <2>2
<1> QED
  BY <1>11, <1>12, <1>13

\* No leaf is still to come for two processes.
LEMMA Apart ==
  ASSUME TypeOK, Branches, Decreasing, NEW x \in Pid, NEW y \in Pid, Live(x), Live(y),
         x # y, NEW r \in Leaves(prog), r \in ToCome(x)
  PROVE  r \notin ToCome(y)
<1>1. ASSUME NEW v \in Pid, NEW w \in Pid, OnBranch(v, w), r \in ToCome(v), r \in ToCome(w)
      PROVE  FALSE
  <2>1. pc[v] = "wait"
    BY <1>1 DEF OnBranch
  <2>2. Agree(path[w], r, Len(path[w]))
    BY <1>1 DEF ToCome
  <2>3. r[Len(path[v]) + 1] < cnt[v] - 1
    BY <1>1, <2>1, ToComeFacts
  <2>4. path[w][Len(path[v]) + 1] = cnt[v] - 1 /\ Len(path[v]) < Len(path[w])
    BY <1>1 DEF OnBranch, Decreasing
  <2>5. Len(path[v]) + 1 \in 1 .. Len(path[w])
    BY <2>4, PathType
  <2>6. path[w][Len(path[v]) + 1] = r[Len(path[v]) + 1]
    BY <2>2, <2>5 DEF Agree
  <2>7. cnt[v] - 1 \in Int
    <3>1. cnt \in [Pid -> Nat]
      BY DEF TypeOK
    <3> QED
      BY <3>1
  <2> QED
    BY <2>3, <2>4, <2>6, <2>7
<1> QED
  BY <1>1 DEF Branches, Linear

\* The leaves that an end with word s skips are those to come of the processes
\* that give up on it.
LEMMA SkippedAreGivenUp ==
  ASSUME TypeOK, Chain, Branches, Decreasing, NEW p \in Pid, Active(p),
         NEW s \in Nat, NEW r \in Leaves(prog)
  PROVE  r \in SkippedBy(prog, path[p], s)
           <=> \E x \in Pid : OnBranch(x, p) /\ GivesUp(p, s, x) /\ r \in ToCome(x)
<1> DEFINE q == path[p]
           Beyond(i) == Len(r) >= i /\ SubSeq(r, 1, i - 1) = SubSeq(q, 1, i - 1) /\ r[i] < q[i]
<1>1. Live(p) /\ q \in Seq(Nat) /\ r \in Seq(Nat)
  BY ProgramFacts DEF Active, Live, IsTree, Leaves
<1>2. /\ \A x \in Pid : OnBranch(x, p) =>
           Place(x) \in ForkPoints(q) /\ q[Place(x)] = cnt[x] - 1
      /\ \A i \in ForkPoints(q) : \E x \in Pid : OnBranch(x, p) /\ Place(x) = i
  BY <1>1, PlacesAreForks
<1>3. ASSUME NEW x \in Pid, OnBranch(x, p) PROVE r \in ToCome(x) <=> Beyond(Place(x))
  <2> DEFINE n == Len(path[x])
  <2>1. /\ path[x] \in Seq(Nat) /\ n \in Nat /\ Place(x) = n + 1 /\ (n + 1) - 1 = n
        /\ pc[x] = "wait" /\ n < Len(q) /\ Agree(path[x], q, n)
        /\ Len(r) \in Nat
    BY <1>1, <1>3, PathType DEF OnBranch, Place
  <2>2. r \in ToCome(x) <=> Agree(path[x], r, n) /\ n < Len(r) /\ r[n + 1] < q[n + 1]
    BY <1>2, <1>3, <2>1, ToComeFacts
  <2> HIDE DEF n, q
  <2>3. Agree(path[x], r, n) <=> Agree(r, q, n)
    BY <2>1 DEF Agree
  <2>4. ASSUME n < Len(r) PROVE Agree(r, q, n) <=> SubSeq(r, 1, n) = SubSeq(q, 1, n)
    <3>1. n <= Len(r) /\ n <= Len(q) /\ n \in Nat
      BY <1>1, <2>1, <2>4
    <3> QED
      BY <1>1, <3>1, AgreeSubSeq
  <2>5. n < Len(r) <=> Len(r) >= n + 1
    BY <2>1
  <2> QED
    BY <2>1, <2>2, <2>3, <2>4, <2>5
<1>4. r \in SkippedBy(prog, q, s) <=> \E i \in NearestForks(q, StatusReach(s)) : Beyond(i)
  BY DEF SkippedBy
<1>5. \A i \in NearestForks(q, StatusReach(s)) : i \in ForkPoints(q)
  BY DEF NearestForks
<1>6. \A x \in Pid : OnBranch(x, p) =>
        (Place(x) \in NearestForks(q, StatusReach(s)) <=> GivesUp(p, s, x))
  BY NearestGiveUp
<1> HIDE DEF Beyond, q
<1>7. (\E i \in NearestForks(q, StatusReach(s)) : Beyond(i))
        <=> \E x \in Pid : OnBranch(x, p) /\ GivesUp(p, s, x) /\ Beyond(Place(x))
  BY <1>2, <1>5, <1>6
<1> QED
  BY <1>3, <1>4, <1>7 DEF q

\* Process p comes to a leaf.
Reached(p) ==
  /\ pc[p] = "prog"
  /\ prog[path[p]].op # "choose"
  /\ pc' = [pc EXCEPT ![p] = "zombie"]
  /\ status' = [status EXCEPT ![p] = LeafStatus(prog[path[p]], config.no_fail_mode)]
  /\ explored' = Append(explored, path[p])
  /\ error_found' <=> error_found \/ prog[path[p]].op = "fault"
  /\ UNCHANGED <<prog, config, parent, path, cnt>>

\* The ends of paths are the steps that reach a leaf.
LEMMA StepAtLeaf ==
  ASSUME TypeOK, NEW p \in Pid,
         ExitProgram(p) \/ Cancel(p) \/ Abort(p) \/ Fault(p) \/ Fail(p) \/ Crash(p)
  PROVE  Reached(p)
<1>1. ExitStatus(0) = 0
  BY DEF ExitStatus
<1>2. CASE ExitProgram(p)
  BY <1>2 DEF ExitProgram, Reaches, Exit, Reached, LeafStatus, memory
<1>3. CASE Cancel(p)
  BY <1>1, <1>3 DEF Cancel, Reaches, Exit, Reached, LeafStatus, memory
<1>4. CASE Abort(p)
  BY <1>1, <1>4 DEF Abort, Reaches, Exit, Reached, LeafStatus, memory
<1>5. CASE Fault(p)
  BY <1>1, <1>5 DEF Fault, Reaches, Exit, Reached, LeafStatus, memory
<1>6. CASE Fail(p)
  BY <1>6 DEF Fail, Reaches, Reached, LeafStatus, memory
<1>7. CASE Crash(p)
  BY <1>7 DEF Crash, Reaches, Reached, LeafStatus, memory
<1> QED
  BY <1>2, <1>3, <1>4, <1>5, <1>6, <1>7

\* Reaching a leaf takes that leaf, and those skipped by its end, from what is
\* to come; before it nobody was doomed.
LEMMA LeafTakes ==
  ASSUME TypeOK, TypeOK', Chain, Chain', Branches, Decreasing, NEW p \in Pid, Reached(p)
  PROVE  /\ path[p] \in Leaves(prog)
         /\ Open = {r \in Leaves(prog) : \E x \in Pid : r \in ToCome(x)}
         /\ path[p] \in Open
         /\ Open' = Open \ ({path[p]} \cup SkippedBy(prog, path[p],
                              LeafStatus(prog[path[p]], config.no_fail_mode)))
<1> DEFINE q == path[p]
           s == LeafStatus(prog[q], config.no_fail_mode)
<1>1. /\ pc[p] = "prog" /\ prog[q].op # "choose" /\ q \in DOMAIN prog /\ q \in Seq(Nat)
      /\ UNCHANGED <<prog, path, cnt, parent>>
      /\ pc'[p] = "zombie" /\ status'[p] = s
      /\ \A x \in Pid \ {p} : pc'[x] = pc[x]
  BY ProgramFacts DEF Reached, TypeOK
<1>2. s \in Nat
  BY <1>1 DEF TypeOK
<1>3. q \in Leaves(prog)
  BY <1>1 DEF Leaves
<1> HIDE DEF q, s
<1>4. Active(p) /\ Active(p)' /\ Word(p) = 0 /\ Word(p)' = s
  BY <1>1 DEF Active, Word
<1>5. (\A x \in Pid : ~Doomed(x)) /\ (\A x \in Pid \ {p} : Doomed(x)' <=> GivesUp(p, s, x))
  <2>1. NobodyDoomed
    BY NobodyDoomedAlways, PTL
  <2>2. \A x \in Pid : Active(x)' <=> x = p
    BY <1>4 DEF Chain, OneActive
  <2>3. \A x \in Pid \ {p} : Doomed(x)' <=> GivesUp(p, s, x)
    BY <1>1, <1>4, <2>2 DEF Doomed, GivesUp
  <2> QED
    BY <1>1, <1>4, <2>1, <2>3 DEF NobodyDoomed
<1>6. Open = {r \in Leaves(prog) : \E x \in Pid : r \in ToCome(x)}
  BY <1>5 DEF Open
<1>7. ASSUME NEW r \in Leaves(prog) PROVE r \in ToCome(p) <=> r = q
  <2>1. r \in ToCome(p) <=> Agree(q, r, Len(q))
    BY <1>1, ToComeFacts DEF q
  <2>2. Agree(q, r, Len(q)) => r = q
    BY <1>1, ProgramFacts, LeafUnder
  <2>3. Agree(q, q, Len(q))
    BY <1>1 DEF Agree
  <2> QED
    BY <2>1, <2>2, <2>3
<1>8. \A x \in Pid \ {p} : ToCome(x)' = ToCome(x)
  BY <1>1, ToComeSame
<1>9. \A r \in Leaves(prog) : r \notin ToCome(p)'
  BY <1>1 DEF ToCome
<1>10. Open' = {r \in Leaves(prog) :
                  \E x \in Pid \ {p} : r \in ToCome(x) /\ ~GivesUp(p, s, x)}
  <2>1. Open' = {r \in Leaves(prog) : \E x \in Pid : r \in ToCome(x)' /\ ~Doomed(x)'}
    BY <1>1 DEF Open
  <2> QED
    BY <1>5, <1>8, <1>9, <2>1
<1>11. ASSUME NEW r \in Leaves(prog)
       PROVE  r \in SkippedBy(prog, q, s)
                <=> \E x \in Pid \ {p} : r \in ToCome(x) /\ GivesUp(p, s, x)
  <2>1. r \in SkippedBy(prog, q, s)
          <=> \E x \in Pid : OnBranch(x, p) /\ GivesUp(p, s, x) /\ r \in ToCome(x)
    BY <1>2, <1>4, SkippedAreGivenUp DEF q
  <2>2. \A x \in Pid : OnBranch(x, p) => x # p
    BY <1>4, OthersAbove
  <2>3. \A x \in Pid \ {p} : r \in ToCome(x) => OnBranch(x, p)
    <3>1. \A x \in Pid \ {p} : r \in ToCome(x) => Live(x)
      BY ToComeFacts DEF Live
    <3> QED
      BY <1>4, <3>1, OthersAbove
  <2> QED
    BY <2>1, <2>2, <2>3
<1>12. \A x, y \in Pid : \A r \in Leaves(prog) :
         r \in ToCome(x) /\ r \in ToCome(y) => x = y
  <2>1. \A x \in Pid : \A r \in Leaves(prog) : r \in ToCome(x) => Live(x)
    BY ToComeFacts DEF Live
  <2> QED
    BY <2>1, Apart
<1>13. Open' = Open \ ({q} \cup SkippedBy(prog, q, s))
  <2>1. ASSUME NEW r \in Leaves(prog)
        PROVE  (\E x \in Pid \ {p} : r \in ToCome(x) /\ ~GivesUp(p, s, x))
                 <=> /\ \E x \in Pid : r \in ToCome(x)
                     /\ r # q
                     /\ ~\E x \in Pid \ {p} : r \in ToCome(x) /\ GivesUp(p, s, x)
    BY <1>7, <1>12
  <2> QED
    BY <1>6, <1>10, <1>11, <2>1
<1> QED
  BY <1>3, <1>6, <1>7, <1>13 DEF q, s

\* The leaf that is reached is the first of those to come.
LEMMA LeafIsFirst ==
  ASSUME TypeOK, TypeOK', Chain, Chain', Branches, Allowed, Decreasing,
         NEW p \in Pid, Reached(p)
  PROVE  path[p] \in Remaining /\ First(Remaining) = path[p]
<1> DEFINE q == path[p]
<1>1. /\ q \in Leaves(prog) /\ q \in Open
      /\ Open = {r \in Leaves(prog) : \E x \in Pid : r \in ToCome(x)}
  BY LeafTakes
<1>2. Active(p) /\ Live(p) /\ pc[p] = "prog" /\ prog[q].op # "choose"
  BY DEF Reached, Active, Live
<1>3. q \in Remaining
  BY <1>1, <1>2 DEF Allowed, Remaining
<1>4. Remaining \in SUBSET Seq(Nat) /\ q \in Seq(Nat) /\ q \in DOMAIN prog
  BY ProgramFacts DEF Remaining, Open, Leaves, IsTree
<1>5. ASSUME NEW r \in Remaining, r # q PROVE Precedes(q, r)
  <2>1. r \in Leaves(prog) /\ r \in Seq(Nat)
    BY <1>4 DEF Remaining, Open
  <2>2. PICK x \in Pid : r \in ToCome(x)
    BY <1>1 DEF Remaining
  <2>3. x # p
    <3>1. r \in ToCome(p) => Agree(q, r, Len(q))
      BY <1>2, <2>1, ToComeFacts
    <3>2. Agree(q, r, Len(q)) => r = q
      BY <1>2, <1>4, <2>1, ProgramFacts, LeafUnder
    <3> QED
      BY <1>5, <2>2, <3>1, <3>2
  <2>4. OnBranch(x, p) /\ pc[x] = "wait"
    <3>1. Live(x)
      BY <2>1, <2>2, ToComeFacts DEF Live
    <3> QED
      BY <1>2, <2>3, <3>1, OthersAbove
  <2> DEFINE n == Len(path[x])
  <2>5. /\ path[x] \in Seq(Nat) /\ n \in Nat
        /\ Agree(path[x], q, n) /\ n < Len(q) /\ q[n + 1] = cnt[x] - 1
    BY <2>4, PathType DEF OnBranch, Decreasing
  <2>6. Agree(path[x], r, n) /\ n < Len(r) /\ r[n + 1] < cnt[x] - 1
    BY <2>1, <2>2, <2>4, ToComeFacts
  <2> HIDE DEF n, q
  <2>7. Agree(q, r, n)
    BY <2>5, <2>6 DEF Agree
  <2>8. Len(q) \in Nat /\ Len(r) \in Nat
    BY <1>4, <2>1
  <2>9. SubSeq(q, 1, n) = SubSeq(r, 1, n)
    <3>1. n \in Nat /\ n <= Len(q) /\ n <= Len(r)
      BY <2>5, <2>6, <2>8
    <3> QED
      BY <1>4, <2>1, <2>7, <3>1, AgreeSubSeq
  <2>10. n + 1 \in 1 .. Len(q) /\ n + 1 <= Len(r) /\ (n + 1) - 1 = n
    BY <2>5, <2>6, <2>8
  <2>11. q[n + 1] > r[n + 1]
    <3>1. q[n + 1] \in Nat /\ r[n + 1] \in Nat
      BY <1>4, <2>1, <2>10
    <3> QED
      BY <2>5, <2>6, <3>1
  <2> QED
    BY <2>9, <2>10, <2>11 DEF Precedes
<1> QED
  BY <1>3, <1>4, <1>5, FirstIs

-----------------------------------------------------------------------------
(***************************************************************************)
(* The enumeration and the processes have the same leaves before them.     *)
(***************************************************************************)

\* The instance speaks of the same trees.
LEMMA SameTree ==
  /\ \A f : E!Leaves(f) = Leaves(f)
  /\ \A f, b, q : E!Admissible(f, b, q) = Admissible(f, b, q)
  /\ \A f, q, s : E!SkippedBy(f, q, s) = SkippedBy(f, q, s)
  /\ \A n, b : E!LeafStatus(n, b) = LeafStatus(n, b)
  /\ \A S : E!First(S) = First(S)
<1>1. \A f : E!Leaves(f) = Leaves(f)
  BY DEF E!Leaves, Leaves
<1>2. \A f, q, i : E!Arity(f, q, i) = Arity(f, q, i)
  BY DEF E!Arity, Arity
<1>3. \A f, q, i : E!DepthBefore(f, q, i) = DepthBefore(f, q, i)
  BY DEF E!DepthBefore, DepthBefore, E!Arity, Arity
<1>4. \A f, b, q : E!Admissible(f, b, q) = Admissible(f, b, q)
  BY <1>2, <1>3 DEF E!Admissible, Admissible
<1>5. \A q : E!ForkPoints(q) = ForkPoints(q)
  BY DEF E!ForkPoints, ForkPoints
<1>6. \A q, k : E!NearestForks(q, k) = NearestForks(q, k)
  <2>1. \A S : E!Cardinality(S) = Cardinality(S)
    BY DEF E!Cardinality, Cardinality
  <2> QED
    BY <1>5, <2>1 DEF E!NearestForks, NearestForks
<1>7. \A s : E!StatusReach(s) = StatusReach(s)
  BY DEF E!StatusReach, StatusReach
<1>8. \A f, q, s : E!SkippedBy(f, q, s) = SkippedBy(f, q, s)
  BY <1>1, <1>6, <1>7 DEF E!SkippedBy, SkippedBy
<1>9. \A n, b : E!LeafStatus(n, b) = LeafStatus(n, b)
  BY DEF E!LeafStatus, LeafStatus, E!ExitStatus, ExitStatus, E!SIGILL, SIGILL
<1>10. \A S : E!First(S) = First(S)
  BY DEF E!First, First, E!Precedes, Precedes
<1> QED
  BY <1>1, <1>4, <1>8, <1>9, <1>10

\* What is pending, in the words of this module.
LEMMA PendingIs ==
  /\ E!Pending = {r \in Leaves(prog) : Admissible(prog, config.choose_bound, r)}
                    \ (E!Visited \cup E!Skipped)
  /\ E!Visited = {explored[i] : i \in 1 .. Len(explored)}
  /\ E!Skipped = UNION {SkippedBy(prog, explored[i],
                          LeafStatus(prog[explored[i]], config.no_fail_mode))
                            : i \in 1 .. Len(explored)}
<1>1. E!Pending = {r \in Leaves(prog) : Admissible(prog, config.choose_bound, r)}
                    \ (E!Visited \cup E!Skipped)
  BY SameTree DEF E!Pending
<1>2. E!Visited = {explored[i] : i \in 1 .. Len(explored)}
  BY DEF E!Visited
<1>3. E!Skipped = UNION {SkippedBy(prog, explored[i],
                          LeafStatus(prog[explored[i]], config.no_fail_mode))
                            : i \in 1 .. Len(explored)}
  BY SameTree DEF E!Skipped
<1> QED
  BY <1>1, <1>2, <1>3

\* The same after a step.
LEMMA PendingIsNext ==
  /\ E!Pending' = {r \in Leaves(prog') : Admissible(prog', config'.choose_bound, r)}
                     \ (E!Visited' \cup E!Skipped')
  /\ E!Visited' = {explored'[i] : i \in 1 .. Len(explored')}
  /\ E!Skipped' = UNION {SkippedBy(prog', explored'[i],
                           LeafStatus(prog'[explored'[i]], config'.no_fail_mode))
                             : i \in 1 .. Len(explored')}
<1>1. E!Pending' = {r \in Leaves(prog') : Admissible(prog', config'.choose_bound, r)}
                     \ (E!Visited' \cup E!Skipped')
  BY SameTree DEF E!Pending
<1>2. E!Visited' = {explored'[i] : i \in 1 .. Len(explored')}
  BY DEF E!Visited
<1>3. E!Skipped' = UNION {SkippedBy(prog', explored'[i],
                           LeafStatus(prog'[explored'[i]], config'.no_fail_mode))
                             : i \in 1 .. Len(explored')}
  BY SameTree DEF E!Skipped
<1> QED
  BY <1>1, <1>2, <1>3

\* A leaf that is reached is visited, and its end skips others.
LEMMA GoneAtLeaf ==
  ASSUME TypeOK, NEW p \in Pid, Reached(p)
  PROVE  /\ E!Visited' = E!Visited \cup {path[p]}
         /\ E!Skipped' = E!Skipped \cup SkippedBy(prog, path[p],
                           LeafStatus(prog[path[p]], config.no_fail_mode))
<1> DEFINE q == path[p]
           SkippedAt(u) == SkippedBy(prog, u, LeafStatus(prog[u], config.no_fail_mode))
           n == Len(explored)
<1>1. UNCHANGED <<prog, config>> /\ explored' = Append(explored, q)
  BY DEF Reached
<1>2. explored \in Seq(Seq(Nat)) /\ n \in Nat
  BY DEF TypeOK
<1>3. /\ Len(explored') = n + 1
      /\ explored'[n + 1] = q
      /\ \A i \in 1 .. n : explored'[i] = explored[i]
  BY <1>1, <1>2
<1>4. /\ E!Visited = {explored[i] : i \in 1 .. n}
      /\ E!Visited' = {explored'[i] : i \in 1 .. n + 1}
      /\ E!Skipped = UNION {SkippedAt(explored[i]) : i \in 1 .. n}
  BY <1>3, PendingIs, PendingIsNext
<1>5. E!Skipped' = UNION {SkippedAt(explored'[i]) : i \in 1 .. n + 1}
  BY <1>1, <1>3, PendingIsNext
<1> HIDE DEF q, SkippedAt, n
<1>6. (1 .. n + 1) = (1 .. n) \cup {n + 1}
  BY <1>2
<1>7. E!Visited' = E!Visited \cup {q}
  BY <1>3, <1>4, <1>6
<1>8. E!Skipped' = E!Skipped \cup SkippedAt(q)
  <2>1. {SkippedAt(explored'[i]) : i \in 1 .. n + 1}
          = {SkippedAt(explored[i]) : i \in 1 .. n} \cup {SkippedAt(q)}
    BY <1>3, <1>6
  <2> QED
    BY <1>4, <1>5, <2>1
<1> QED
  BY <1>7, <1>8 DEF q, SkippedAt

\* The leaf a process ends at is the next of the abstract run.
LEMMA PendingAtLeaf ==
  ASSUME TypeOK, NEW p \in Pid, Reached(p)
  PROVE  E!Pending' = E!Pending \ ({path[p]} \cup SkippedBy(prog, path[p],
                                    LeafStatus(prog[path[p]], config.no_fail_mode)))
<1>1. UNCHANGED <<prog, config>>
  BY DEF Reached
<1>2. E!Pending' = {r \in Leaves(prog) : Admissible(prog, config.choose_bound, r)}
                     \ (E!Visited' \cup E!Skipped')
  BY <1>1, PendingIsNext
<1> QED
  BY <1>2, GoneAtLeaf, PendingIs

\* Nothing is visited by a step that reaches no leaf.
LEMMA PendingSame ==
  ASSUME UNCHANGED <<prog, config, explored>>
  PROVE  E!Pending' = E!Pending
BY PendingIs, PendingIsNext

\* The steps that do not reach a leaf.
LEMMA StepNotAtLeaf ==
  ASSUME TypeOK, NEW p \in Pid, Step(p), ~Reached(p)
  PROVE  /\ UNCHANGED <<prog, config, explored, error_found>>
         /\ \/ CallChoose(p) \/ AskChoose(p) \/ Fork(p) \/ ForkFails(p)
            \/ ReturnLast(p) \/ Wait(p) \/ ExitOnStatus(p) \/ ExitOnError(p)
            \/ ExitOnBound(p) \/ NextValue(p)
<1>1. \/ CallChoose(p) \/ AskChoose(p) \/ Fork(p) \/ ForkFails(p)
      \/ ReturnLast(p) \/ Wait(p) \/ ExitOnStatus(p) \/ ExitOnError(p)
      \/ ExitOnBound(p) \/ NextValue(p)
  BY StepAtLeaf DEF Step
<1>2. UNCHANGED <<explored, error_found>>
  BY <1>1 DEF CallChoose, AskChoose, Fork, ForkFails, ReturnLast, Wait, ExitOnStatus,
     ExitOnError, ExitOnBound, NextValue
<1> QED
  BY <1>1, <1>2, StepKeepsProgram

\* They leave what is to come alone, but for the exit at the bound.
LEMMA StepKeepsOpen ==
  ASSUME TypeOK, TypeOK', Chain, Chain', Decreasing, SlotFree, ~error_found,
         NEW p \in Pid, Step(p), ~Reached(p), ~ExitOnBound(p)
  PROVE  Open' = Open
<1>1. ~AskChoose(p) /\ ~ForkFails(p) /\ ~ExitOnError(p)
  BY DEF AskChoose, ForkFails, ExitOnError, Decreasing, SlotFree
<1> QED
  BY <1>1, StepNotAtLeaf, CallKeepsOpen, ForkKeepsOpen, ReturnKeepsOpen,
     WaitKeepsOpen, ExitKeepsOpen, NextValueKeepsOpen

\* Steps that end no path keep the remaining leaves.
LEMMA StepKeepsRemaining ==
  ASSUME TypeOK, TypeOK', Chain, Chain', DepthCountsActivations, Decreasing, SlotFree,
         ~error_found, NEW p \in Pid, Step(p), ~Reached(p)
  PROVE  Remaining' = Remaining
<1>1. UNCHANGED <<prog, config>>
  BY StepNotAtLeaf
<1>2. ASSUME Open' = Open PROVE Remaining' = Remaining
  BY <1>1, <1>2 DEF Remaining
<1> QED
  BY <1>2, StepKeepsOpen, BoundKeepsRemaining

\* At the start every leaf is to come.
LEMMA OpenInit == Init => Open = Leaves(prog)
<1> SUFFICES ASSUME Init PROVE Open = Leaves(prog)
  OBVIOUS
<1>1. \A x \in Pid : ~Doomed(x)
  <2>1. Active(Root) /\ Word(Root) = 0 /\ pc[Root] = "prog"
    BY RootAssumption DEF Init, Active, Word
  <2>2. NobodyDoomed
    BY ChainInit, NobodyDoomedAlways, PTL
  <2> QED
    BY <2>1, <2>2, RootAssumption DEF NobodyDoomed
<1>2. \A r \in Leaves(prog) : r \in ToCome(Root)
  <2>1. path[Root] = << >> /\ pc[Root] = "prog"
    BY RootAssumption DEF Init
  <2>2. \A r \in Leaves(prog) : r \in Seq(Nat)
    BY TypeInit, ProgramFacts DEF Leaves, IsTree
  <2>3. \A r \in Leaves(prog) : Agree(<< >>, r, 0)
    BY <2>2 DEF Agree
  <2> QED
    BY <2>1, <2>3 DEF ToCome
<1> QED
  BY <1>1, <1>2, RootAssumption DEF Open

\* At the start all leaves within the bound remain.
LEMMA SamePendingInit == Init => SamePending
<1> SUFFICES ASSUME Init PROVE E!Pending = Remaining
  BY DEF SamePending
<1>1. Len(explored) = 0
  BY DEF Init
<1>2. E!Visited = {} /\ E!Skipped = {}
  BY <1>1, PendingIs
<1>3. E!Pending = {r \in Leaves(prog) : Admissible(prog, config.choose_bound, r)}
  BY <1>2, PendingIs
<1> QED
  BY <1>3, OpenInit DEF Remaining

\* The remaining leaves are what the abstract run has pending.
LEMMA SamePendingStep ==
  ASSUME TypeOK, TypeOK', Chain, Chain', Branches, DepthCountsActivations, Allowed,
         SamePending, SlotFree, [Next]_vars
  PROVE  SamePending'
<1> SUFFICES ASSUME Decreasing', ~error_found' PROVE E!Pending' = Remaining'
  BY DEF SamePending
<1>1. ASSUME NEW p \in Pid, Step(p) PROVE E!Pending' = Remaining'
  <2>1. UNCHANGED <<prog, config>> /\ Decreasing
    BY <1>1, StepKeepsProgram DEF Decreasing
  <2>2. CASE Reached(p)
    <3>1. ~error_found
      BY <2>2 DEF Reached
    <3>2. E!Pending = Remaining
      BY <2>1, <3>1 DEF SamePending
    <3>3. Remaining' = Remaining \ ({path[p]} \cup SkippedBy(prog, path[p],
                                     LeafStatus(prog[path[p]], config.no_fail_mode)))
      <4>1. Open' = Open \ ({path[p]} \cup SkippedBy(prog, path[p],
                              LeafStatus(prog[path[p]], config.no_fail_mode)))
        BY <2>1, <2>2, LeafTakes
      <4> QED
        BY <2>1, <4>1 DEF Remaining
    <3> QED
      BY <2>2, <3>2, <3>3, PendingAtLeaf
  <2>3. CASE ~Reached(p)
    <3>1. UNCHANGED <<prog, config, explored, error_found>>
      BY <1>1, <2>3, StepNotAtLeaf
    <3>2. E!Pending' = E!Pending
      BY <3>1, PendingSame
    <3>3. E!Pending = Remaining
      BY <2>1, <3>1 DEF SamePending
    <3>4. Remaining' = Remaining
      BY <1>1, <2>1, <2>3, <3>1, StepKeepsRemaining
    <3> QED
      BY <3>2, <3>3, <3>4
  <2> QED
    BY <2>2, <2>3
<1>2. CASE UNCHANGED vars
  <2>1. UNCHANGED <<prog, config, error_found, explored, pc, path, parent, cnt, status>>
    BY <1>2 DEF vars, memory, frame
  <2>2. E!Pending' = E!Pending
    BY <2>1, PendingSame
  <2>3. Remaining' = Remaining
    BY <2>1 DEF Remaining, Open, ToCome, Left, Doomed, GivesUp, Active, Word
  <2> QED
    BY <2>1, <2>2, <2>3 DEF SamePending, Decreasing
<1> QED
  BY <1>1, <1>2 DEF Next, Terminated

\* All of it holds in runs where a slot is free whenever a process forks.
LEMMA ExplorationInvariant == Spec /\ []SlotFree => []Invariant
<1>1. Init => Invariant
  BY TypeInit, ChainInit, BranchesInit, CountInit, AllowedInit, SamePendingInit
  DEF Invariant
<1>2. Invariant /\ SlotFree /\ [Next]_vars => Invariant'
  BY TypeStep, ChainStep, BranchesStep, CountStep, AllowedStep, SamePendingStep
  DEF Invariant
<1> QED
  BY <1>1, <1>2, PTL DEF Spec

-----------------------------------------------------------------------------
(***************************************************************************)
(* The refinement.                                                         *)
(***************************************************************************)

\* Once the first process has ended there is no other, and nothing to come.
NothingAfter == Done => Open = {} /\ \A x \in Pid \ {Root} : pc[x] = "free"

\* Without a live process nothing more happens.
LEMMA NothingAfterAlways == [](TypeOK /\ Branches => NothingAfter)
<1>1. TypeOK /\ Branches => NothingAfter
  <2> SUFFICES ASSUME TypeOK, Branches, Done
               PROVE  Open = {} /\ \A x \in Pid \ {Root} : pc[x] = "free"
    BY DEF NothingAfter
  <2>1. \A x \in Pid : ~OnBranch(Root, x)
    BY DEF OnBranch, Done
  <2>2. \A x \in Pid \ {Root} : pc[x] = "free"
    BY <2>1 DEF Branches, RootFirst, Live
  <2>3. \A x \in Pid : \A r \in Leaves(prog) : r \notin ToCome(x)
    BY <2>2, ToComeFacts DEF Done
  <2> QED
    BY <2>2, <2>3 DEF Open
<1> QED
  BY <1>1, PTL

\* A run that is over makes no step.
LEMMA DoneStops ==
  ASSUME TypeOK, Branches, Done, NEW p \in Pid
  PROVE  ~Step(p)
<1>1. NothingAfter
  BY NothingAfterAlways, PTL
<1>2. pc[p] \in {"free", "zombie"}
  BY <1>1 DEF NothingAfter, Done
<1> QED
  BY <1>2
  DEF Step, CallChoose, AskChoose, Fork, ForkFails, ReturnLast, Wait, ExitOnStatus,
      ExitOnError, ExitOnBound, NextValue, ExitProgram, Cancel, Abort, Fault, Fail,
      Crash, Reaches

\* Reaching a leaf is a visit of the abstract run.
LEMMA LeafIsVisit ==
  ASSUME Invariant, Invariant', Decreasing, NEW p \in Pid, Reached(p)
  PROVE  E!Visit
<1>1. /\ TypeOK /\ TypeOK' /\ Chain /\ Chain' /\ Branches /\ Branches'
      /\ Allowed /\ SamePending /\ SamePending'
  BY DEF Invariant
<1>2. ~error_found
  BY <1>1 DEF Chain, Stopping, Reached
<1>3. E!Pending = Remaining /\ UNCHANGED <<prog, config>> /\ Decreasing'
  BY <1>1, <1>2 DEF SamePending, Reached, Decreasing
<1>4. E!Pending # {} /\ First(E!Pending) = path[p]
  BY <1>1, <1>3, LeafIsFirst
<1>5. explored' = Append(explored, First(E!Pending))
  BY <1>4 DEF Reached
<1>6. error_found' = E!IsFault(First(E!Pending))
  <2>1. error_found' \in BOOLEAN
    BY <1>1 DEF TypeOK
  <2> QED
    BY <1>2, <1>4, <2>1 DEF Reached, E!IsFault
<1>7. Done' => error_found' \/ E!Pending' = {}
  <2> SUFFICES ASSUME Done', ~error_found' PROVE E!Pending' = {}
    OBVIOUS
  <2>1. E!Pending' = Remaining'
    BY <1>1, <1>3 DEF SamePending
  <2>2. NothingAfter'
    BY <1>1, NothingAfterAlways, PTL
  <2> QED
    BY <2>1, <2>2 DEF NothingAfter, Remaining
<1>8. Done' \in BOOLEAN
  BY DEF Done
<1>9. E!First(E!Pending) = First(E!Pending)
  BY SameTree
<1> QED
  BY <1>2, <1>3, <1>4, <1>5, <1>6, <1>7, <1>8, <1>9 DEF E!Visit

\* Every step is a visit, the stop of the abstract run, or a stutter.
LEMMA StepRefines ==
  ASSUME Invariant, Invariant', Decreasing, SlotFree, [Next]_vars
  PROVE  [E!Next]_(E!vars)
<1>0. /\ TypeOK /\ TypeOK' /\ Chain /\ Chain' /\ Branches /\ Branches'
      /\ DepthCountsActivations /\ Allowed /\ SamePending /\ SamePending'
  BY DEF Invariant
<1>1. ASSUME NEW p \in Pid, Step(p) PROVE E!Next \/ UNCHANGED E!vars
  <2>1. CASE Reached(p)
    BY <2>1, LeafIsVisit DEF E!Next
  <2>2. CASE ~Reached(p)
    <3>1. UNCHANGED <<prog, config, explored, error_found>>
      BY <1>0, <1>1, <2>2, StepNotAtLeaf
    <3>2. ~Done
      BY <1>0, <1>1, DoneStops
    <3>3. CASE ~Done'
      <4>1. Done' = Done
        BY <3>2, <3>3 DEF Done
      <4> QED
        BY <3>1, <4>1 DEF E!vars
    <3>4. CASE Done'
      <4>1. error_found \/ E!Pending = {}
        <5> SUFFICES ASSUME ~error_found PROVE E!Pending = {}
          OBVIOUS
        <5>1. Decreasing' /\ ~error_found'
          BY <3>1 DEF Decreasing
        <5>2. E!Pending' = Remaining'
          BY <1>0, <5>1 DEF SamePending
        <5>3. NothingAfter'
          BY <1>0, NothingAfterAlways, PTL
        <5>4. E!Pending' = E!Pending
          BY <3>1, PendingSame
        <5> QED
          BY <3>4, <5>2, <5>3, <5>4 DEF NothingAfter, Remaining
      <4>2. Done' = TRUE
        BY <3>4 DEF Done
      <4> QED
        BY <3>1, <3>2, <4>1, <4>2 DEF E!Next, E!Finish
    <3> QED
      BY <3>3, <3>4
  <2> QED
    BY <2>1, <2>2
<1>2. CASE UNCHANGED vars
  <2>1. UNCHANGED <<prog, config, explored, error_found, pc>>
    BY <1>2 DEF vars
  <2>2. Done' = Done
    BY <2>1 DEF Done
  <2> QED
    BY <2>1, <2>2 DEF E!vars
<1> QED
  BY <1>1, <1>2 DEF Next, Terminated

\* Options do not change during a run.
LEMMA DecreasingAlways == Spec /\ Decreasing => []Decreasing
<1>1. Decreasing /\ [Next]_vars => Decreasing'
  <2> SUFFICES ASSUME Decreasing, [Next]_vars PROVE Decreasing'
    OBVIOUS
  <2>1. UNCHANGED config
    BY StepKeepsProgram DEF Next, Terminated, vars
  <2> QED
    BY <2>1 DEF Decreasing
<1> QED
  BY <1>1, PTL DEF Spec

\* In the default mode, and as long as fork finds a process, a run is the
\* depth-first enumeration of the paths of the program: each admissible leaf
\* once, highest values first, up to the first fault, without the leaves that
\* an abnormal end makes the ancestors give up, and the first process ends only
\* when nothing is left.
THEOREM RefinesExplorationTheorem ==
  Spec /\ Decreasing /\ []SlotFree => RefinesExploration
<1>1. Init => E!Init
  BY RootAssumption DEF Init, E!Init, Done
<1> QED
  BY <1>1, DecreasingAlways, ExplorationInvariant, StepRefines, PTL
  DEF Spec, RefinesExploration, E!Spec

-----------------------------------------------------------------------------
(***************************************************************************)
(* Processes enough.  The live processes stand at different heights above  *)
(* the one that forks, so there are no more of them than choices on its    *)
(* path.                                                                   *)
(***************************************************************************)

\* The process limit of the system leaves one process for every choice on a
\* path, the one about to be answered included, and one more.
EnoughSlots ==
  /\ IsFiniteSet(Pid)
  /\ \A f \in Programs : \A q \in DOMAIN f :
       f[q].op = "choose" => Len(q) + 1 < Cardinality(Pid)

\* A chain of waiting processes is no longer than the tree is deep.
LEMMA SlotsSuffice ==
  ASSUME TypeOK, Chain, Branches, EnoughSlots
  PROVE  SlotFree
<1> SUFFICES ASSUME NEW p \in Pid, pc[p] = "fork", \A c \in Pid : pc[c] # "free"
             PROVE  FALSE
  BY DEF SlotFree
<1> DEFINE n == Len(path[p])
           Height == [x \in Pid |-> Len(path[x])]
<1>1. n \in Nat /\ \A x \in Pid : Len(path[x]) \in Nat
  BY PathType
<1>2. n + 1 < Cardinality(Pid) /\ IsFiniteSet(Pid)
  <2>1. prog \in Programs /\ path[p] \in DOMAIN prog
    BY DEF TypeOK, AtNode
  <2>2. prog[path[p]].op = "choose"
    <3>1. prog[path[p]] = Do("choose", want[p])
      BY ResultInRange
    <3> QED
      BY <3>1 DEF Do
  <2> QED
    BY <2>1, <2>2 DEF EnoughSlots
<1>3. \A x \in Pid : Live(x)
  BY DEF Live
<1>4. \A x \in Pid \ {p} : OnBranch(x, p)
  BY <1>3, OthersAbove DEF Active
<1>5. Height \in [Pid -> 0 .. n]
  BY <1>1, <1>4 DEF OnBranch
<1>6. IsFiniteSet(0 .. n) /\ Cardinality(0 .. n) = n + 1
  BY <1>1, FS_Interval
<1>7. PICK x, y \in Pid : x # y /\ Height[x] = Height[y]
  <2>1. Cardinality(0 .. n) < Cardinality(Pid)
    BY <1>2, <1>6
  <2> HIDE DEF Height, n
  <2>2. \A f \in [Pid -> 0 .. n] : \E x, y \in Pid : x # y /\ f[x] = f[y]
    BY <1>2, <1>6, <2>1, FS_PigeonHole
  <2> QED
    BY <1>5, <2>2
<1>8. OnBranch(x, y) \/ OnBranch(y, x)
  BY <1>3, <1>7 DEF Branches, Linear
<1> QED
  BY <1>1, <1>7, <1>8 DEF OnBranch

\* When the limit on processes allows one more process than there are choices
\* on a path, fork never fails, whatever the order of the values.
THEOREM SlotFreeAlways == Spec /\ EnoughSlots => []SlotFree
<1> SUFFICES ASSUME EnoughSlots PROVE Spec => []SlotFree
  OBVIOUS
<1>1. TypeOK /\ Chain /\ Branches => SlotFree
  BY SlotsSuffice
<1> QED
  BY <1>1, BranchInvariant, PTL

\* The refinement, with the limit on processes as the only condition on the
\* system that runs the program.
THEOREM RefinesWithEnoughSlots ==
  Spec /\ Decreasing /\ EnoughSlots => RefinesExploration
BY SlotFreeAlways, RefinesExplorationTheorem, PTL

-----------------------------------------------------------------------------
(***************************************************************************)
(* What a run leaves out.  Quiet ends give nothing up, so that without a   *)
(* bound, or with one that was never reported, every path was run.         *)
(***************************************************************************)

\* The paths that were run are paths of the program, and the flag and the
\* report tell how they ended.
History ==
  /\ \A i \in 1 .. Len(explored) : explored[i] \in Leaves(prog)
  /\ error_found <=> \E i \in 1 .. Len(explored) : prog[explored[i]].op = "fault"
  /\ "reach_error" \in report
       <=> \E i \in 1 .. Len(explored) : prog[explored[i]] = Do("fault", 1)
  /\ "fault" \in report
       <=> \E i \in 1 .. Len(explored) :
             prog[explored[i]].op = "fault" /\ prog[explored[i]].arg # 1
  /\ "unsupported" \in report
       <=> \E i \in 1 .. Len(explored) : prog[explored[i]].op = "fail"

\* As long as no bounded exit was reported, nothing was left out but what an
\* abnormal end gave up.
SameOpen ==
  Decreasing /\ ~error_found /\ "bounded" \notin report
    => Leaves(prog) \ (E!Visited \cup E!Skipped) = Open

\* The empty history.
LEMMA HistoryInit == Init => History
<1> SUFFICES ASSUME Init PROVE History
  OBVIOUS
<1>1. Len(explored) = 0 /\ report = {} /\ error_found = FALSE
  BY DEF Init
<1> QED
  BY <1>1 DEF History

\* What the end of a path adds to the report.
LEMMA LeafReports ==
  ASSUME TypeOK, NEW p \in Pid, Step(p), Reached(p)
  PROVE  /\ "reach_error" \in report'
              <=> "reach_error" \in report \/ prog[path[p]] = Do("fault", 1)
         /\ "fault" \in report' <=> \/ "fault" \in report
                                    \/ prog[path[p]].op = "fault" /\ prog[path[p]].arg # 1
         /\ "unsupported" \in report'
              <=> "unsupported" \in report \/ prog[path[p]].op = "fail"
         /\ "bounded" \in report' <=> "bounded" \in report
<1>1. prog[path[p]] \in Node /\ pc[p] = "prog" /\ prog[path[p]].op # "choose"
  BY TreeFacts DEF TypeOK, AtNode, Reached
<1>2. prog[path[p]] = Do("fault", 1) <=> prog[path[p]].op = "fault" /\ prog[path[p]].arg = 1
  BY <1>1 DEF Do, Node
<1>3. \/ ExitProgram(p) \/ Cancel(p) \/ Abort(p) \/ Fault(p) \/ Fail(p) \/ Crash(p)
  BY <1>1 DEF Step, CallChoose, AskChoose, Fork, ForkFails, ReturnLast, Wait,
     ExitOnStatus, ExitOnError, ExitOnBound, NextValue
<1>4. CASE Fault(p)
  BY <1>2, <1>4 DEF Fault, Reaches
<1>5. CASE Fail(p)
  BY <1>2, <1>5 DEF Fail, Reaches
<1>6. CASE ExitProgram(p) \/ Cancel(p) \/ Abort(p) \/ Crash(p)
  BY <1>2, <1>6 DEF ExitProgram, Cancel, Abort, Crash, Reaches
<1> QED
  BY <1>3, <1>4, <1>5, <1>6

\* The other steps report a bounded exit at most.
LEMMA StepReports ==
  ASSUME TypeOK, NEW p \in Pid, Step(p), ~Reached(p)
  PROVE  report' = report \/ (report' = report \cup {"bounded"} /\ ExitOnBound(p))
BY StepNotAtLeaf DEF CallChoose, AskChoose, Fork, ForkFails, ReturnLast, Wait,
   ExitOnStatus, ExitOnError, ExitOnBound, NextValue

\* Ending a path extends the history, other steps keep it.
LEMMA HistoryStep == TypeOK /\ History /\ [Next]_vars => History'
<1> SUFFICES ASSUME TypeOK, History, [Next]_vars PROVE History'
  OBVIOUS
<1>1. ASSUME NEW p \in Pid, Step(p) PROVE History'
  <2>1. CASE Reached(p)
    <3> DEFINE n == Len(explored)
               q == path[p]
    <3>1. /\ UNCHANGED prog /\ n \in Nat /\ Len(explored') = n + 1
          /\ explored'[n + 1] = q
          /\ \A i \in 1 .. n : explored'[i] = explored[i]
      BY <2>1 DEF Reached, TypeOK
    <3>2. (1 .. n + 1) = (1 .. n) \cup {n + 1}
      BY <3>1
    <3>3. q \in Leaves(prog)
      BY <2>1, ProgramFacts DEF Reached, Leaves
    <3>4. error_found' <=> error_found \/ prog[q].op = "fault"
      BY <2>1 DEF Reached
    <3>5. /\ "reach_error" \in report'
               <=> "reach_error" \in report \/ prog[q] = Do("fault", 1)
          /\ "fault" \in report' <=> \/ "fault" \in report
                                     \/ prog[q].op = "fault" /\ prog[q].arg # 1
          /\ "unsupported" \in report'
               <=> "unsupported" \in report \/ prog[q].op = "fail"
      BY <1>1, <2>1, LeafReports
    <3> HIDE DEF n, q
    <3>6. \A i \in 1 .. n + 1 : explored'[i] \in Leaves(prog)
      BY <3>1, <3>2, <3>3 DEF History, n
    <3>7. error_found' <=> \E i \in 1 .. n + 1 : prog[explored'[i]].op = "fault"
      BY <3>1, <3>2, <3>4 DEF History, n
    <3>8. "reach_error" \in report'
            <=> \E i \in 1 .. n + 1 : prog[explored'[i]] = Do("fault", 1)
      BY <3>1, <3>2, <3>5 DEF History, n
    <3>9. "fault" \in report'
            <=> \E i \in 1 .. n + 1 :
                  prog[explored'[i]].op = "fault" /\ prog[explored'[i]].arg # 1
      BY <3>1, <3>2, <3>5 DEF History, n
    <3>10. "unsupported" \in report'
             <=> \E i \in 1 .. n + 1 : prog[explored'[i]].op = "fail"
      BY <3>1, <3>2, <3>5 DEF History, n
    <3> QED
      BY <3>1, <3>6, <3>7, <3>8, <3>9, <3>10 DEF History
  <2>2. CASE ~Reached(p)
    BY <1>1, <2>2, StepNotAtLeaf, StepReports DEF History
  <2> QED
    BY <2>1, <2>2
<1>2. CASE UNCHANGED vars
  BY <1>2 DEF vars, History
<1> QED
  BY <1>1, <1>2 DEF Next, Terminated

\* History holds in every run.
LEMMA HistoryInvariant == Spec => []History
BY HistoryInit, HistoryStep, TypeInit, TypeStep, PTL DEF Spec

\* At the start all leaves are open.
LEMMA SameOpenInit == Init => SameOpen
<1> SUFFICES ASSUME Init PROVE Leaves(prog) \ (E!Visited \cup E!Skipped) = Open
  BY DEF SameOpen
<1>1. Len(explored) = 0
  BY DEF Init
<1>2. E!Visited = {} /\ E!Skipped = {}
  BY <1>1, PendingIs
<1> QED
  BY <1>2, OpenInit

\* Steps take only the leaves they report from the open ones.
LEMMA SameOpenStep ==
  ASSUME TypeOK, TypeOK', Chain, Chain', Branches, SameOpen, SlotFree, [Next]_vars
  PROVE  SameOpen'
<1> SUFFICES ASSUME Decreasing', ~error_found', "bounded" \notin report'
             PROVE  Leaves(prog') \ (E!Visited' \cup E!Skipped') = Open'
  BY DEF SameOpen
<1>1. ASSUME NEW p \in Pid, Step(p)
      PROVE  Leaves(prog') \ (E!Visited' \cup E!Skipped') = Open'
  <2>1. UNCHANGED <<prog, config>> /\ Decreasing
    BY <1>1, StepKeepsProgram DEF Decreasing
  <2>2. CASE Reached(p)
    <3>1. ~error_found /\ "bounded" \notin report
      BY <1>1, <2>2, LeafReports DEF Reached
    <3>2. Leaves(prog) \ (E!Visited \cup E!Skipped) = Open
      BY <2>1, <3>1 DEF SameOpen
    <3>3. Open' = Open \ ({path[p]} \cup SkippedBy(prog, path[p],
                            LeafStatus(prog[path[p]], config.no_fail_mode)))
      BY <2>1, <2>2, LeafTakes
    <3>4. /\ E!Visited' = E!Visited \cup {path[p]}
          /\ E!Skipped' = E!Skipped \cup SkippedBy(prog, path[p],
                            LeafStatus(prog[path[p]], config.no_fail_mode))
      BY <2>2, GoneAtLeaf
    <3> QED
      BY <2>1, <3>2, <3>3, <3>4
  <2>3. CASE ~Reached(p)
    <3>1. UNCHANGED <<prog, config, explored, error_found>>
      BY <1>1, <2>3, StepNotAtLeaf
    <3>2. "bounded" \notin report /\ ~ExitOnBound(p)
      BY <1>1, <2>3, StepReports DEF ExitOnBound
    <3>3. E!Visited' = E!Visited /\ E!Skipped' = E!Skipped
      BY <3>1, PendingIs, PendingIsNext
    <3>4. Open' = Open
      BY <1>1, <2>1, <2>3, <3>1, <3>2, StepKeepsOpen
    <3> QED
      BY <2>1, <3>1, <3>2, <3>3, <3>4 DEF SameOpen
  <2> QED
    BY <2>2, <2>3
<1>2. CASE UNCHANGED vars
  <2>1. UNCHANGED <<prog, config, error_found, report, explored, pc, path, parent, cnt, status>>
    BY <1>2 DEF vars, memory, frame
  <2>2. E!Visited' = E!Visited /\ E!Skipped' = E!Skipped
    BY <2>1, PendingIs, PendingIsNext
  <2>3. Open' = Open
    BY <2>1 DEF Open, ToCome, Left, Doomed, GivesUp, Active, Word
  <2> QED
    BY <2>1, <2>2, <2>3 DEF SameOpen, Decreasing
<1> QED
  BY <1>1, <1>2 DEF Next, Terminated

\* SameOpen holds in every run of the default order.
LEMMA SameOpenInvariant ==
  Spec /\ EnoughSlots => [](TypeOK /\ Chain /\ Branches /\ SameOpen)
<1>1. TypeOK /\ TypeOK' /\ Chain /\ Chain' /\ Branches /\ SameOpen /\ SlotFree /\ [Next]_vars
        => SameOpen'
  BY SameOpenStep
<1> QED
  BY <1>1, SameOpenInit, BranchInvariant, SlotFreeAlways, PTL DEF Spec

\* Ends with status 0 skip nothing.
LEMMA QuietSkipsNothing ==
  ASSUME TypeOK, History,
         \A i \in 1 .. Len(explored) :
           LeafStatus(prog[explored[i]], config.no_fail_mode) = 0
  PROVE  E!Skipped = {}
<1>1. ASSUME NEW i \in 1 .. Len(explored)
      PROVE  SkippedBy(prog, explored[i], 0) = {}
  <2>1. explored[i] \in Seq(Nat)
    BY DEF TypeOK
  <2>2. NearestForks(explored[i], 0) = {}
    <3> SUFFICES ASSUME NEW k \in ForkPoints(explored[i]),
                        Cardinality({j \in ForkPoints(explored[i]) : j > k}) < 0
                 PROVE  FALSE
      BY DEF NearestForks
    <3>1. IsFiniteSet(1 .. Len(explored[i]))
      <4>1. \A m \in Nat : IsFiniteSet(1 .. m)
        BY FS_Interval
      <4> QED
        BY <2>1, <4>1
    <3>2. {j \in ForkPoints(explored[i]) : j > k} \subseteq 1 .. Len(explored[i])
      BY DEF ForkPoints
    <3>3. Cardinality({j \in ForkPoints(explored[i]) : j > k}) \in Nat
      BY <3>1, <3>2, FS_Subset, FS_CardinalityType
    <3> QED
      BY <3>3
  <2> QED
    BY <2>2 DEF SkippedBy, StatusReach
<1> QED
  BY <1>1, PendingIs

\* In the default mode a program without abnormal ends is run through all its
\* paths when no bound is set.
THEOREM EveryPathExploredAlways ==
  Spec /\ Decreasing /\ EnoughSlots => []EveryPathExplored
<1>1. Invariant /\ History /\ Decreasing => EveryPathExplored
  <2> SUFFICES ASSUME Invariant, History, Decreasing, Done, Quiet,
                      config.choose_bound = 0, NEW q \in Leaves(prog)
               PROVE  \E i \in 1 .. Len(explored) : explored[i] = q
    BY DEF EveryPathExplored
  <2>1. \A r \in Leaves(prog) : prog[r].op # "fault"
    <3>1. ExitStatus(1) # 0
      BY DEF ExitStatus
    <3> QED
      BY <3>1 DEF Quiet, LeafStatus
  <2>2. ~error_found
    BY <2>1 DEF History
  <2>3. \A i \in 1 .. Len(explored) :
          LeafStatus(prog[explored[i]], config.no_fail_mode) = 0
    BY <2>1 DEF History, Quiet, LeafStatus
  <2>4. E!Skipped = {}
    BY <2>3, QuietSkipsNothing DEF Invariant
  <2>5. E!Pending = {}
    <3>1. NothingAfter
      BY NothingAfterAlways, PTL DEF Invariant
    <3> QED
      BY <2>2, <3>1 DEF Invariant, SamePending, NothingAfter, Remaining
  <2>6. Admissible(prog, config.choose_bound, q)
    BY DEF Admissible
  <2>7. q \in E!Visited
    BY <2>4, <2>5, <2>6, PendingIs
  <2> QED
    BY <2>7, PendingIs
<1> QED
  BY <1>1, HistoryInvariant, ExplorationInvariant, DecreasingAlways, SlotFreeAlways, PTL

=============================================================================
