------------------------ MODULE SvcompVerdict_proofs ------------------------
(***************************************************************************)
(* What the answer of the SV-COMP wrapper is worth, for any programs and   *)
(* any options.  The wrapper takes no part in a run: whatever holds of     *)
(* ForkChoose holds here, and what has to be shown is what the report      *)
(* tells of the run that wrote it.                                         *)
(***************************************************************************)
EXTENDS SvcompVerdict, Exploration_proofs

\* Every end that could hide paths shows in the report: a path that fails no
\* assertion and uses no unsupported operation ends with status 0.  The code
\* does not see to it: runner.py does not look at the exit status.
EndsShow ==
  \A f \in Programs : \A q \in Leaves(f) :
    f[q].op \in {"fault", "fail"} \/ LeafStatus(f[q], FALSE) = 0

\* Where the wrapper is and what it knows.
Answered ==
  /\ phase = "compile" => explored = << >> /\ verdict = "none"
  /\ phase = "verify" => verdict = "none"
  /\ phase = "reported" => \/ explored = << >> /\ verdict = "unknown"
                           \/ Done /\ verdict = ProcessLines

-----------------------------------------------------------------------------
\* The wrapper's steps are steps of the run, or leave it alone.
LEMMA WrapperStepIsStep == [WrapperNext]_<<vars, wrapper>> => [Next]_vars
BY DEF WrapperNext, Compiled, NotCompiled, RunStep, AnalyseReport, Reported, Next

\* The wrapper runs the program as it is.
LEMMA WrapperRuns == WrapperSpec => Spec
<1>1. WrapperInit => Init
  BY DEF WrapperInit
<1> QED
  BY <1>1, WrapperStepIsStep, PTL DEF WrapperSpec, Spec

\* The types of the run and of the wrapper.
THEOREM WrapperTypeCorrect == WrapperSpec => []WrapperTypeOK
<1>1. WrapperInit => WrapperTypeOK
  BY TypeInit DEF WrapperInit, WrapperTypeOK, Verdicts
<1>2. WrapperTypeOK /\ [WrapperNext]_<<vars, wrapper>> => WrapperTypeOK'
  <2> SUFFICES ASSUME WrapperTypeOK, [WrapperNext]_<<vars, wrapper>> PROVE WrapperTypeOK'
    OBVIOUS
  <2>1. TypeOK'
    BY WrapperStepIsStep, TypeStep DEF WrapperTypeOK
  <2>2. phase' \in {"compile", "verify", "reported"} /\ verdict' \in Verdicts
    BY DEF WrapperTypeOK, WrapperNext, Compiled, NotCompiled, RunStep, AnalyseReport,
       Reported, ProcessLines, Verdicts, wrapper
  <2> QED
    BY <2>1, <2>2 DEF WrapperTypeOK
<1> QED
  BY <1>1, <1>2, PTL DEF WrapperSpec

-----------------------------------------------------------------------------

\* No answer is given at the start.
LEMMA AnsweredInit == WrapperInit => Answered
BY DEF WrapperInit, Init, Answered

\* An answer is given once, from the report of a run that is over.
LEMMA AnsweredStep == Answered /\ [WrapperNext]_<<vars, wrapper>> => Answered'
<1> SUFFICES ASSUME Answered, [WrapperNext]_<<vars, wrapper>> PROVE Answered'
  OBVIOUS
<1>1. ASSUME UNCHANGED vars
      PROVE  /\ explored' = explored /\ Done' = Done /\ ProcessLines' = ProcessLines
  BY <1>1 DEF vars, Done, ProcessLines
<1>2. CASE Compiled \/ NotCompiled
  BY <1>1, <1>2 DEF Compiled, NotCompiled, Answered
<1>3. ASSUME NEW p \in Pid, RunStep(p) PROVE Answered'
  BY <1>3 DEF RunStep, wrapper, Answered
<1>4. CASE AnalyseReport
  BY <1>1, <1>4 DEF AnalyseReport, Answered
<1>5. CASE UNCHANGED <<vars, wrapper>>
  BY <1>1, <1>5 DEF wrapper, Answered
<1> QED
  BY <1>2, <1>3, <1>4, <1>5 DEF WrapperNext, Reported

\* Answered holds in every run.
LEMMA AnsweredInvariant == WrapperSpec => []Answered
BY AnsweredInit, AnsweredStep, PTL DEF WrapperSpec

\* A failed assertion is never answered with "true", and when the wrapper
\* answers no process of the run is left that could print another line:
\* whatever the order of the values, the bound and the number of processes,
\* also when fork fails.
THEOREM FaultReportedAlways == WrapperSpec => []FaultReported
<1>1. TypeOK /\ Branches /\ History /\ Answered => FaultReported
  <2> SUFFICES ASSUME TypeOK, Branches, History, Answered, phase = "reported",
                      explored # << >>
               PROVE  /\ error_found => verdict \in {"false(unreach-call)", "unknown"}
                      /\ \A p \in Pid \ {Root} : pc[p] = "free"
    BY DEF FaultReported
  <2>1. Done /\ verdict = ProcessLines
    BY DEF Answered
  <2>2. \A p \in Pid \ {Root} : pc[p] = "free"
    <3>1. NothingAfter
      BY NothingAfterAlways, PTL
    <3> QED
      BY <2>1, <3>1 DEF NothingAfter
  <2>3. ASSUME error_found PROVE report # {}
    <3>1. PICK i \in 1 .. Len(explored) : prog[explored[i]].op = "fault"
      BY <2>3 DEF History
    <3>2. prog[explored[i]] \in Node
      <4>1. explored[i] \in DOMAIN prog
        BY DEF History, Leaves
      <4> QED
        BY <4>1, TreeFacts
    <3>3. prog[explored[i]].arg = 1 => prog[explored[i]] = Do("fault", 1)
      BY <3>1, <3>2 DEF Node, Do
    <3>4. "reach_error" \in report \/ "fault" \in report
      BY <3>1, <3>3 DEF History
    <3> QED
      BY <3>4
  <2> QED
    BY <2>1, <2>2, <2>3 DEF ProcessLines
<1> QED
  BY <1>1, WrapperRuns, BranchInvariant, HistoryInvariant, AnsweredInvariant, PTL

\* The answer "true" means that every path of the program was run and that
\* none of them fails an assertion, the answer "false" that a path that was
\* run calls reach_error.  The run is in the default mode, which the wrapper
\* leaves alone, and the program's ends show in the report; fork must not fail.
THEOREM VerdictSoundAlways ==
  WrapperSpec /\ Decreasing /\ EnoughSlots /\ EndsShow => []VerdictSound
<1> SUFFICES ASSUME EnoughSlots, EndsShow
             PROVE  WrapperSpec /\ Decreasing => []VerdictSound
  OBVIOUS
<1>1. WrapperTypeOK /\ Branches /\ SameOpen /\ History /\ Answered /\ Decreasing
        => VerdictSound
  <2> SUFFICES ASSUME WrapperTypeOK, Branches, SameOpen, History, Answered, Decreasing
               PROVE  VerdictSound
    OBVIOUS
  <2>0. TypeOK /\ phase \in {"compile", "verify", "reported"}
    BY DEF WrapperTypeOK
  <2>1. ASSUME verdict = "true", NEW q \in Leaves(prog)
        PROVE  /\ \E i \in 1 .. Len(explored) : explored[i] = q
               /\ prog[q].op # "fault"
    <3>1. Done /\ verdict = ProcessLines
      BY <2>0, <2>1 DEF Answered
    <3>2. report = {}
      BY <2>1, <3>1 DEF ProcessLines
    <3>3. \A i \in 1 .. Len(explored) : prog[explored[i]].op \notin {"fault", "fail"}
      <4> SUFFICES ASSUME NEW i \in 1 .. Len(explored), prog[explored[i]].op = "fault"
                   PROVE  FALSE
        BY <3>2 DEF History
      <4>1. explored[i] \in DOMAIN prog
        BY DEF History, Leaves
      <4>2. prog[explored[i]] \in Node
        BY <2>0, <4>1, TreeFacts
      <4>3. prog[explored[i]].arg = 1 => prog[explored[i]] = Do("fault", 1)
        BY <4>2 DEF Node, Do
      <4> QED
        BY <3>2, <4>3 DEF History
    <3>4. ~error_found
      BY <3>3 DEF History
    <3>5. \A i \in 1 .. Len(explored) :
            LeafStatus(prog[explored[i]], config.no_fail_mode) = 0
      <4>1. \A i \in 1 .. Len(explored) : LeafStatus(prog[explored[i]], FALSE) = 0
        BY <2>0, <3>3 DEF EndsShow, History, TypeOK
      <4> QED
        BY <3>3, <4>1 DEF LeafStatus
    <3>6. E!Skipped = {}
      BY <2>0, <3>5, QuietSkipsNothing
    <3>7. Open = {}
      <4>1. NothingAfter
        BY <2>0, NothingAfterAlways, PTL
      <4> QED
        BY <3>1, <4>1 DEF NothingAfter
    <3>8. q \in E!Visited
      BY <3>2, <3>4, <3>6, <3>7 DEF SameOpen
    <3>9. \E i \in 1 .. Len(explored) : explored[i] = q
      BY <3>8, PendingIs
    <3> QED
      BY <3>3, <3>9
  <2>2. ASSUME verdict = "false(unreach-call)"
        PROVE  \E i \in 1 .. Len(explored) : prog[explored[i]] = Do("fault", 1)
    <3>1. "reach_error" \in report
      BY <2>0, <2>2 DEF Answered, ProcessLines
    <3> QED
      BY <3>1 DEF History
  <2> QED
    BY <2>1, <2>2 DEF VerdictSound
<1> QED
  BY <1>1, WrapperRuns, WrapperTypeCorrect, SameOpenInvariant, HistoryInvariant,
     AnsweredInvariant, DecreasingAlways, PTL

=============================================================================
