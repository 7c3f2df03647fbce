--------------------------- MODULE SvcompVerdict ----------------------------
(***************************************************************************)
(* The SV-COMP wrapper around a run (scripts/svcomp/utils: runner.py,      *)
(* result.py).  It compiles the benchmark with lartcc, runs the abstracted *)
(* binary with its stderr in a file, waits for the first process of the    *)
(* run, whose exit status it does not look at, and reads the file.  The    *)
(* only property it accepts is the unreachability of reach_error.          *)
(***************************************************************************)
EXTENDS ForkChoose

VARIABLES
  phase,    \* where runner.run is
  verdict   \* analysis_result.verification_result

wrapper == <<phase, verdict>>

Verdicts == {"none", "true", "false(unreach-call)", "unknown"}

WrapperTypeOK ==
  /\ TypeOK
  /\ phase \in {"compile", "verify", "reported"}
  /\ verdict \in Verdicts

WrapperInit ==
  /\ Init
  /\ phase = "compile"
  /\ verdict = "none"

\* lartcc leaves a binary, which verifier.run starts.
Compiled ==
  /\ phase = "compile"
  /\ phase' = "verify"
  /\ UNCHANGED <<vars, verdict>>

\* There is no binary to run: analysis_result( None ).
NotCompiled ==
  /\ phase = "compile"
  /\ phase' = "reported"
  /\ verdict' = "unknown"
  /\ UNCHANGED vars

RunStep(p) ==
  /\ phase = "verify"
  /\ Step(p)
  /\ UNCHANGED wrapper

\* Faulty variants: a bounded run counts as a complete one; only a fault in
\* reach_error counts.
ProcessLinesIgnoringBound ==
  IF "reach_error" \in report THEN "false(unreach-call)"
  ELSE IF report \ {"bounded"} # {} THEN "unknown" ELSE "true"

ProcessLinesReachOnly ==
  IF "reach_error" \in report THEN "false(unreach-call)"
  ELSE IF report \ {"fault"} # {} THEN "unknown" ELSE "true"

\* process_lines: a fault in reach_error decides; any other fault, a bounded
\* exit and an unsupported operation leave the answer open; silence means
\* that the property holds.
ProcessLines ==
  IF "reach_error" \in report THEN "false(unreach-call)"
  ELSE IF report # {} THEN "unknown" ELSE "true"

\* proc.wait() returned: the report is read.
AnalyseReport ==
  /\ phase = "verify"
  /\ Done
  /\ phase' = "reported"
  /\ verdict' = ProcessLines
  /\ UNCHANGED vars

Reported == phase = "reported" /\ UNCHANGED <<vars, wrapper>>

WrapperNext ==
  \/ Compiled \/ NotCompiled
  \/ \E p \in Pid : RunStep(p)
  \/ AnalyseReport
  \/ Reported

WrapperSpec ==
  /\ WrapperInit
  /\ [][WrapperNext]_<<vars, wrapper>>
  /\ WF_<<vars, wrapper>>(Compiled \/ NotCompiled \/ AnalyseReport)
  /\ \A p \in Pid : WF_<<vars, wrapper>>(RunStep(p))

-----------------------------------------------------------------------------
\* The answer "true" is given only when every path of the program was run
\* and none of them calls reach_error; the answer "false" only when a path
\* that was run does.
VerdictSound ==
  /\ verdict = "true" =>
       \A q \in Leaves(prog) :
         /\ \E i \in 1 .. Len(explored) : explored[i] = q
         /\ prog[q].op # "fault"
  /\ verdict = "false(unreach-call)" =>
       \E i \in 1 .. Len(explored) : prog[explored[i]] = Do("fault", 1)

\* An assertion that fails on any path, in whatever process, is never
\* answered with "true", and the answer comes only after the last process
\* that could print a line has ended.
FaultReported ==
  phase = "reported" /\ explored # << >> =>
    /\ error_found => verdict \in {"false(unreach-call)", "unknown"}
    /\ \A p \in Pid \ {Root} : pc[p] = "free"

\* The wrapper always gives an answer.
VerdictGiven == <>(verdict # "none")

=============================================================================
