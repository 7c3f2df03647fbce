-------------------------- MODULE MCSvcompVerdict ---------------------------
(***************************************************************************)
(* Programs for checking SvcompVerdict: SoundPrograms have every end the   *)
(* wrapper can tell from the report, SilentPrograms also end with a        *)
(* nonzero exit code or a signal, which only the exit status shows.        *)
(***************************************************************************)
EXTENDS SvcompVerdict, MCForkChoose

SoundEnds ==
  {Leaf("exit", 0), Leaf("cancel", 0), Leaf("abort", 0), Leaf("fault", 0),
   Leaf("fault", 1), Leaf("fail", 0)}

SoundPrograms ==
  LET two == Joined(SoundEnds, SoundEnds)
  IN  SoundEnds \cup two \cup Joined(two, {Ok, Leaf("fault", 1)})
        \cup Joined({Ok}, two) \cup Trees({Ok, Leaf("fault", 1), Branch(<<Ok, Ok>>)}, 3)

SilentPrograms == Trees({Ok, Leaf("exit", 1), Leaf("fault", 1)}, 2)

\* runner.run sets LART_CHOOSE_BOUND (to 100) and leaves the rest unset; 4 is
\* beyond the depth of every program here, 1 is not.
WrapperConfigs ==
  {Option(4, FALSE, FALSE, FALSE, FALSE), Option(1, FALSE, FALSE, FALSE, FALSE)}
=============================================================================
