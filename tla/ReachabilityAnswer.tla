------------------------- MODULE ReachabilityAnswer -------------------------
(***************************************************************************)
(* What ProgramReachability::analyze promises, with no worklist and no     *)
(* order: one answer, and that the correct one.  Which answer is correct   *)
(* is a parameter, for ReachabilityRules to say.                           *)
(***************************************************************************)
CONSTANTS
  Subject,           \* the programs the analysis may be asked about
  CorrectAnswer(_),  \* the answer owed for one of them
  NoAnswer           \* there is none yet

VARIABLES
  subject,   \* the program asked about
  answer     \* what is kept of it

-----------------------------------------------------------------------------
Init == subject \in Subject /\ answer = NoAnswer

Answer ==
  /\ answer = NoAnswer
  /\ answer' # NoAnswer
  /\ answer' = CorrectAnswer(subject)
  /\ UNCHANGED subject

Spec == Init /\ [][Answer]_<<subject, answer>>
=============================================================================
