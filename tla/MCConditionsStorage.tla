------------------------ MODULE MCConditionsStorage ------------------------
(* Two tasks, two groups, and the kinds of conditions a caller can pass:   *)
(* none, one group, both groups, and a key whose value is undefined.       *)
EXTENDS ConditionsStorage, TLC

CONSTANTS platform, runtime, desktop, mobile, server

Of(p, r) == platform :> p @@ runtime :> r

MCInputs ==
  {Of(Absent, Absent), Of(desktop, Absent), Of(mobile, server),
   Of(Undefined, Absent)}
=============================================================================
