----------------------------- MODULE MCIoEvent -----------------------------
(***************************************************************************)
(* IoEvent with values for its constants.                                  *)
(***************************************************************************)
EXTENDS IoEvent, TLC

CONSTANTS s1, s2, a, b, x, f1, f2

\* Two coroutines in one scheduler and one in another.
TwoScheds == a :> s1 @@ b :> s1 @@ x :> s2

\* Two coroutines in one scheduler.
OneSched == a :> s1 @@ b :> s1

OneEach == [c \in Co |-> 1]
OneFour == a :> 1 @@ b :> 4
=============================================================================
