---------------------------- MODULE MCLifecycle ----------------------------
(* The ways bscope is run that TLC explores. *)
EXTENDS Lifecycle

Run(daemon, supervised, starts, terms, faults) ==
  [daemon |-> daemon, supervised |-> supervised,
   starts |-> starts, terms |-> terms, faults |-> faults]

MCScenarios == {Run(FALSE, TRUE, 2, 1, 1), Run(FALSE, FALSE, 2, 1, 1), Run(TRUE, TRUE, 1, 2, 2)}
MCDaemons   == {Run(TRUE, TRUE, 2, 0, 0)}
=============================================================================
