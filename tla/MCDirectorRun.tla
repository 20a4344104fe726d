--------------------------- MODULE MCDirectorRun ---------------------------
(***************************************************************************)
(* Instances of DirectorRun for TLC.  The requests are interchangeable, so *)
(* runs that check no liveness reduce by their permutations.               *)
(***************************************************************************)
EXTENDS DirectorRun, TLC

RequestSymmetry == Permutations(Requests)

\* TLC takes no parameterised instance: the first activation (a fresh one) and
\* the second (recovered or resumed), each as an instance of its own.
First == INSTANCE RunActivation WITH
    phase <- Phase(1), told <- Told(1), result <- lp[1].out, late <- lp[1].late
Second == INSTANCE RunActivation WITH
    phase <- Phase(2), told <- Told(2), result <- lp[2].out, late <- lp[2].late

\* Both keep the promise of RunActivation: one start, one end, "cancelled" only
\* when told, at most one agent started late (_dispatch_loop as start_run's
\* callers see it).
RefinesActivation == First!Spec /\ Second!Spec
=============================================================================
