------------------------------ MODULE MCInplace ------------------------------
(***************************************************************************)
(* Model-checking instances of the hook together with the controller.       *)
(***************************************************************************)
EXTENDS InplaceUpdater, UpdateTaskRollout, TLC

CONSTANT t1, t2

\* Sound for safety: initially no task and no call differs from another, and the
\* name of a task is only compared for equality.
TaskSymmetry == Permutations(Tasks)

=============================================================================
