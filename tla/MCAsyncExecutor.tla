--------------------------- MODULE MCAsyncExecutor ---------------------------
(***************************************************************************)
(* Small instances of AsyncExecutor: worker threads and API threads are    *)
(* model values.  The number of workers bounds the number of background    *)
(* functions of a behaviour.                                               *)
(***************************************************************************)
EXTENDS AsyncExecutor, TLC

WorkerSymmetry == Permutations(Workers)

=============================================================================
