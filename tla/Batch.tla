------------------------------- MODULE Batch -------------------------------
(***************************************************************************)
(* What a run of the launch-script generator promises its caller (spec     *)
(* sections 6 and 7), without the steps of any one VM's generation: after  *)
(* the batch-wide checks it either aborts with nothing written, or writes  *)
(* the scripts of the selected VMs one after another in scenario order,   *)
(* each once, and succeeds only when all of them are written.  A failure   *)
(* part-way leaves the scripts written so far.                             *)
(*                                                                         *)
(*   phase    "check", "writing", "succeeded" or "failed";                 *)
(*   targets  the file indices of the selected VMs, in scenario order;     *)
(*   written  the indices written so far, in the order they were written;  *)
(*   disk     the indices that have a file in the output directory.       *)
(***************************************************************************)
EXTENDS Integers, Sequences, SequencesExt

VARIABLES phase, targets, written, disk

batchVars == <<phase, targets, written, disk>>

BatchInit ==
    /\ phase = "check"
    /\ targets = << >>
    /\ written = << >>
    /\ disk = {}

\* A batch-wide check fails: nothing is generated.
Abort ==
    /\ phase = "check"
    /\ phase' = "failed"
    /\ UNCHANGED <<targets, written, disk>>

\* The checks pass and the VMs to generate are fixed, no index twice.
Start ==
    /\ phase = "check"
    /\ phase' = "writing"
    /\ targets' \in Seq(Int)
    /\ IsInjective(targets')
    /\ UNCHANGED <<written, disk>>

\* The next selected VM's script is written.
WriteNext ==
    /\ phase = "writing"
    /\ Len(written) < Len(targets)
    /\ LET n == targets[Len(written) + 1]
       IN  /\ written' = Append(written, n)
           /\ disk' = disk \cup {n}
    /\ UNCHANGED <<phase, targets>>

Succeed ==
    /\ phase = "writing"
    /\ Len(written) = Len(targets)
    /\ phase' = "succeeded"
    /\ UNCHANGED <<targets, written, disk>>

Fail ==
    /\ phase = "writing"
    /\ phase' = "failed"
    /\ UNCHANGED <<targets, written, disk>>

BatchNext == Abort \/ Start \/ WriteNext \/ Succeed \/ Fail

BatchSpec == BatchInit /\ [][BatchNext]_batchVars
=============================================================================
