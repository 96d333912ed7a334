------------------------ MODULE DurableStateMachine ------------------------
(***************************************************************************)
(* What Persimmon promises its application: a deterministic state machine  *)
(* whose operations, once they are in the operation log, are applied to    *)
(* the durable state one after the other, each exactly once, whatever      *)
(* crashes.  `state' is the application memory a recovery started now      *)
(* would reach and `applied' the position in the operation log from which  *)
(* it would replay.  Both change together, in one atomic step.             *)
(***************************************************************************)
EXTENDS Naturals

CONSTANTS NumOps,      \* number of operations in the log
          InitMem,     \* memory in the initial checkpoint
          Exec(_, _)   \* Exec(k, m): memory after operation k run on memory m

VARIABLES state, applied

dvars == <<state, applied>>

Init == state = InitMem /\ applied = 0

\* The durable effect of the next operation appears at once and in full.
Execute ==
    /\ applied < NumOps
    /\ state' = Exec(applied + 1, state)
    /\ applied' = applied + 1

Next == Execute

Spec == Init /\ [][Next]_dvars
=============================================================================
