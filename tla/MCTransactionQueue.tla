------------------------- MODULE MCTransactionQueue -------------------------
(***************************************************************************)
(* Three transactions in a queue of two: one of low priority, two of the   *)
(* highest that can overtake it or, queued first, make it depend on them.  *)
(***************************************************************************)
EXTENDS TransactionQueue

CONSTANTS a, b, c

MCIds == {a, b, c}

MCLevelsOf == [id \in MCIds |-> IF id = a THEN {1} ELSE {0}]
=============================================================================
