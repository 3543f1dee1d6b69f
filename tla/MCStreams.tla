------------------------------ MODULE MCStreams ------------------------------
(***************************************************************************)
(* The values of Streams that a configuration file cannot hold: batches of *)
(* more operations than workers, with and without an id that is used       *)
(* twice.                                                                  *)
(***************************************************************************)
EXTENDS Streams

CONSTANTS x, y, z

BatchPlans == {<<x, y>>, <<x, y, z>>, <<x, x, y>>}
=============================================================================
