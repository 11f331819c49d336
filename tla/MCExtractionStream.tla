--------------------------- MODULE MCExtractionStream ---------------------------
(***************************************************************************)
(* The small instances: shots that follow each other on a device with an   *)
(* empty history, and a connection lost; a stored shot that is replayed    *)
(* twice; and one shot next to a stored one that is loaded and dismissed,  *)
(* a load that fails, and a connection lost.                               *)
(***************************************************************************)
EXTENDS ExtractionStream

MCBounds ==
  {[oldShots |-> 0, begins |-> 2, samples |-> 1, posts |-> 0,
    failures |-> 0, drops |-> 1],
   [oldShots |-> 1, begins |-> 2, samples |-> 1, posts |-> 0,
    failures |-> 0, drops |-> 0],
   [oldShots |-> 1, begins |-> 1, samples |-> 0, posts |-> 1,
    failures |-> 1, drops |-> 1]}

=============================================================================
