---------------------------- MODULE Disturbances ----------------------------
(***************************************************************************)
(* What the outside does to the feeds: moves of the world, failures of     *)
(* calls, crashes and signals to stop are counted together and bounded.    *)
(***************************************************************************)
EXTENDS Naturals

CONSTANT MaxEvents   \* bound: disturbances of a run

VARIABLE events      \* how many there were

Event == events < MaxEvents /\ events' = events + 1
=============================================================================
