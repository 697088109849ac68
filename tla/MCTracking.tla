------------------------------ MODULE MCTracking ------------------------------
(* Model values and bounds for LadzrpTracking. *)
EXTENDS LadzrpTracking

At(i, j) == [x |-> i, y |-> j]

\* Inside the sphere, outside of it, and where a coordinate no longer fits a float.
MCStarts == {At(1, 1), At(6, -2)}

\* At rest, coming and going along the line of the observer and across it, and too fast
\* for a float.
MCVelocities == {At(0, 0), At(3, 0), At(-2, 1), At(5, 0)}

MCMyStart == At(0, 0)
MCMyVelocity == At(0, 1)
MCRelayPosition == At(5, 5)
=============================================================================
