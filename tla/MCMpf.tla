-------------------------------- MODULE MCMpf --------------------------------
(* Three nodes: the fewest that give a relay besides source and destination.*)
EXTENDS LadzrpMpf

At(x, y) == [x |-> x, y |-> y]

MCNodes == 1..3

\* A chain whose ends do not hear each other, bent in two ways, and a triangle in
\* which all hear all.  The chain has the source (lowest address) in its middle once.
MCLayouts == { <<At(0, 0), At(2, 0), At(4, 0)>>,
               <<At(0, 0), At(2, 1), At(3, -1)>>,
               <<At(2, 1), At(0, 0), At(4, 0)>>,
               <<At(0, 0), At(1, 1), At(2, 0)>> }
MCRange2 == 5

NoError == {At(0, 0)}
=============================================================================
