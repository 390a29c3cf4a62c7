------------------------------ MODULE MCSeats ------------------------------
(***************************************************************************)
(* An instance of Seats for TLC: a free plan of two seats and a paid one of *)
(* three; requests, people and invitations are interchangeable.            *)
(***************************************************************************)
EXTENDS Seats, TLC

CONSTANTS free, pro

SeatLimit == (free :> 2) @@ (pro :> 3)
Symmetry == Permutations(Proc) \cup Permutations(Email) \cup Permutations(Inv)
=============================================================================
