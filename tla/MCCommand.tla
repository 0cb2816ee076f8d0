----------------------------- MODULE MCCommand ------------------------------
(***************************************************************************)
(* A small instance of Command for TLC.                                    *)
(***************************************************************************)
EXTENDS CommandProps

SomeDurations == {-1, 0, 1}
SomeExits == {-1, 0, 143, 256}
=============================================================================
