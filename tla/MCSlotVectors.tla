--------------------------- MODULE MCSlotVectors ----------------------------
EXTENDS SlotVectors

\* A lower and a higher ballot, besides the NoBallot of a fresh window.
MCCallBallots == {<<0, 0>>, <<0, 1>>}
=============================================================================
