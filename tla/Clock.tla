------------------------------- MODULE Clock -------------------------------
(***************************************************************************)
(* What the parts of one darak process share: the clock they read.         *)
(***************************************************************************)
EXTENDS Integers

CONSTANTS
    None,
    MaxNow      \* bound: clock ticks

ASSUME ClockConstants == MaxNow \in Nat

VARIABLE now

\* now.After(expires) is what sweeps and takes go by.
Past(expires) == now > expires
=============================================================================
