---------------------------- MODULE MCInterrupts ----------------------------
(***************************************************************************)
(* Instances of Interrupts for TLC.                                        *)
(***************************************************************************)
EXTENDS Interrupts

\* The nesting that does no harm, and all there is.
OwnNesting  == {"own"}
FullNesting == {"own", "switched", "shared"}

=============================================================================
