------------------------------ MODULE MCKernel ------------------------------
(***************************************************************************)
(* The kernel walk with two dimensions.                                    *)
(***************************************************************************)
EXTENDS Kernel

TwoDims      == {1, 2}
StrictModes  == {"MASTER", "MITL"}
=============================================================================
