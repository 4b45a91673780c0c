-------------------------- MODULE MCSincResampler --------------------------
(* A small instance of SincResampler, given in the .cfg: a kernel of four   *)
(* samples and rates that share no factor, so that the block's end falls    *)
(* on, before and after an output.                                          *)
EXTENDS SincResampler
=============================================================================
