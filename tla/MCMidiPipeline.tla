--------------------------- MODULE MCMidiPipeline ---------------------------
(***************************************************************************)
(* A small instance of MidiPipeline.                                       *)
(***************************************************************************)
EXTENDS MidiPipeline

CONSTANT unset

=============================================================================
