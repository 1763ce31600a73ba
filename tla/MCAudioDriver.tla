--------------------------- MODULE MCAudioDriver ---------------------------
(***************************************************************************)
(* Small instances of AudioDriver: the real number of buffers and one      *)
(* more, and two assumptions on when a transfer ends.                      *)
(***************************************************************************)
EXTENDS AudioDriver, TLC

CONSTANT unset

\* A transfer may end at any time except between the accesses of
\* bufferFilled to the counter.
AnyTimeAtomic == WriterSteps \ {"load", "store"}

\* A transfer may end at any time.
AnyTime == WriterSteps

=============================================================================
