------------------------- MODULE MCInferenceSidecar -------------------------
\* Instances of InferenceSidecar for TLC.
EXTENDS InferenceSidecar

BlockingSlots == {"ragp"}
=============================================================================
