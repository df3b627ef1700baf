--------------------------- MODULE MCVerticalLoop ---------------------------
EXTENDS VerticalLoop
MCModes == {"OFF", "HOLD", "LAND"}
MCSticks == {"low", "high"}
MCPiOutputs == {1, 4}
=============================================================================
