---------------------------- MODULE MCDeferrable ----------------------------
EXTENDS Deferrable

CONSTANTS raw, bench, head

MCButton == {raw, bench}
MCPriorityByte == {0, 17, 31}
=============================================================================
