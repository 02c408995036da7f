------------------------------ MODULE MCTimer -------------------------------
EXTENDS Timer

CONSTANTS capacity, delay, period

MCTimers   == {capacity, delay, period}
MCPeriodic == {period}
=============================================================================
