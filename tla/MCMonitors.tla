----------------------------- MODULE MCMonitors -----------------------------
EXTENDS Monitors

CONSTANTS c1, c2, r1, r2

MCCheckin == {c1, c2}
MCRequest == {r1, r2}
=============================================================================
