------------------------------ MODULE MCPiLaunch ------------------------------
\* Small instances of PiLaunch for TLC: three launches, on the host or (two of
\* them) in the virtual machine.
EXTENDS PiLaunch
=============================================================================
