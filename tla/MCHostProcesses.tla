---------------------------- MODULE MCHostProcesses ----------------------------
\* Small instances of HostProcesses for TLC: two owners, of any kinds, that may
\* want the same run folder.
EXTENDS HostProcesses
=============================================================================
