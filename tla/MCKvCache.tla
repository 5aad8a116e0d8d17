------------------------------- MODULE MCKvCache -------------------------------
\* Small instances of KvCache for TLC.
EXTENDS KvCache

MCGroupSizes      == {1, 2, 3}
MCResidualLengths == {0, 1, 2, 4}
MCWidths          == {1, 2, 5}
=============================================================================
