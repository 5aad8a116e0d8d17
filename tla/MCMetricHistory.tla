----------------------------- MODULE MCMetricHistory -----------------------------
\* Small instances of MetricHistory for TLC.
EXTENDS MetricHistory

\* A steady reading, a burst with the highest level, no slot shown while the
\* counter grows, and a restarted server.
MCReadings ==
    {[growth |-> 1, restart |-> FALSE, level |-> {2}],
     [growth |-> 3, restart |-> FALSE, level |-> {5}],
     [growth |-> 2, restart |-> TRUE,  level |-> {}]}
MCIntervals == {1, 3}
MCSetbacks  == {2}
=============================================================================
