----------------------------- MODULE MCDecideRecords -----------------------------
\* Small instances of DecideRecords for TLC.
EXTENDS DecideRecords

\* A relevance stage that may abstain, a stage skipped for irrelevant records,
\* and a stage that filters on the one that may have been skipped.
MCStages == <<[when |-> {},  otherwise |-> "stop",     abstain |-> TRUE],
              [when |-> {1}, otherwise |-> "continue", abstain |-> FALSE],
              [when |-> {2}, otherwise |-> "stop",     abstain |-> FALSE]>>
=============================================================================
