---------------------------- MODULE MCTaxdeskBroker ----------------------------
\* Small instances of TaxdeskBroker for TLC.
EXTENDS TaxdeskBroker

MCCliExits == {0, 1}
=============================================================================
