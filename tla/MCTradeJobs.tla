---------------------------- MODULE MCTradeJobs -----------------------------
EXTENDS TradeJobs
=============================================================================
