---------------------------- MODULE MCSeasonPage ----------------------------
EXTENDS SeasonPage
=============================================================================
