---------------------------- MODULE MCGfiostatCli ----------------------------
EXTENDS GfiostatCli

MCItems == {"ntran"}

=============================================================================
