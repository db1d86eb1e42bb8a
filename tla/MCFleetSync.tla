---------------------------- MODULE MCFleetSync ----------------------------
EXTENDS FleetSync, TLC

Hosts == Permutations(Member)
=============================================================================
