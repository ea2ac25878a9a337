---------------------------- MODULE MCClaimWatch ----------------------------
EXTENDS ClaimWatch
CONSTANTS h1, r1
=============================================================================
