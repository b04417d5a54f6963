---------------------------- MODULE MCDelegation ----------------------------
\* Delegation in a small team.
EXTENDS Delegation, TLC
=============================================================================
