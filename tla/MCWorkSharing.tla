--------------------------- MODULE MCWorkSharing ----------------------------
\* WorkSharing on a small team. (FairSpec's runs use no symmetry.)
EXTENDS WorkSharing
=============================================================================
