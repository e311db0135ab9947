------------------------------ MODULE MCDesktop ------------------------------
\* An instance of Desktop for TLC.  No symmetry: liveness is checked.
EXTENDS Desktop
=============================================================================
