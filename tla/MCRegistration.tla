--------------------------- MODULE MCRegistration ----------------------------
\* A small instance of Registration for TLC.
EXTENDS Registration

CONSTANTS m1, m2, m3, u1, u2

==============================================================================
