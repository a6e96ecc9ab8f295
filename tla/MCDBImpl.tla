-------------------------------- MODULE MCDBImpl -------------------------------
EXTENDS DBImpl, TLC

CONSTANTS c1, c2

TwoClients   == {c1, c2}
\* The clients differ in nothing but their names.
ClientSymmetry == Permutations(TwoClients)

Compact == {"put", "compact"}
All     == {"put", "syncput", "compact"}
=============================================================================
