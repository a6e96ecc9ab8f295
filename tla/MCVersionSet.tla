------------------------------ MODULE MCVersionSet -----------------------------
EXTENDS VersionSet

\* Ranges <<level, first, last>> of manual compactions.
NoRange == {}
Range0  == {<<0, 0, 9>>}
=============================================================================
