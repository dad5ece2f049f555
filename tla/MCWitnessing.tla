---------------------------- MODULE MCWitnessing ----------------------------
EXTENDS Witnessing

CONSTANTS e1, e2

NoEntries == <<>>
OneEntry == <<e1>>

Entries == Permutations(Entry)

=============================================================================
