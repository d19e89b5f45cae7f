--------------------------- MODULE IndexManagerMC ----------------------------
EXTENDS IndexManager

MCTables == {<<3, 4, 3, 1>>}

\* What the theorems of IndexManagerProofs ask of the constants.
ASSUME ShallowAssumption == FilesAreShallow
=============================================================================
