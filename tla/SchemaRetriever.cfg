\* Five tables, every choice of eight foreign keys, at most three seeds.
CONSTANTS
    Tables <- MCTables
    Schemas <- MCSchemas
    ForeignKeys <- MCForeignKeys
    Hits <- MCHits
    TopK = 3
SPECIFICATION Spec
INVARIANTS
    TypeOK
    SelectionJoins
    PathIsShortest
PROPERTIES
    EveryCallReturns
CHECK_DEADLOCK FALSE
