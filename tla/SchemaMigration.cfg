CONSTANTS
    old = old
    new = new
    again = again
    Openers <- ThreeOpeners
    Program <- StateDB
    Rows <- TwoRows
    MaxFailures = 3
SPECIFICATION SchemaSpec
INVARIANTS
    MigrationKeepsData
