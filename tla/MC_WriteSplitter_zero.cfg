\* The splitter's own tests use encoded rows of size 0; so does this run.
CONSTANTS
    RowSizes = {0, 1, 2}
    MaxRows = 3
    Budgets = {0, 1, 2}

SPECIFICATION Spec

INVARIANT PartitionExact
