\* Encoded rows of real rows are never empty: sizes start at 1.
CONSTANTS
    RowSizes = {1, 2, 3}
    MaxRows = 4
    Budgets = {0, 1, 2, 3, 4, 5}

SPECIFICATION Spec

INVARIANT PartitionExact
INVARIANT BatchBound
