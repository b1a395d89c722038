\* Lengths and sizes of every residue modulo four; about three entries; writes
\* that fall short by every residue.
SPECIFICATION FormatSpec
CONSTANTS
    Lengths = {1, 2, 3, 4}
    Sizes = {0, 1, 2, 3, 4}
    Short = {1, 2, 3, 4}
    MaxBytes = 300
INVARIANTS
    Aligned
CHECK_DEADLOCK FALSE
