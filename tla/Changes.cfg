\* Two turns, a small and a large file, two reviewers.  The bounds on inputs end every run: a deadlock is no error.
SPECIFICATION Spec
CONSTANTS
    f1 = f1
    f2 = f2
    c1 = c1
    c2 = c2
    Files = {f1, f2}
    Large = {f2}
    Clients = {c1, c2}
    MaxTurns = 2
    MaxWrites = 2
    MaxInputs = 4
SYMMETRY Symmetry
INVARIANTS TypeOK EveryChangeIsListed  CleanCopiesAreSaved
   
CHECK_DEADLOCK FALSE
