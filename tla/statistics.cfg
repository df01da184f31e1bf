CONSTANTS
    Width = 4
    Samples = {0, 1, 3, 6, 7, 8, 15}
    MaxIter = 4
    DropRatios = {0, 5, 25, 34, 49, 50, 75, 100}
SPECIFICATION Spec
INVARIANTS  MeanCorrect DeviationCorrect NoDivisionByZero
CHECK_DEADLOCK FALSE
