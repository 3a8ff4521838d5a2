CONSTANTS
    Words <- TestWords
    Numbers = {"0", "8"}
    Letters <- TestLetters
    HeaderFlags <- TestHeaderFlags
    Keys <- TestKeys
    Fields <- TestFields
    Counters <- TestCounters
    Longer <- TestLonger
    CellValues <- TestCells
    Columns <- TestColumns
    MaxRecords = 2
    MaxFields = 2
SPECIFICATION ParsersSpec
INVARIANTS
    
    StatsAreRead
CHECK_DEADLOCK FALSE
