SPECIFICATION Spec
CONSTANTS
    Size = 7
    Overlap = 3
    Lengths = {1, 4}
    MaxBlocks = 4
    Scores <- MCScores
    Zero = 0
    MinScore = 4
    TopKs = {1, 2}
INVARIANTS
    TypeOK
    Excerpts
    SectionNearby
    BestHits
PROPERTIES
    AppendKeeps
