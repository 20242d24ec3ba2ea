SPECIFICATION FairSpec
CONSTANTS
    carA = carA
    carB = carB
    Payloads <- MCPayloads
    Ids <- MCIds
    UserIds <- MCRealIds
    AutoBase = 1
    AutoTop = 2
    MaxChanges = 2
    MaxLearned = 2
    MaxRestarts = 1
INVARIANTS InSync AutoIdsDistinct
PROPERTIES NoLookupGap Loaded
