SPECIFICATION FairSpec
CONSTANTS
    Words = {"bad", "odd"}
    Dictionaries = {"en", "de"}
    NoDictionary = NoDictionary
    Known <- MCKnown
    Documents <- MCDocuments
    Selections <- MCSelections
    Replacements <- MCReplacements
    MaxGenerations = 4
    MaxRequests = 3
    MaxLength = 4
CHECK_DEADLOCK FALSE
INVARIANTS NothingIsStranded AnswersBelong ReviewIsTrue
PROPERTIES WorkEnds
