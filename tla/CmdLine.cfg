SPECIFICATION LineSpec
CONSTANTS
    ListLengths = {0, 1, 2}
    MaxMissed = 2
INVARIANTS FieldsInPlace InsideInput SentIsFilled FitsFrame AnswersMatched
