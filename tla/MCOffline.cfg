CONSTANTS
    Node = {1, 2, 3, 4, 5, 6, 7, 8, 9, 10, 11, 12, 13, 14, 15, 16}
    Document = 0
    Null = null
    MaxDepth = 6
    DictFile <- MCDictFile
    UserDictFile <- MCUserDictFile
    ModelFile <- MCModelFile
    IdfFile <- MCIdfFile
    StopWordFile <- MCStopWordFile
    Segmenter <- LoadSegmenter
    Extractor <- LoadExtractor
    MaxWordLength = 512
    TopN = 5
    Near = 3
    MaxAnswers = 2
    BlockSize = 5
    MaxPieces = 4
    MaxEdits = 2
    MaxSentence = 4
    MaxPages = 3
SPECIFICATION Spec
INVARIANTS TreeIsSound WhatIsSavedIsRead PagesOfTheFile SegmentationIsBest RedundancyRemoved AnswersAreExact
CHECK_DEADLOCK FALSE
