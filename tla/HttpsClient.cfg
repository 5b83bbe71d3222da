\* A fetch or a post, with and without OpenSSL, and a server that may answer, stall, close or vanish.
CONSTANTS
    Urls <- MCUrls
    Answers <- MCAnswers
    Addresses = 2
    Pieces = 2
SPECIFICATION FairSpec
INVARIANT NothingLeft
INVARIANT AnswerWhole
PROPERTY RequestReturns
