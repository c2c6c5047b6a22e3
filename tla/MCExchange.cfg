CONSTANTS
    mine = mine
    other = other
    asked = asked
    unasked = unasked
    Ids <- TwoIds
    Questions <- TwoQuestions
    Timeout = 2
    Budgets <- SomeBudgets
SPECIFICATION FairSpec
INVARIANTS
    ReplyIsAnswer
    TCPForAReason
    ConnectionClosed
    WaitBounded
PROPERTIES
    Returns
