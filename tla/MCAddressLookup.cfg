CONSTANTS
    Names <- MCNames
    Searches <- MCSearches
    NDots = {1, 2}
SPECIFICATION Spec
INVARIANTS
    FirstAnswerWins
    FailsOnlyAtTheEnd
    OnlyProperQuestions
