SPECIFICATION Spec
CONSTANTS
    Names <- MCNames
    Numbers <- MCNumbers
    Senders <- MCSenders
    Trees <- MCTrees
    Foreign <- MCForeign
    NoEvent = NoEvent
    NoHash = NoHash
    NoAnswer = NoAnswer
INVARIANTS AnswersByContent
PROPERTIES RestoreKeepsIdentity
