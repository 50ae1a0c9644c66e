CONSTANTS
    MaxEmits = 4
    Responses = {1, 2}
    Failures = {"model_error", "cancelled"}
    Questions <- SmallQuestions
    Answers <- SmallAnswers
    MaxQuestions = 2
    Adapters <- AllAdapters
SPECIFICATION StartedSpec
INVARIANTS
    ObserversSeeAStream
    CompletionIsTrue
    DecisionsAnswerTheRequest
    ReportIsTrue
    PassMeansNoStaleControls
PROPERTIES
    ViolationIsNoSuccess
CHECK_DEADLOCK FALSE
