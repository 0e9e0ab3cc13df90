SPECIFICATION Spec
CONSTANTS
    Root = Root  NoCall = NoCall
    review = review  testRun = testRun  search = search
    Calls <- MCCalls
    Caller <- MCCaller
    Background <- MCBackground
    Spilled <- MCNone
    MaxAttempts = 1
    MaxBoots = 3
PROPERTIES AnswersIntegrate
