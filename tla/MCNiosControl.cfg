SPECIFICATION Spec
CONSTANTS
    Plls <- MCPlls
    Indices <- MCIndices
    Settings = {a, b}
    None = None
INVARIANTS AnswersAreMine
PROPERTIES ConfiguredAsAsked SecondLookIsTrue StartsAreServed
