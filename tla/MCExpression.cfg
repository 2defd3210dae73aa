SPECIFICATION Spec
CONSTANTS
    Lines <- AllLines
    Wild <- Garbage
    Scopes <- TwoScopes
    Fields <- SomeFields
    Numerals <- SomeNumerals
INVARIANTS TreeRight EvaluatesRight
CHECK_DEADLOCK FALSE
