SPECIFICATION Spec
CONSTANTS
    NUMBER_OF_LED = 2
    Numbers <- AnyNumber
    Leftovers <- NoneOrSeven
    MaxRequests = 3
PROPERTIES LevelIsReached Blinks
INVARIANTS TypeOK OnlyWhatWasAsked ArrivesUnlessCrowded ExecutedUnlessRaced
