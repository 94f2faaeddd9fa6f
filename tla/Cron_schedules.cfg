CONSTANTS
    Meters = {"gas", "heat", "off"}
    Disabled = {"off"}
    Names = {"often"}
    Default = Default
    Expressions = {"second", "third"}
    CronNext <- EverySecondOrThird
    NoExpression = NoExpression
    MaxTime = 6
    MaxSetBacks = 1
SPECIFICATION FairSpec
INVARIANTS EveryMeterScheduled NoMatchForgotten
PROPERTIES NoMatchTwice OncePerRound DueIsServed
CHECK_DEADLOCK FALSE
