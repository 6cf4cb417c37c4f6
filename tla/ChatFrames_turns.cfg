SPECIFICATION FramesSpec
CONSTANTS
  Tokens = {"a", "empty"}
  Nothing = "empty"
  MaxItems = 3
CHECK_DEADLOCK FALSE
INVARIANTS FramesTypeOK SeenIsWhatArrived NothingIsInvented ReplyIsOfTheEvents
