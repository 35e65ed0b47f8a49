SPECIFICATION FairSrcSpec
CONSTANTS
  GeneratorLists <- AnyLists
  MaxEvents = 3
  MaxUnanswered = 3
INVARIANTS EventAliveWhenRead ClockRegistered AnswersInOrder AnsweredAfterWork
PROPERTIES EveryEventAnswered
CHECK_DEADLOCK FALSE
