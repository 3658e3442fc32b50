SPECIFICATION Spec
CONSTANTS
  Calls <- MissionCalls
  Answers <- ExtensionAnswers
  Numbers <- Numerals
INVARIANTS ReadAsMeant AnsweredAsMeant
