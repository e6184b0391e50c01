SPECIFICATION PromptSpec
CONSTANTS
  Clickers = {u1, u2, u3, bystander}
  Asked = {u1, u2, u3}
INVARIANTS
  ResolvedMeansConfirmed
  CancelIsHonoured
PROPERTY AnsweredUnlessReplyFails
CHECK_DEADLOCK FALSE
