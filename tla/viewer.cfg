SPECIFICATION FairSpec
CONSTANTS
  MaxSessions = 2
  MaxClicks = 3
  MaxMessages = 2
  Modifiers = {"ctrl"}
  Plans <- MCPlans
  WantsPassword = FALSE
  Refusals <- MCRefusals
INVARIANTS SessionsApart HandshakeGoesOn RefusalShown
PROPERTIES KeysInStep DisconnectEnds
CHECK_DEADLOCK FALSE
