SPECIFICATION BackendsSpec
CONSTANTS
  Calls <- MCCalls
  Escapers <- MCEscapers
  Constants <- MCConstants
  Texts <- MCTexts
INVARIANTS
  LoweringIsSound
  InferenceHolds
  EffectsAreKept
  BackendsAgree
  SimpleFoldsKeepMatches
CHECK_DEADLOCK FALSE
