CONSTANTS
  Documents <- Written
  Names <- Called

SPECIFICATION Spec
INVARIANTS ReadsBack HashTellsEdits TornIsPrefix RulesAgree
