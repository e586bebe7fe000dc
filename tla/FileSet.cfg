SPECIFICATION Spec
CONSTANTS
  Adders = {a1, a2}
  Readers = {r1}
  Sizes <- MCSizes
  MaxCalls = 2
  NoOne = NoOne
  NoFile = NoFile
INVARIANTS AnswersOwner
PROPERTIES AppendOnly LookupsAnswered TableSpec
