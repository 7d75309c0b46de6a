\* Two queries, two versions of the corpus, every outcome of every call.
CONSTANTS
  Queries = {q1, q2}
  MaxCorpus = 1
  NoReply = NoReply
SPECIFICATION Spec
SYMMETRY QuerySymmetry
INVARIANTS
  TypeOK
  SyntheticIsDeclared
  OutageNeverRefuses
  ErrorHasOtherCause
  AnswerFitsContext
  PartialMeansPartial
