SPECIFICATION Spec
CONSTANTS
  lib = lib
  app = app
  test = test
  Production = {lib, app}
  Tests = {test}
  Snippet = snippet
  Symbols = {"f"}
  Words = {"w1", "w2", "s"}
  Cases = {"empty", "other"}
  AstCases = {"empty"}
  Requirements = {"r", "s"}
  Short = {"s"}
  WordsOf <- MCWordsOf
  Versions <- MCVersions
  Deleted = Deleted
  Repositories <- MCRepositories
  Tasks <- MCTasks
  Claims <- MCClaims
  NoList = NoList
  Failures <- MCFailures
INVARIANTS DisagreementIsExplained RatersDifferOneWay ClaimsOnlySilence WaivedIsLabelledClean
CHECK_DEADLOCK FALSE
