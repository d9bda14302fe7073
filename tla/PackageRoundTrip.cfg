SPECIFICATION Spec
CONSTANTS
  Sources <- MCSources
  ScriptPackages <- MCScriptPackages
  DefaultObjects <- MCDefaultObjects
  ScriptObjects <- MCScriptObjects
  Cases <- MCCases
  Others <- MCOthers
  Redirects <- MCRedirects
INVARIANTS
  SameObjects
  UnknownOnlyIfLost
  DependenciesKept
  ConvertsBack
  HeaderReadsBack
  NeverPanics
