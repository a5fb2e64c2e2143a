SPECIFICATION Spec
CONSTANTS
  py1 = py1
  py2 = py2
  Pythons = {py1, py2}
  FilesOf <- MCFilesOf
  MaxVersion = 2
  MaxRuns = 4
  NoWheel = NoWheel
CHECK_DEADLOCK FALSE
INVARIANTS
  BindingsSurvive
  BindingsAreNew
PROPERTIES
  InstalledIsFresh
