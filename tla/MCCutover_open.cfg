CONSTANTS
  trial = trial
  final = final
  rows = rows
  files = files
  s1 = s1
  s2 = s2
  Export = {trial, final}
  Final = {final}
  Part = {rows, files}
  Shell = {s1, s2}
SPECIFICATION Spec
PROPERTIES
  OpenedIsVerified
