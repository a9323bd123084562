SPECIFICATION AppSpec
CONSTANTS
  Shortages = {FALSE}
  WrongHandle = {{"destroy"}}
INVARIANT
  BuffersAsCommented
