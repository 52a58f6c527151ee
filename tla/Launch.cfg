SPECIFICATION Spec
CONSTANTS
  Seconds = {"5"}
  KeyArgs = {"ctrl-g"}
  Words = {"denabase", "mine"}
  Builtins <- MCBuiltins
  Files <- MCFiles
  InitialCapacity = 1
  MaxArgs = 4
  MaxEdits = 1
INVARIANTS LaunchTypeOK ParsesAsDocumented DirectoryDecides UserFirst StartsWhatWasAsked
