SPECIFICATION Spec
CONSTANT Dirs <- MCDirs
INVARIANT AcceptedHasNoDuplicates
