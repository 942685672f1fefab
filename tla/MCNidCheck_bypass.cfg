SPECIFICATION Spec
CONSTANT Dirs <- MCDirs
INVARIANT BypassErrorReported
