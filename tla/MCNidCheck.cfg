SPECIFICATION Spec
CONSTANT Dirs <- MCDirs
INVARIANTS TypeOK EntriesSorted LibraryNamesUnique NoDuplicatedName RefusedForCause
