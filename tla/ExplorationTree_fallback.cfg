SPECIFICATION Spec
CONSTANT MaxTries = 1
INVARIANT FallbackIsGlobal
