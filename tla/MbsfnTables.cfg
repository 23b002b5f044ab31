CONSTANT MaxTasks = 3
SPECIFICATION Spec
INVARIANT ConfiguredAfterInit
