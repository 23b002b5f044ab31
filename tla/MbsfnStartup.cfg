CONSTANT MaxTasks = 3
SPECIFICATION Spec
INVARIANT TypeOK
PROPERTY ConfigurationArrives
