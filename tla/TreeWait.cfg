\* The consumer loop over a tree of up to five keys.
SPECIFICATION Spec
CONSTANT Keys = {1, 2, 3, 4, 5}
INVARIANTS TypeOK NoLostWakeup
PROPERTY ImplementsWorkQueue
