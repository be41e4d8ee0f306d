SPECIFICATION BridgeSpec
CONSTANTS
    o1 = o1  o2 = o2  global = global
    variable = variable  context = context  property = property
    Objects = {o1, o2, global}
    VarRefs = {variable}
    Context = context
    Global = global
    Props = {property}
    Threshold = 3
    Copies = 1
    Attempts <- MCAttempts
    Jobs = 1
SYMMETRY Symmetry
INVARIANTS
    CountsAgree NoDangling GarbageIsFound ReachableIsKept
    WeakRefsAreSafe Assertions LeavesNothing
PROPERTIES
    CollectionProgresses
