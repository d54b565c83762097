CONSTANTS
    h1 = h1
    p1 = p1
    hp1 = hp1
    Objs <- MCObjs
    KindOf <- MCKindOf
    IntWidth = 1
    ApiMayFail = TRUE
SPECIFICATION Spec
INVARIANT NotifiedUnlessRetrying
PROPERTY NotifySuccessWakes
