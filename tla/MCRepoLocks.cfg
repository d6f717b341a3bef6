SPECIFICATION Spec
CONSTANTS
    Thread = {t1, t2, t3}
    a = a
    aLink = aLink
    b = b
    kA = kA
    kB = kB
    Root <- MCRoot
    Key <- MCKey
    KeyOf <- MCKeyOf
    Mutex = {m1, m2, m3}
    NoMutex = NoMutex
    SharedGit = {g1, g2}
    NoGit = NoGit
    MaxDepth = 2
SYMMETRY Symmetry
INVARIANTS OneOperationPerRepository OneOperationPerAdapter NoCircularWait
