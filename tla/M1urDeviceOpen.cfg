\* A failed open against spec sections 4.2 and 7: the sub-devices that
\* m1ur_backend_init brought up must not stay initialized once open fails.
SPECIFICATION Spec
CHECK_DEADLOCK FALSE
INVARIANT ChipsTermedWhenClosed
