\* One device, one character device file, every hardware call failing or
\* not.  After teardown and the last close nothing more can happen, so the
\* final states are not deadlocks of the driver.
SPECIFICATION Spec
CHECK_DEADLOCK FALSE
INVARIANTS
    TypeOK
    KrefCount
    ReleasedExactlyWhenUnheld
    PinsFollowCapture

    
