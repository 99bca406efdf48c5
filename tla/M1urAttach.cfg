\* Every call of the attach failing or not, both settings of the
\* null-packet filter, repeated attaches and releases.
SPECIFICATION Spec
INVARIANTS
    TypeOK
    UnwindInReverse
    NothingLeaked
