\* a claim of the docs that the code does not keep
SPECIFICATION Spec
INVARIANT ErrnoIsErrno
CHECK_DEADLOCK FALSE
