\* Three user tasks and init.
SPECIFICATION Spec
CONSTANT USER_TASKS = 3
INVARIANT NoFault
INVARIANT PrivilegeKept
INVARIANT SelectorsCurrent
