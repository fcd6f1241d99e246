CONSTANTS
    Threads = {w, t1, t2}
    Watcher = w
    External = {sidecar}
    Plain = {sidecar}
    Builtin = {mqtt}
    Configured = {mqtt}
SYMMETRY Symm
SPECIFICATION Spec
INVARIANTS TypeOK CacheFresh InstancesTracked ProcessesTracked
CHECK_DEADLOCK FALSE
