CONSTANTS
    Threads = {w, t1}
    Watcher = w
    External = {sidecar}
    Plain = {}
    Builtin = {mqtt}
    Configured = {mqtt}
SPECIFICATION Spec
PROPERTY RequestsReturn
CHECK_DEADLOCK FALSE
