SPECIFICATION MCSpec
CONSTANTS
    Procs = {p, q}
    WithoutFts = {q}
    Latest = 4
    Adds = {3}
    Rebuilds = {4}
    OldVersions = {2, 3, 4}
    MaxEvents = 2
    MaxStarts = 4
    Users = {u, w}
    MaxOpens = 4
    Dirs <- Places3
    FileNames <- Names4
INVARIANT ProjectsStaySeparate
CHECK_DEADLOCK FALSE
