\* Three concurrent callers of fetch_nodes; the meta topology goes through
\* three versions.
CONSTANTS
    Fetchers = {f1, f2, f3}
    MaxTopoVersion = 3
SPECIFICATION Spec
CONSTRAINT ReturnsBound
INVARIANT ReturnedMonotone
