\* Spec section 4.6 against the code: a topology cached once is returned
\* after the meta service has moved on.  Expected to be violated.
CONSTANTS
    Fetchers = {f1, f2}
    MaxTopoVersion = 2
SPECIFICATION Spec
CONSTRAINT ReturnsBound
INVARIANT ReturnedNotStale
