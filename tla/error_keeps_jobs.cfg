\* Finding: of two overlapping enables one fails late and leaves the jobs of the other.
SPECIFICATION LifecycleSpec
CONSTANTS
    a1 = a1  a2 = a2
    q1 = q1  q2 = q2
    None = None
    Apps = {a1}
    Requests = {q1, q2}
    MaxToggles = 2
    MaxFailures = 1
SYMMETRY Interchangeable
INVARIANTS
    JobsWhileEnabled
\* Nobody has to toggle an app, so an idle server may stop here.
CHECK_DEADLOCK FALSE
