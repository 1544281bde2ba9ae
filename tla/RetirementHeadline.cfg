SPECIFICATION Spec
CONSTANTS
    BISECTION_ITERATIONS = 5
    Request <- MCRequest
    Return <- MCReturn
    None = None
INVARIANT HeadlineIsPaid
CHECK_DEADLOCK FALSE
