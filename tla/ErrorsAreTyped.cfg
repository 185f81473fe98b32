\* One request: which errors can leave generate?
CONSTANTS
    Requests = {r1}
    Feedbacks = {unknown_column}
    NoFeedback = NoFeedback
    MaxRetries = 1
    MaxRepair = 1
SPECIFICATION Spec
INVARIANT
    ErrorsAreTyped
