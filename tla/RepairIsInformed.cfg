\* One request and one repair: what is the model told about its first answer?
CONSTANTS
    Requests = {r1}
    Feedbacks = {unknown_column}
    NoFeedback = NoFeedback
    MaxRetries = 1
    MaxRepair = 1
SPECIFICATION Spec
INVARIANT
    RepairIsInformed
