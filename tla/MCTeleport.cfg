SPECIFICATION Spec
CONSTANTS
    Player = {ann, bob}
    Timeout = 2
    MaxForms = 3
INVARIANTS
    TypeOK
    FormsOwned
PROPERTIES
    LateAnswerHarmless
    RequestsEnd
