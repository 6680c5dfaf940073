CONSTANTS
    Calls = {m1, m2}
    Ingester = Ingester
    NoProc = NoProc
    NoText = NoText
    Torn = Torn
    First = First
    Edited = Edited
    MaxIds = 3
    MaxCrashes = 0
SPECIFICATION Spec
INVARIANT ForgottenStaysForgotten
CHECK_DEADLOCK FALSE
