CONSTANTS
    Chats = {q1}
    Keepalive = Keepalive
    User = User
    MaxPairs = 3
SPECIFICATION Spec
PROPERTY KeepaliveYields
CHECK_DEADLOCK FALSE
