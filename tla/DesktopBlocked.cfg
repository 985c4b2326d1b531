SPECIFICATION FairSpec
CONSTANTS
    Window = {w1, w2}
    Text = {t1}
    Accept = Accept
    None = None
    Torn = Torn
PROPERTY
    ConversationShown
CHECK_DEADLOCK FALSE
