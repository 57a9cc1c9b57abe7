SPECIFICATION Spec
CONSTANTS
    t1 = t1
    t2 = t2
    Tabs = {t1, t2}
    old = old
    new = new
    Chats = {old, new}
    Old = old
    List = List
    None = None
    Legacy <- OneMessage
    Budgets <- Small
INVARIANTS
    ChatSafe
    LegacyKept
PROPERTIES
    ReadsForward
    TabsCatchUp
CHECK_DEADLOCK FALSE
