\* Three chats of two users at a time, and two changes of the consent level.
SPECIFICATION LocalSpec
CONSTANTS
    ann = ann
    bob = bob
    q1 = q1
    q2 = q2
    q3 = q3
    diary = diary
    nobody = nobody
    NotSet = NotSet
    Chats = {q1, q2, q3}
    UserOf <- MCUserOf
    ConversationOf <- MCConversationOf
    LimitOf <- MCLimitOf
    Memories = {diary}
    OwnerOf <- MCOwnerOf
    ConsentLevels = {1, 2}
    MaxConversations = 1
    MaxChanges = 2
SYMMETRY MCSymmetry
INVARIANTS
    OwnMemories
    OwnAnswer
    AskedFirst
CHECK_DEADLOCK FALSE
