CONSTANTS
    news = news
    chat = chat
    Sockets = {1, 2, 3}
    Channels = {news, chat}
    Guarded = {chat}
    Presence = {chat}
    MaxDrops = 1
SPECIFICATION Spec
INVARIANTS
    TypeOK
    PresenceAgrees
    HeardWhenSettled
CHECK_DEADLOCK FALSE
