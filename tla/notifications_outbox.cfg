CONSTANTS
    i1 = i1
    mail = mail
    chat = chat
    Incident = {i1}
    Channel = {mail, chat}
    Routed <- MCOpenings
    Scoped = {chat}
    Late = {chat}
    Removable = {chat}
    Aging <- MCChatDays
    Idle = Idle
SPECIFICATION FairSpec
INVARIANTS ProcessedWasReceived
PROPERTIES RemindersBounded RemindersStop EventsSettle RemindersRepeat KeepsPromise
