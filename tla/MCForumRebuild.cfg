SPECIFICATION Spec
CONSTANTS
    EditWindow = 2
    MaxAttachments = 1
    MailQuota = 2
    PollSpan = 1
    ModerationBoard = "modlog"
    FilterBoard = "filter"
    DenyBoard = "denypost"
    UndenyBoard = "undenypost"
    SecurityBoard = "syssecurity"
    RegistryBoard = "registry"
    RejectBoard = "reject"
    SysmailBoard = "sysmail"
    AnnouncementBoard = "announce"
    RecommendBoard = "recommend"
    BlessingBoard = "blessing"
    StatsBoard = "stats"
    VoteBoard = "vote"
    NoticeBoards = {"notepad", "announce"}
    SystemBoards = {"modlog", "filter", "denypost", "undenypost", "syssecurity", "registry", "reject", "sysmail", "announce", "recommend", "blessing", "stats", "vote", "notepad"}
    MaxFavoriteImportFolders = 2
    MaxRecipientsPerSend = 2
    PollOptions = {1, 2}
    TicksPerDay = 3
    MaxTime = 6
    DailyLists <- MCDailyLists
    PeriodsEnding <- MCPeriods
    CounterShard <- MCShard
    Scenarios <- NativeScenes
CHECK_DEADLOCK FALSE
INVARIANT RebuildSucceeds
