SPECIFICATION Spec
CONSTANTS
    Addressees = 3
    Batch = 2
    MaxCrashes = 1
    MaxLost = 1
    MaxRetries = 1
    Drivers = {"virtualizor", "solusvm2"}
    Size = 3
    Blocks <- TwoBlocks
    Cap = 1
    NodeCap = 2
    MaxFailing = 1
    MaxMoves = 1
    Writers = {"p", "q"}
    Readers = {"v", "w"}
    Zone = 1
    Plans <- OpenRanges
    NoTime = NoTime
    MaxMade = 1
    MaxActs = 3
    MaxTime = 1
    MaxMessages = 4
    KeySets = {{"smtp_host", "switch_backup_hours"}, {"smtp_pass", "switch_sftp_user", "telegram_updates_offset"}}
    People = {"admin", "operator"}
    Admins = {"admin"}
    Values = {0, 1}
    Empty = 0
    TTL = 1
    MaxSaves = 2
    MaxTyped = 1
    MaxEvents = 1
    Editors = {"p", "q"}
    Ips = {"i", "j"}
    Dates = {54}
    NoDate = 0
    Today = 50
    Period = 5
    TokenTTL = 2
    MaxServers = 3
    Budgets <- EditingOrAdding
    Browsers = {"x", "y"}
    Passwords = {"p", "q"}
    RESEND_COOLDOWN = 1
    CodeTTL = 2
    Hour = 3
    MAX_ATTEMPTS = 2
    MAX_PER_HOUR = 2
    MaxNow = 2
    MaxCodes = 3
    MaxWrites = 2
    Asked = {"login v", "login w", "otp v"}
    LimitOf <- Limits
    WindowOf <- Windows
    MAX_KEYS = 1
    MaxClock = 3
INVARIANTS
    MessagesHold SumsHold AnchorKept DiffIsRight OpenIsOurTurn
    SignInHolds SettingsHold ServersHold
CHECK_DEADLOCK FALSE
