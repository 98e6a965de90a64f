\* One user, two access channels, three messages on two backends.
SPECIFICATION InFairSpec
CONSTANTS
    help = help
    schedule = schedule
    echo = echo
    slack = slack
    telegram = telegram
    mixedSlack = mixedSlack
    irc = irc
    room = room
    cron = cron
    delay = delay
    slashEcho = slashEcho
    atBob = atBob
    atSue = atSue
    five = five
    hello = hello
    bob = bob
    sue = sue
    bot = bot
    Names = {help, schedule, echo}
    Help = help
    Schedule = schedule
    NoName = NoName
    Backends = {slack, telegram}
    Configured = {slack, telegram}
    Listed = {slack}
    Spellings = {slack, telegram, mixedSlack, irc}
    Lower <- LowerCase
    Models <- Offered
    Plugins <- TwoPlugins
    NoRunner = NoRunner
    Messages <- Asked
    Words <- AllWords
    Accounts = {bob, sue}
    Texts <- UpToFour
    Plans <- UpToFive
    Mentionings <- UpToTwo
    ChannelWords = {room}
    CronWord = cron
    DelayWord = delay
    Slashed = {room, cron, delay, slashEcho}
    Ats = {atBob, atSue}
    UserIn <- UsersIn
    IsCron <- IsFive
    IsDate <- IsFive
    NoWord = NoName
    Users = {bob}
    Self = bot
    AccessChannels <- Places
    Refreshed = TRUE
    Guarded = slack
    Symphony = slack
    NameGiven = {telegram}
INVARIANTS
    LoadsAsConfigured
    OnlyWhereDeclared
    DispatchInv
    AccessIsFresh
    AccessInv
    NoStrangers
    HeardIsRead
    WordsAreParsed
    AddIsUnderstood
PROPERTIES
    RevokedInTheEnd
    AskedIsAnswered
\* A bot that has failed to start stops.
CHECK_DEADLOCK FALSE
