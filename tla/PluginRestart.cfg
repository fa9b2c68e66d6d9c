SPECIFICATION PluginSpec
CONSTANTS
    NoPoll = NoPoll
    NoObject = NoObject
    Unread = Unread
    MaxCommands = 1
    MaxExits = 0
    MaxPosts = 1
PROPERTIES
    StartHolds
