SPECIFICATION FairSpec
CONSTANTS
  None = None
  Hidden = Hidden
  NoChannel = NoChannel
  AnyChannel = AnyChannel
  Admins = {a, b}
  PanelAdmins = {a}
  Channels = {main}
  Defaults = {FALSE}
  EnvChannel = main
  MaxCommands = 2
  MaxRouteTroubles = 1
  FeedChannels = {main, other}
  Cap = 2
  RowsPerPost = 1
  Attempts = 2
  MaxEvents = 2
  TopicAdmins = {a}
  TopicChannels = {main, other}
  LossAfter = 3
  GateAdmins = {a, b}
  GateChannels = {main, other}
INVARIANTS SettingsAccounted BatchesAccounted
PROPERTIES TopicAccounted FeedKeepsUp
CHECK_DEADLOCK FALSE
