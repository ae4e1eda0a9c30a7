CONSTANTS
  Page = 32
  HostPage = 32
  MapSize = 128
  ShSize = 2
  Stray = 99
  Ends = {128, 160, 192}
  Byte <- MCByte
  Files <- MCFiles
SPECIFICATION Spec
INVARIANTS StartsAsLinked ProtectsText  MailboxNamed MailboxIsGlobal MailboxNotMissed
CHECK_DEADLOCK FALSE
