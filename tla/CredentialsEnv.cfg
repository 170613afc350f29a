SPECIFICATION MCSpec
CONSTANTS
  p1 = p1
  p2 = p2
  a1 = a1
  a2 = a2
  NoProc = NoProc
  NoAccount = NoAccount
  NoBlob = NoBlob
  NoDir = NoDir
  Empty = Empty
  Procs = {p1, p2}
  Accounts = {a1, a2}
  Cmds = {"run"}
  MaxTokens = 2
  MaxCommands = 2
  MaxNative = 1
  MaxFaults = 0
INVARIANT OwnDirectory
