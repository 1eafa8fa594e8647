SPECIFICATION Spec
CONSTANTS
  Word <- MCWord
  Credential <- MCCredential
  Entropic <- MCEntropic
  Secret <- MCSecret
  Dashed <- MCDashed
  Brief <- MCBrief
  Tiny <- MCTiny
  Runner <- MCRunner
  Base <- MCBase
  NoExe <- MCNoExe
  Head3 <- MCHead3
  Tail3 <- MCTail3
  Registry <- MCRegistry
  TargetOS = "linux"
  FileChoice <- MCFileChoice
  ProcChoice <- MCProcChoice
  MaxEdits = 1
  MaxRuns = 2
INVARIANTS TypeOK EntriesExact ConfirmedRan RunningConfirmed SecretsMasked HashTracksEntry
