SPECIFICATION Spec
CONSTANTS
  ClaudeIds <- MCClaudeIds
  InternalIds <- MCInternalIds
  FileIds <- MCFileIds
  HugeBudget <- MCHugeBudget
  NoData = NoData
  DefaultModel = "pro"
  Plain = {"X-Team", "X-Key"}
  Worlds <- MCWorlds
  OnSpec <- MCMax
  AutoSpec <- MCAuto
  OffSpec <- MCOff
  UnsetSpec <- MCUnset
  Thinkings <- MCThinkings
  ClientHeaders <- MCClientHeaders
INVARIANT NoSilentDowngrade
CHECK_DEADLOCK FALSE
