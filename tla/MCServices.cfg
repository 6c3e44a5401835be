CONSTANTS
  Call = {x1, x2}
  NoCall = NoCall
  ToolKey = {k1}
  NoKey = NoKey
  MaxRounds = 1
  MaxCalls = 1
  Handler = {x1, x2}
  ActionKey = {"r1", "p1"}
  Poll = {"p1"}
  MaxActionFaults = 1
  Msg = {m1}
  NoMsg = NoMsg
  TurnId = {x1, x2}
  MaxPipeFaults = 1
  MaxDocs = 2
  Poller = {x1, x2}
  DocText <- Texts
  ChunkSize = 4
  Overlap = 1
  MaxDocFaults = 1
  AllowThread = {a1}
  SettingRequest = {x1, x2}
  Unset = Unset
  MaxSettingFaults = 1
  StaleAfter = 0
  MaxTook = 1
  Pid = {i1, i2, i3}
  NoPid = NoPid
  AllowMultiple = FALSE
  MaxStarts = 5
  Edit = {x1, x2}
  NoRow = NoRow
  MaxEdits = 3
  MaxEditFaults = 1
  Caller = {x1, x2}
  Sending = {x1, x2}
  DirectThread = {d1}
  GroupThread = {g1}
  Text = {"long", "quoted"}
  Straightened = {"quoted"}
  Shape <- Shapes
  RateWindow = 1
  RateLimit = 1
  GlobalLimit = 2
  SameWindow = 1
  OtherWindow = 0
  Kept = 2
  ReplyWindow = 1
  MaxChars = 4
  MaxParts = 3
  NoteRoom = 1
  MaxSends = 4
  Now <- Times
  Spoken <- Clocks
  Delay = {0, 5}
  Asking = {x1, x2}
  NoAsking = NoAsking
  ContextLimit = 2
  PromptLimit = 1
  StateTtl = 1
  ClarifyTtl = 0
  MaxTime = 1
  Clerk = {x1, x2}
  Member = {u1, u2}
  NoTime = NoTime
  MaxHour = 1
  MaxOrders = 1
  RuleId = {x1, x2}
  RuleThread = {t1}
  NoRule = NoRule
  MaxRuleEdits = 2
  MaxCounts = 1
  Tab = {"friends", "allowed"}
  Listing <- Friends
  FoundBy <- Searches
  TabLoad = {x1, x2}
  NoTabLoad = NoTabLoad
  Who = {"p1"}
  Fetch = {x1, x2}
  Change = {c1}
  Told = {x1, x2}
  TraceWindow = 1
  ListWindow = 2
  MaxTellFaults = 1
  MaxRowEdits = 2
  MaxIdentityFaults = 1
SPECIFICATION Spec
VIEW ServicesView
SYMMETRY ServicesSymmetry
INVARIANTS
  ServicesTypeOK
  ToolsKeepTheirWord
  ActionsAreAccountedFor
  TurnsAreTrue
  HermesIsToldTheTruth
  RemindersAreDue
  CompletedMeansWhole
  EditsTakeHold
  ReportsAddUp
  OneInstance
  ConsoleKeepsUp
  GuardsStand
CHECK_DEADLOCK FALSE
