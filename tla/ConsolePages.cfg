SPECIFICATION MCSpec
CONSTANTS
  None = None
  x1 = x1
  x2 = x2
  y1 = y1
  y2 = y2
  z1 = z1
  z2 = z2
  BrowserTabs = {x1, x2}
  PageLimit = 2
  MenuLimit = 1
  MaxNotes = 3
  Todos = {x1}
  MaxMoves = 2
  MaxActs = 2
  MaxTexts = 1
  Schedules = {x1}
  Times = {y1, y2}
  Nine = y1
  MaxClock = 1
  MaxCalls = 2
  MaxTouches = 1
  Formats = {x1, x2}
  Texts = {y1}
  PageSize = 1
  MaxReports = 1
  MaxDialogs = 2
  MaxSends = 2
  MaxClicks = 2
  MaxWrites = 1
  MaxForeign = 1
  MaxMounts = 2
  MaxFailures = 1
  Vaults = {x1, x2}
  Topics = {y1, y2}
  MaxSaves = 1
  MaxVisits = 1
  Sources = {x1, x2}
  Empty = y2
  MaxVersions = 3
  Scopes = {x1, x2}
  Cards = {x1}
  Wss = {y1, y2}
  Names = {z1, z2}
  MaxBoardForeign = 2
  MaxBoardTouches = 3
  Tags = {y1, y2}
  MaxEdits = 3
  Agents = {x1}
  Models = {y1, y2}
  Complexities = {z1, z2}
  MaxDraftEdits = 2
  MaxDraftSaves = 2
  MaxRowVersions = 2
  MaxOpens = 2
  MaxKey = 1
  Users = {x1, x2}
  Global = y1
  Lists <- SelLists
  VaultsOf <- SelVaults
  MaxTurns = 5
  FileNames = {x1}
  FileContents = {y1}
  Links = {y2}
  IngestModes = {z1, z2}
  WikiMode = z1
  FileTags = {x1}
  IngestVaults = {x1}
  MaxRows = 2
  MaxIngestOpens = 1
  MaxSubs = 2
  MaxRowEdits = 3
  AuditTopics = {x1, x2}
  MaxAudits = 2
  MaxSuggestions = 1
  MaxBreaks = 1
  MaxDecisions = 1
  MaxDrawerMoves = 2
  Org = "org"
  KindOf <- GraphKind
  HomeWs <- GraphWs
  VaultOf <- GraphVault
  Access <- GraphAccess
  Member <- GraphMember
  GuestOf = {}
  Linked <- GraphLinked
  DataSets <- GraphData
  Grabbed = {"team"}
  MaxPicks = 2
  OwnId = x1
  People = {x1, x2}
  BarTexts <- TypedTexts
  MaxFormOpens = 2
  MaxAdds = 2
  MaxCreates = 2
  Days = 5
  DayWidth = 6
  DayPad = 1
  Today = 2
  NowX = 14
  Marks <- TimelineMarks
  StripWidths = {10, 14, 40}
  MinLens = 2
  LeastLens = 4
  MostLens = 6
  YearLength = 2
  MonthLength = 3
  YearsShown = 3
  WindowStart = 16
  Distances <- TimelineDistances
  MaxTimelineTurns = 3
  Sections = {"profile", "people", "appearance"}
  OwnerOnly = {"people"}
  Profile = "profile"
  Appearance = "appearance"
  OwnTexts = {x1, x2}
  BlankText = z1
  Passwords = {y1, y2}
  Limit = 2
  Themes = {x1, x2}
  MaxSettingsTurns = 3
  Items <- ShellItems
  OtherRoutes = {"inbox"}
  Home = "home"
  Login = "login"
  ScreenWidths = {1, 3, 9}
  MinTab = 1
  Places = {1, 2}
  MaxShellTurns = 4
INVARIANTS
  InboxSafe
  AgentsSafe
  AgendaSafe
  ReportsSafe
  CacheSafe
  WikiSafe
  SourcesSafe
  FormsSafe
  OrganisationSafe
  ViewsSafe
CHECK_DEADLOCK FALSE
