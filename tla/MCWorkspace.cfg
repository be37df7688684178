SPECIFICATION SuiteSpec
CONSTANTS
  MaxPlanSteps = 2
  MaxTotalSteps = 4
  None = None
  TouchedPaths = {"p", "q"}
  SmallTexts = {"a", "b"}
  LargeBytes = {"c"}
  BeforeTask = {"a"}
  NoBytes = "none"
  CleanMark = "clean"
  SharedPaths = {"p"}
  MaxTaskWrites = 2
  MaxTaskCommands = 1
  MaxReviews = 1
  Agents = {"x", "y"}
  EditedFiles = {"f", "g"}
  FileContents = {"a", "b"}
  EditOf <- MCEditOf
  MissingFile = "missing"
  FirstContents = {"a"}
  MaxViews = 1
  MaxEditCalls = 3
  MaxForeign = 1
  Sessions = {"s", "t"}
  Projects = {"p", "q"}
  SessionProject <- MCSessionProject
  MemoryIds = {"m"}
  MemoryTexts = {"a", "b"}
  Secrets = {"k"}
  MaxRevision = 3
  MaxTurnsOf <- MCMaxTurnsOf
  MaxWritesOf <- MCMaxWritesOf
  RuleCalls <- MCRuleCalls
  Workspaces <- MCWorkspaces
  Protected <- MCProtected
  Installed = {"git", "make"}
  Restrictions <- MCRestrictions
  Lifetimes = {"session", "project"}
  MaxApprovals = 2
  MaxEdits = 1
  Callers = {"consumer", "directory"}
  MaxRefusals = 2
  Shapes = {"indexed", "repeating", "growing", "bare", "named", "responses"}
  MaxAttempts = 2
  MaxText = 2
  MaxAnswerCalls = 2
  MaxArgs = 2
  SearchedFiles = {"a", "b", "c"}
  Hits = {"a", "b", "c"}
  Nameless = {"c"}
  BatchMax = 2
  MaxResults = 2
  MaxChanges = 1
  AgentProject <- MCAgentProject
  Global = "global"
  Notes = {"n", "m"}
  MaxChars = 1
  MaxUpdates = 2
  MaxDeaths = 1
  MaxHands = 1
  MaxEpisodeTurns = 2
  MaxCrashes = 2
  MaxFails = 2
INVARIANTS
  PlanIsSound
  
  RecallIsSound
  RuntimeIsReleased
  
  NothingOwedIsLost
  RulesAreApprovals
PROPERTIES
  ExtractedOnce
  ReplacedIsKnown
CHECK_DEADLOCK FALSE
