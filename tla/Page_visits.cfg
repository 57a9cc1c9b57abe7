SPECIFICATION Spec
CONSTANTS
  Routes = {"profile", "billing", "catalog", "launcher", "editor", "versions",
            "evals", "pane", "explorer", "chat", "drop", "viewer"}
  MaxClicks = 2
  Cares <- MCCares
  MaxChanges = 2
  MaxRenewals = 2
  MaxTroubles = 1
  Prices = {"a", "b"}
  Keyings <- MCKeyings
  NoPrice = NoPrice
  Files = {f1}
  Chips = {c1}
  DefaultChips = {c1}
  Wants <- MCWants
  MaxRuns = 2
  Kinds = {"blank", "text", "head", "bullet", "number", "quote", "fence", "cell", "rule"}
  MaxLines = 4
  MaxVisits = 2
  MaxHeads = 1
  Versions = {v1, v2}
  First = v1
  Places = {p}
  Tasks = {t1, t2}
  NoVersion = NoVersion
  MaxActs = 2
  MaxJobs = 2
  MaxPolls = 1
  Budgets <- MCBudgets
  Runs = {"r1", "r2"}
  Follows <- MCFollows
  Found = {"r1"}
  Requests = {p1, p2}
  MaxTouches = 1
  Order <- MCOrder
  FirstPlace <- MCFirstPlace
  Dirs = {"a", "b"}
  Hits = {"b", "f"}
  MaxGestures = 2
  MaxReloads = 1
  Talks = {"c1", "c2"}
  MaxMarks = 2
  MaxSources = 3
  MaxDeeds = 3
  Disk = {"d", "e", "v", "w", "u", "x", "y", "z"}
  Parts <- MCParts
  NameOf <- MCNameOf
  Stamp <- MCStamp
  Drops <- MCDrops
  Folder <- MCFolder
  Row = "row"
  MaxDrops = 1
  MaxMoves = 3
  MaxBad = 1
  Docs = {"upload", "twin", "other"}
  Written = {"upload", "twin"}
  DocName <- MCDocName
  Queries = {"wide", "narrow"}
  Matches <- MCMatches
  MaxLooks = 5
INVARIANTS
  AccountKept
  PriceFollows
  RunAsShown
  DocumentKept
  VersionsShown
  EvalsShown
  EndsTold
  RowsChosen
  ChatShown
  DropTaken
  SearchMarked
PROPERTIES
  NoSecondPlan
  FilledKept
CHECK_DEADLOCK FALSE
