SPECIFICATION ConsoleSpec
CONSTANTS
  MaxClicks = 2
  MaxOpen = 2
  Nil = Nil
  MaxTokens = 2
  GroupLists <- MCGroupLists
  Lists = {"usage", "balance", "users", "redeem", "usageLogs", "adminBalance"}
  Totals = {0, 1, 2}
  PageSizes = {1, 2}
  Users = {ada, bob}
  Admins = {ada}
  ada = ada
  bob = bob
  DefaultTtl = 2
  MaxTtl = 3
  Ttls <- MCTtls
  MicroPerUsd = 10
  Typed = {5, 26}
  MinAlert = 10
  DefaultAlert = 100
  Codes = {c1, c2}
  c1 = c1
  c2 = c2
  Worth = 7
  ChatModes = {"gemini-image", "anthropic"}
  ChatModels = {"opus", "imagen"}
  Listings <- MCListings
  KeptSends = 1
  Bodies <- MCBodies
  Streams <- MCStreams
  Texts = {"a", "b"}
  Keys = {k1, k2}
  MaxTimers = 2
  ZhTexts = {"copy", "copied"}
  EnTexts = {"copy"}
  ModelIds <- MCIds
  ModelFilters <- MCFilters
  MonitorModels = {m1, m2}
  HighError = {m1}
  HighLatency = {m2}
  m1 = m1
  m2 = m2
  MaxDetails = 2
  Foci = {"all", "offline"}
  Groups <- MCGroups
  Upstreams <- MCIds
  Candidates <- MCIds
  MaxRoutes = 2
  MaxRules = 2
  Existing = {"m1"}
  Offered <- MCOffered
  MaxPicks = 2
  Me = "me"
  Others = {"other"}
  PageRoles = {"default", "admin", "super_admin"}
  MaxUserLoads = 1
INVARIANTS
  PlainKept LockedUnderModal PagerTells TokensPaired NoStrayCountdown OkIsShown
  OneSendAtATime HistoryReplays StreamWhole CopiedGoesAway
  OneRowPerModel SavedRouteIsWhole DetailOfTitle OnePoll LinksDialogTells StagedIsAnnounced
PROPERTIES
  ButtonsReturn
CHECK_DEADLOCK FALSE
