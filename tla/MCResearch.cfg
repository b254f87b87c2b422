SPECIFICATION ResearchSpec
CONSTANTS
  Bulls = Bulls
  Heat = Heat
  nba = nba
  nfl = nfl
  NoRow = NoRow
  Teams <- MCTeams
  Markets <- MCMarkets
  Events = {1, 2}
  Workers = {1, 2}
  Keys = {1}
  Horizon = 4
  League <- MCLeague
  Named <- MCNamed
  YesTeam <- MCYesTeam
  Supported <- MCMarkets
  GameDay <- MCGameDay
  Schedule <- MCSchedule
  Starts = {1, 3, 4}
  Outcomes = {"home", "away", "tie"}
  Ranges <- MCRanges
  HoursPerTick = 24
  WindowHours = 36
  MinConfidence = 9000
  AmbiguityMargin = 1000
  InitialRating = 1500
  KFactor = 20
  HomeAdvantage = 65
  HomeChance <- MCHomeChance
  PriceAge = 1
  ForecastAge = 1
  WatchEdge = 3
  TradeEdge = 8
  CandidateEdge = 8
  Crews <- MCCrews
  FrozenRating <- MCFrozenRating
  SourceAge = 2
  PayoutAge = 2
  QuoteAge = 2
  Caps = {165}
  Slippage = 1
  FeeBps = 200
  MinimumEdge = 2
INVARIANTS
  TypeOK
  OpportunityIsOfItsEvidence
  TrainsOnEarlierGames
  LabelsScoreThePlayedGame
  ReportFollowsTheResults
PROPERTIES
  RestsOnCurrentSources
  RunsFinish
CHECK_DEADLOCK FALSE
