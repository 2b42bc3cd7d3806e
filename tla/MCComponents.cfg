SPECIFICATION Spec
CONSTANTS
    p1 = p1  p2 = p2  l1 = l1  i1 = i1  i2 = i2  v1 = v1  v2 = v2  v3 = v3
    c1 = c1  c2 = c2  c3 = c3  x1 = x1  x2 = x2  none = none
    Producers = {p1, p2}  NoProducer = none  Listings = {l1}
    NamesIn <- MCNamesIn  Evident = {}  Blends = {}  Managers = {m1, m2}
    MaxDecisions = 3  MaxRunFaults = 1
    Rows = 2  Bottles = {i1}  Brands = {i1, i2}  TitlesOf <- MCTitlesOf
    FirstIdentity <- MCFirstIdentity
    Batch = 1  Variants = {v1, v2, v3}  Nothing = nothing
    MaxUpsets = 2
    Fetches = {f1, f2, f3}  Limit = 1  Gain = 1  Cost = 2  Burst = 1
    MaxAttempts = 2  Window = 2
    Callers = {c1, c2, c3}  PoolSize = 2  LockNames = {1, 2}  LockOf <- MCLockOf
    Statements = 2  MaxTries = 2
    Instances = {x1, x2}  Files <- MCFiles  MaxStarts = 3  Nobody = nobody
    Clients = {c1, c2}  Batches = {x1, x2}  RowsOf <- MCRowsOf
    FamilyName <- MCFamilyName  RowKey <- MCRowKey  FileKey <- MCFileKey
    Likeness <- MCLikeness  Complete = {1, 2, 3}
    Faulty = {}  Doubtful = {2}  MaxRequests = 5  MaxStops = 1
    Fields <- MCFields  Role <- MCRole  Weight <- MCWeight
    Core = {"producer", "vintage"}
    HardFields = {"producer", "vintage", "volumeMl", "gtin", "categoryKey"}
    Fuzzy = {"producer"}  ChannelStrength <- MCStrength  StrongChannels = {"gtin"}
    Thresholds <- MCThresholds  VintageSensitive = TRUE  GtinResolvesVintage = FALSE
    AutoMatchBlocked = FALSE  CandidatePool <- MCPool  MaxCandidates = 2
    Snapshots <- MCSnapshots  AllowedTypes = {"regular", "sale"}
    MinPlausible = 5  MaxPlausible = 95  ExtremePct = 60  MagnitudeFactor = 8
    NoPrice = none  Unobserved = unobserved
    ShopCount = 4  Prices = {10, 11, 15}  NoOffer = nooffer
    Adapters = {"shopify", "woocommerce", "generic"}  ProductCount = 6
    FirstListed = {1, 2, 4, 5}  PageSize = 2  MaxPages = 4  MaxUrls = 5
    Roots <- MCRoots  ChildrenOf <- MCChildren  SitemapOf <- MCSitemapOf
    MaxSitemaps = 4  ExpectedMin = 0  MaxShopChanges = 2  MaxWalkFaults = 1
    Operations = {"apply"}  Enqueuers = {"api", "again"}
    JobAttempts = 2  JobStalls = 0  MaxSubmits = 2  MaxLedgerRows = 2
    MaxLedgerFaults = 1
    Admins = {"a", "b"}  Copies = {"apiSettings", "apiTaxonomy"}  Ttl <- MCTtl
    LoadTime = 1  Loaders = {1}  MaxTime = 4  MaxEdits = 2  MaxSettingFaults = 1
    MaxEvents = 4
    PageBlocks <- MCBlocks  Nodes <- MCNodes  PlatformAnswers <- MCAnswers
    MetaPrices = {none, 50}  MaxBlocks = 2  MaxNodes = 2  MaxParts = 3
    NoAnswer = none  NoNumber = none
    ListedPages = {"sparkling", "rose", "vineyard", "red", "other", "carton", "spirit"}
    PageOf <- MCPageOf  Vocabularies = {"noBock", "noBrut", "all"}
    PhrasesOf <- MCPhrasesOf  FirstVocabulary = "noBock"  Years = {"1998", "2015"}
    Volumes <- MCVolumes  Packs <- MCPacks  Editions <- MCEditions  Boxes <- MCBoxes
    Colours <- MCColours  Categories <- MCCategories  FoundedWords = {"est"}
    UndatedWords = {"nv"}  NotWineWords = {"palinka"}  StyleKind <- MCStyleKind
    ColourOf <- MCColourOf  MaxIdentityChanges = 2  NoEntry = none
    Stocks <- MCStocks  WineWords <- MCWineWords  Alphabet <- MCAlphabet  MinCount = 2
    MinShops = 2  Shortlist = 3  LogOf <- MCLogOf  MaxAnswers = 2
    Wines <- MCWines  Shelves <- MCShelves  NoField = none
    MakerAliases <- MCMakerAliases  PerChannel = 1  TotalFound = 2  TopVariants = 2
    TopEvaluated = 2  MinSimilarity = 32  MaxShelfChanges = 1  MaxChannelFaults = 1
    Pairs <- MCPairs  TrackedPairs <- MCTracked  BrokenPairs <- MCBroken  FirstOrder <- MCFirstOrder  RoundLimit = 2
    Outcomes = {"auto_verified", "source_unhealthy"}  InDays <- MCInDays
    NotPlanned = notplanned  MaxPairChanges = 1
    Triples = {"listing", "null"}  Deciders = {w1, w2}
    Decisions = {"verified", "doubtful", "nothing"}  NoReference = noreference
    MaxDecisionRows = 3  MaxPrunes = 2
    AlertKeys = {"health", "gate"}  LevelsOf <- MCLevelsOf  MinLevel = "error"
    PageOfAlerts = 2  MaxAlertRows = 3  MaxAlertFaults = 1
INVARIANTS
    ComponentsTypeOK OwnerFollowsNames OneVariantPerIdentity RateKept
    ImportLandsOnce DecidedByTheQuestion
    PositionAddsUp MigratedOnceInOrder
    NothingTakenForGone LedgerTellsOutcome
    ServedWasInForce PriceIsOfTheProduct ReadingSettles
    NoNameLost RightOneFound NoPairForgotten AlertsAreDelivered
PROPERTIES
    NoListingOfTheSweepStarves EveryFetchOfTheFetcherEnds ThePoolDrains
    FitToPublish SuggestionsAreSafe FoundationsKept
CHECK_DEADLOCK FALSE
