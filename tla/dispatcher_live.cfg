SPECIFICATION ClientSpec
CONSTANTS
    browser = browser
    webapp = webapp
    unconfined = unconfined
    browserFile = browserFile
    webappFile = webappFile
    rogueFile = rogueFile
    http = http
    intent = intent
    www = www
    site = site
    pack = pack
    opener = opener
    asker = asker
    page = page
    blog = blog
    byId = byId
    byIntent = byIntent
    unknown = unknown
    empty = empty
    NoApp = NoApp
    NoLink = NoLink
    NoPackage = NoPackage
    Unconfined = unconfined
    Intent = intent
    Files <- MC_Files
    Urls <- MC_Urls
    RowIds = {1, 2, 3, 4}
    Apps <- MC_Apps
    AppOf <- MC_AppOf
    Packages <- MC_Apps
    PackageOf <- MC_PackageOf
    Links <- MC_Links
    Form <- MC_Form
    Named <- MC_Named
    Protocol <- MC_Protocol
    Host <- MC_Host
    IntentPackage <- MC_IntentPackage
    Clients = {opener, asker}
    Tools = {opener}
    Messages <- MC_Paths
    StartDb <- MC_TiedDb
    StartOverlays = {browser}
    MaxCalls = 2
    MaxChanges = 0
    Crashes = FALSE
\* The service is idle when the clients are done.
CHECK_DEADLOCK FALSE
INVARIANTS
    ClientTypeOK
    SuccessIsTrue
PROPERTIES
    CallbackCalled
    ForgottenIsHandled
    EveryCallAnswered
    ToldIsFiled
