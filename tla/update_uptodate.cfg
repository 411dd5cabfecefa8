SPECIFICATION FairSpec
CONSTANTS
    a = a
    b = b
    usr = usr
    urls = urls
    system = system
    http = http
    intent = intent
    host = host
    none = none
    Null = Null
    NoDir = NoDir
    NoFile = NoFile
    NoJob = NoJob
    Intent = intent
    NoSuffix = none
    Files <- MC_Files
    Urls <- MC_Urls
    RowIds = {1, 2, 3, 4}
    Dirs <- MC_Dirs
    Jobs <- MC_Jobs
    DirOf <- MC_DirOf
    Under <- MC_Under
    Parent <- MC_Parent
    JobDir <- MC_JobDir
    JobSlash <- MC_JobSlash
    Contents <- MC_Contents
    Protocols <- MC_Protocols
    Suffixes <- MC_Suffixes
    MaxEdits = 4
    Crashes = FALSE
    Errors = FALSE
    LookErrors = FALSE
    OldTimes = FALSE
INVARIANTS
    UpToDateOnExit
PROPERTIES
    Converges
