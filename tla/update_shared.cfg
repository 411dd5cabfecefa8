SPECIFICATION Spec
VIEW MC_View
CONSTANTS
    a = a
    b = b
    usr = usr
    urls = urls
    click = click
    system = system
    hook = hook
    http = http
    intent = intent
    host = host
    none = none
    Null = Null
    NoDir = NoDir
    NoFile = NoFile
    NoJob = NoJob
    Intent = intent
    NoSuffix = none
    Files <- MC_Files
    Urls <- MC_Urls
    RowIds = {1, 2, 3}
    Dirs <- MC_Dirs
    Jobs <- MC_Jobs
    DirOf <- MC_DirOf
    Under <- MC_Under
    Parent <- MC_Parent
    JobDir <- MC_JobDir
    JobSlash <- MC_JobSlash
    Contents <- MC_Contents
    Protocols <- MC_Protocols
    Suffixes <- MC_Suffixes
    MaxEdits = 3
    Crashes = TRUE
    Errors = TRUE
    LookErrors = FALSE
    OldTimes = FALSE
INVARIANTS
    NoDanglingTransaction
PROPERTIES
    RemovesOnlyDeleted
    RemoveIsAtomic
    ImplementsSharedDb
