---------------------------- MODULE MCDispatcher ----------------------------
(* A browser for all of http, a web application for one site of it, and a  *)
(* file that declares an intent for the application id "unconfined". One   *)
(* client opens links, the other sends what may be refused and asks.       *)
EXTENDS Dispatcher

CONSTANTS browser, webapp, unconfined, browserFile, webappFile, rogueFile,
          http, intent, www, site, pack, opener, asker,
          page, blog, byId, byIntent, unknown, empty

MC_Files == {browserFile, webappFile, rogueFile}
MC_Apps  == {browser, webapp, unconfined}
MC_AppOf == [f \in MC_Files |-> CASE f = browserFile -> browser
                                  [] f = webappFile  -> webapp
                                  [] OTHER           -> unconfined]
MC_PackageOf == [a \in MC_Apps |-> a]

MC_Any   == [protocol |-> http, suffix |-> <<>>]
MC_Site  == [protocol |-> http, suffix |-> <<site>>]
MC_Pack  == [protocol |-> intent, suffix |-> <<pack>>]
MC_Urls  == {MC_Any, MC_Site, MC_Pack}

MC_StartDb ==
    LET files == SetFileTime(SetFileTime(SetFileTime(EmptyDb, 1, browserFile, 0),
                                         2, webappFile, 0), 3, rogueFile, 0)
    IN  InsertUrl(InsertUrl(InsertUrl(files, browserFile, MC_Any),
                            webappFile, MC_Site), rogueFile, MC_Pack)

MC_Links == {page, blog, byId, byIntent, unknown, empty}
MC_Form  == [u \in MC_Links |-> CASE u = byId    -> "appid"
                                  [] u = unknown -> "other"
                                  [] u = empty   -> "empty"
                                  [] OTHER       -> "generic"]
MC_Named    == [u \in MC_Links |-> IF u = byId THEN browser ELSE NoApp]
MC_Protocol == [u \in MC_Links |-> IF u = byIntent THEN intent ELSE http]
MC_Host     == [u \in MC_Links |-> IF u = page THEN <<www, site>> ELSE <<www>>]
MC_IntentPackage == [u \in MC_Links |-> IF u = byIntent THEN <<pack>> ELSE <<>>]

MC_Dispatch(c, u, p) == [by |-> c, method |-> "dispatch", links |-> <<u>>, package |-> p]
MC_Test(c, s) == [by |-> c, method |-> "test", links |-> s, package |-> NoPackage]

MC_Messages ==
    {MC_Dispatch(opener, blog, NoPackage), MC_Dispatch(opener, page, webapp),
     MC_Dispatch(asker, byId, NoPackage), MC_Dispatch(asker, empty, webapp),
     MC_Dispatch(asker, byIntent, NoPackage), MC_Test(asker, <<page, unknown>>),
     MC_Test(asker, <<>>)}
=============================================================================
