------------------------------ MODULE MCClients ------------------------------
(***************************************************************************)
(* The instance of MCDispatcher with its clients as programs: the opener   *)
(* is the tool.                                                            *)
(***************************************************************************)
EXTENDS MCDispatcher, ClientLib

(* The browser's file declares the web application's site as well: which   *)
(* of the two a lookup of the site answers is SQLite's choice.             *)
MC_TiedDb == InsertUrl(MC_StartDb, browserFile, MC_Site)

(* Calls for every way through the handlers: an overlay that is added or   *)
(* fails; the application that the caller asks for, which is started, and  *)
(* another, which is refused; a test. Each lookup may also find nothing.   *)
MC_Paths == {MC_Dispatch(opener, blog, NoPackage), MC_Dispatch(asker, page, webapp),
             MC_Test(asker, <<page>>)}
=============================================================================
