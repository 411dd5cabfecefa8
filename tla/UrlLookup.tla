------------------------------ MODULE UrlLookup ------------------------------
(***************************************************************************)
(* The query of url_db_find_url in service/url-db.c. A domain is a         *)
(* sequence of pieces, so that one can end in another: <<>> is the empty   *)
(* string, which every domain ends in.                                     *)
(***************************************************************************)
EXTENDS UrlDb, SequencesExt

(* The rows the where clause leaves: urls joined with configfiles by rowid.*)
Matches(db, protocol, domain) ==
    {m \in db.files \X db.urls :
        /\ m[2].src = m[1].id
        /\ m[2].url.protocol = protocol
        /\ IsSuffix(m[2].url.suffix, domain)}

(* order by length(domainsuffix) desc limit 1: the longest suffix wins,    *)
(* and which of several equally long ones comes first is SQLite's choice.  *)
FindUrl(db, protocol, domain) ==
    LET found == Matches(db, protocol, domain) IN
    {m[1].name : m \in {x \in found : \A y \in found :
                            Len(y[2].url.suffix) <= Len(x[2].url.suffix)}}
=============================================================================
