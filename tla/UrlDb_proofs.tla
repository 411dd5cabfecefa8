----------------------------- MODULE UrlDb_proofs -----------------------------
(***************************************************************************)
(* Facts about the SQL statements of UrlDb, for the modules that use them. *)
(***************************************************************************)
EXTENDS UrlDb, TLAPS

(* The SQL statements map databases to databases.                          *)
LEMMA DbType ==
    ASSUME NEW d \in Db, NEW f \in Files
    PROVE  /\ \A n \in RowIds, t \in Nat : SetFileTime(d, n, f, t) \in Db
           /\ \A u \in Urls : InsertUrl(d, f, u) \in Db
           /\ DeleteUrls(d, f) \in Db
           /\ DeleteFile(d, f) \in Db
<1>1. d.files \subseteq FileRow /\ d.urls \subseteq UrlRow
  BY DEF Db
<1>2. d = [files |-> d.files, urls |-> d.urls]
  BY DEF Db
<1>3. \A n \in RowIds, t \in Nat : SetFileTime(d, n, f, t) \in Db
  BY <1>1, <1>2 DEF SetFileTime, RowsOf, Db, FileRow
<1>4. ASSUME NEW u \in Urls PROVE InsertUrl(d, f, u) \in Db
  <2>1. IdsOf(d, f) \subseteq RowIds
    BY <1>1 DEF IdsOf, RowsOf, FileRow
  <2>2. {[src |-> i, url |-> u, by |-> f] : i \in IdsOf(d, f)} \subseteq UrlRow
    BY <2>1 DEF UrlRow
  <2>3. ASSUME NEW S \in SUBSET UrlRow PROVE [d EXCEPT !.urls = S] \in Db
    BY <1>1, <1>2 DEF Db
  <2>4. {x \in d.urls : ~(x.src \in IdsOf(d, f) /\ x.url = u)}
          \cup {[src |-> i, url |-> u, by |-> f] : i \in IdsOf(d, f)} \in SUBSET UrlRow
    BY <1>1, <2>2
  <2>5. QED
    BY <2>3, <2>4 DEF InsertUrl
<1>5. DeleteUrls(d, f) \in Db
  BY <1>1, <1>2 DEF DeleteUrls, Db
<1>6. DeleteFile(d, f) \in Db
  BY <1>1, <1>2 DEF DeleteFile, Db
<1>7. QED
  BY <1>3, <1>4, <1>5, <1>6

(* Stamping a file and inserting a URL keep every file's row.              *)
LEMMA NamesKept ==
    ASSUME NEW d \in Db, NEW f \in Files
    PROVE  /\ \A n \in RowIds, t \in Nat : Names(d) \subseteq Names(SetFileTime(d, n, f, t))
           /\ \A u \in Urls : Names(d) \subseteq Names(InsertUrl(d, f, u))
<1>1. ASSUME NEW n \in RowIds, NEW t \in Nat
      PROVE  Names(d) \subseteq Names(SetFileTime(d, n, f, t))
  <2>1. SetFileTime(d, n, f, t).files =
          (d.files \ RowsOf(d, f)) \cup {[id |-> n, name |-> f, time |-> t]}
    BY DEF SetFileTime, Db
  <2>2. ASSUME NEW r \in d.files
        PROVE  \E q \in SetFileTime(d, n, f, t).files : q.name = r.name
    <3>1. CASE r.name = f
      <4>1. [id |-> n, name |-> f, time |-> t].name = f
        OBVIOUS
      <4>2. QED
        BY <2>1, <3>1, <4>1
    <3>2. CASE r.name # f
      BY <2>1, <3>2 DEF RowsOf
    <3>3. QED
      BY <3>1, <3>2
  <2>3. QED
    BY <2>2 DEF Names
<1>2. ASSUME NEW u \in Urls
      PROVE  Names(d) \subseteq Names(InsertUrl(d, f, u))
  BY DEF InsertUrl, Names, Db
<1>3. QED
  BY <1>1, <1>2

(* What keeps a URL row with the file whose row it was inserted for: no    *)
(* two files' rows have the same rowid, and no URL row a rowid that is     *)
(* still to be given.                                                      *)
UniqueIds(d) == \A r, s \in d.files : r.id = s.id => r = s

RowsApart(d) ==
    /\ UniqueIds(d)
    /\ \A x \in d.urls : \E r \in d.files : x.src <= r.id

(* A new time gives a file a new rowid, and with it no URLs.               *)
LEMMA StampForgets ==
    ASSUME NEW d \in Db, RowsApart(d), NEW f \in Files, NEW n \in RowIds, NEW t \in Nat,
           IsNextRowId(d, n), NEW e, e = SetFileTime(d, n, f, t)
    PROVE  /\ RowsApart(e)
           /\ Registered(e, f) = {}
           /\ \A g \in Files \ {f} : Registered(e, g) = Registered(d, g)
<1> DEFINE new == [id |-> n, name |-> f, time |-> t]
<1>1. /\ \A r \in d.files : r.id \in Nat /\ r.id < n
      /\ \A x \in d.urls : x.src \in Nat
      /\ n \in Nat
  BY RowIdsAssumption DEF IsNextRowId, Db, FileRow, UrlRow
<1>2. e.files = (d.files \ RowsOf(d, f)) \cup {new} /\ e.urls = d.urls
  BY DEF SetFileTime, Db
<1>3. new.id = n /\ new.name = f
  OBVIOUS
<1> HIDE DEF new
<1>4. \A x \in d.urls : x.src < n
  <2> SUFFICES ASSUME NEW x \in d.urls PROVE x.src < n
    OBVIOUS
  <2>1. PICK r \in d.files : x.src <= r.id
    BY DEF RowsApart, UniqueIds
  <2>2. QED
    BY <1>1, <2>1
<1>5. RowsApart(e)
  <2>1. \A r, s \in e.files : r.id = s.id => r = s
    BY <1>1, <1>2, <1>3 DEF RowsApart, UniqueIds
  <2>2. \A x \in e.urls : new \in e.files /\ x.src <= new.id
    BY <1>1, <1>2, <1>3, <1>4
  <2>3. QED
    BY <2>1, <2>2 DEF RowsApart, UniqueIds
<1>6. RowsOf(e, f) = {new} /\ \A g \in Files \ {f} : RowsOf(e, g) = RowsOf(d, g)
  BY <1>2, <1>3 DEF RowsOf
<1>7. Registered(e, f) = {}
  <2>1. \A x \in e.urls : x.src \notin IdsOf(e, f)
    BY <1>1, <1>2, <1>3, <1>4, <1>6 DEF IdsOf
  <2>2. QED
    BY <2>1 DEF Registered
<1>8. ASSUME NEW g \in Files \ {f} PROVE Registered(e, g) = Registered(d, g)
  BY <1>2, <1>6 DEF Registered, IdsOf
<1>9. QED
  BY <1>5, <1>7, <1>8

(* A URL that is inserted for a file is found for that file only.          *)
LEMMA InsertAdds ==
    ASSUME NEW d \in Db, RowsApart(d), NEW f \in Files, NEW u \in Urls,
           NEW e, e = InsertUrl(d, f, u)
    PROVE  /\ RowsApart(e)
           /\ Registered(e, f) \subseteq Registered(d, f) \cup {u}
           /\ \A g \in Files \ {f} : Registered(e, g) \subseteq Registered(d, g)
<1>1. /\ e.files = d.files
      /\ e.urls \subseteq d.urls \cup {[src |-> i, url |-> u, by |-> f] : i \in IdsOf(d, f)}
  BY DEF InsertUrl, Db
<1>2. \A g \in Files : IdsOf(e, g) = IdsOf(d, g)
  BY <1>1 DEF IdsOf, RowsOf
<1>3. \A x \in e.urls : x \in d.urls \/ (x.src \in IdsOf(d, f) /\ x.url = u)
  BY <1>1
<1>4. \A i \in IdsOf(d, f) : i \in Nat /\ \E r \in d.files : r.name = f /\ i = r.id
  BY RowIdsAssumption DEF IdsOf, RowsOf, Db, FileRow
<1>5. RowsApart(e)
  <2>1. ASSUME NEW x \in e.urls PROVE \E r \in e.files : x.src <= r.id
    <3>1. CASE x \in d.urls
      BY <1>1, <3>1 DEF RowsApart, UniqueIds
    <3>2. CASE x.src \in IdsOf(d, f)
      BY <1>1, <1>4, <3>2
    <3>3. QED
      BY <1>3, <3>1, <3>2
  <2>2. QED
    BY <1>1, <2>1 DEF RowsApart, UniqueIds
<1>6. Registered(e, f) \subseteq Registered(d, f) \cup {u}
  BY <1>2, <1>3 DEF Registered
<1>7. ASSUME NEW g \in Files \ {f} PROVE Registered(e, g) \subseteq Registered(d, g)
  <2>1. ASSUME NEW x \in e.urls, x.src \in IdsOf(e, g) PROVE x \in d.urls
    <3>1. PICK r \in d.files : r.name = g /\ x.src = r.id
      BY <1>2, <2>1 DEF IdsOf, RowsOf
    <3>2. x.src \notin IdsOf(d, f)
      BY <1>4, <3>1 DEF RowsApart, UniqueIds
    <3>3. QED
      BY <1>3, <3>2
  <2>2. QED
    BY <1>2, <2>1 DEF Registered
<1>8. QED
  BY <1>5, <1>6, <1>7

(* A removal that takes no row out of configfiles takes none out of urls.  *)
LEMMA RemovesNothing ==
    ASSUME NEW d \in Db, NEW f \in Files, NEW e, e = DeleteFile(DeleteUrls(d, f), f),
           e.files = d.files
    PROVE  e = d
<1> DEFINE c == DeleteUrls(d, f)
<1>1. c \in Db /\ e \in Db
  BY DbType
<1>2. c.files = d.files /\ c.urls = {x \in d.urls : x.src \notin IdsOf(d, f)}
  BY DEF DeleteUrls, Db
<1>3. e.files = c.files \ RowsOf(c, f) /\ e.urls = c.urls
  BY <1>1 DEF DeleteFile, Db
<1> HIDE DEF c
<1>4. RowsOf(d, f) = {}
  BY <1>2, <1>3 DEF RowsOf
<1>5. e.urls = d.urls
  <2>1. IdsOf(d, f) = {}
    BY <1>4 DEF IdsOf
  <2>2. QED
    BY <1>2, <1>3, <2>1
<1>6. d = [files |-> d.files, urls |-> d.urls] /\ e = [files |-> e.files, urls |-> e.urls]
  BY <1>1 DEF Db
<1>7. QED
  BY <1>5, <1>6

(* What the statements keep of what is registered.                         *)
LEMMA StampKeeps ==
    ASSUME NEW d \in Db, UniqueIds(d), NEW f \in Files, NEW n \in RowIds, NEW t \in Nat,
           IsNextRowId(d, n), NEW e, e = SetFileTime(d, n, f, t)
    PROVE  /\ UniqueIds(e)
           /\ RowsOf(e, f) = {[id |-> n, name |-> f, time |-> t]}
           /\ \A g \in Files \ {f} : /\ RowsOf(e, g) = RowsOf(d, g)
                                     /\ Registered(e, g) = Registered(d, g)
           /\ e.files \subseteq d.files \cup RowsOf(e, f)
<1> DEFINE new == [id |-> n, name |-> f, time |-> t]
<1>1. \A r \in d.files : r.id \in Nat /\ r.id < n
  BY RowIdsAssumption DEF IsNextRowId, Db, FileRow
<1>2. e.files = (d.files \ RowsOf(d, f)) \cup {new} /\ e.urls = d.urls
  BY DEF SetFileTime, Db
<1>3. new.id = n /\ new.name = f /\ n \in Nat
  BY RowIdsAssumption
<1> HIDE DEF new
<1>4. UniqueIds(e)
  <2>1. \A r \in e.files : r = new \/ (r \in d.files /\ r.id \in Nat /\ r.id < n)
    BY <1>1, <1>2
  <2>2. QED
    BY <1>3, <2>1 DEF UniqueIds
<1>5. RowsOf(e, f) = {new} /\ \A g \in Files \ {f} : RowsOf(e, g) = RowsOf(d, g)
  BY <1>2, <1>3 DEF RowsOf
<1>6. ASSUME NEW g \in Files \ {f} PROVE Registered(e, g) = Registered(d, g)
  BY <1>2, <1>5 DEF Registered, IdsOf
<1>7. QED
  BY <1>2, <1>4, <1>5, <1>6 DEF new

LEMMA InsertKeeps ==
    ASSUME NEW d \in Db, NEW f \in Files, NEW u \in Urls, NEW e, e = InsertUrl(d, f, u)
    PROVE  /\ e.files = d.files
           /\ \A g \in Files : Registered(d, g) \subseteq Registered(e, g)
           /\ RowsOf(d, f) # {} => u \in Registered(e, f)
<1> DEFINE Row(i) == [src |-> i, url |-> u, by |-> f]
<1>1. /\ e.files = d.files
      /\ e.urls = {x \in d.urls : ~(x.src \in IdsOf(d, f) /\ x.url = u)}
                    \cup {Row(i) : i \in IdsOf(d, f)}
  BY DEF InsertUrl, Db
<1>2. \A i : Row(i).src = i /\ Row(i).url = u
  OBVIOUS
<1> HIDE DEF Row
<1>3. \A g \in Files : IdsOf(e, g) = IdsOf(d, g)
  BY <1>1 DEF IdsOf, RowsOf
<1>4. ASSUME NEW g \in Files, NEW x \in d.urls, x.src \in IdsOf(d, g)
      PROVE  \E y \in e.urls : y.src \in IdsOf(e, g) /\ y.url = x.url
  <2>1. CASE x \in e.urls
    BY <1>3, <1>4, <2>1
  <2>2. CASE x.src \in IdsOf(d, f) /\ x.url = u
    <3>1. Row(x.src) \in e.urls
      BY <1>1, <2>2
    <3>2. QED
      BY <1>2, <1>3, <1>4, <2>2, <3>1
  <2>3. QED
    BY <1>1, <2>1, <2>2
<1>5. \A g \in Files : Registered(d, g) \subseteq Registered(e, g)
  <2> SUFFICES ASSUME NEW g \in Files, NEW v \in Registered(d, g) PROVE v \in Registered(e, g)
    OBVIOUS
  <2>1. PICK x \in d.urls : x.src \in IdsOf(d, g) /\ x.url = v
    BY DEF Registered
  <2>2. PICK y \in e.urls : y.src \in IdsOf(e, g) /\ y.url = v
    BY <1>4, <2>1
  <2>3. QED
    BY <2>2 DEF Registered
<1>6. ASSUME RowsOf(d, f) # {} PROVE u \in Registered(e, f)
  <2>1. PICK i \in IdsOf(d, f) : TRUE
    BY <1>6 DEF IdsOf
  <2>2. Row(i) \in e.urls /\ Row(i).src \in IdsOf(e, f) /\ Row(i).url = u
    BY <1>1, <1>2, <1>3
  <2>3. QED
    BY <2>2 DEF Registered
<1>7. QED
  BY <1>1, <1>5, <1>6

LEMMA RemoveKeeps ==
    ASSUME NEW d \in Db, UniqueIds(d), NEW f \in Files,
           NEW e, e = DeleteFile(DeleteUrls(d, f), f)
    PROVE  /\ UniqueIds(e)
           /\ e.files = d.files \ RowsOf(d, f)
           /\ RowsOf(e, f) = {}
           /\ \A g \in Files \ {f} : /\ RowsOf(e, g) = RowsOf(d, g)
                                     /\ Registered(e, g) = Registered(d, g)
<1> DEFINE c == DeleteUrls(d, f)
<1>1. c \in Db
  BY DbType
<1>2. c.files = d.files /\ c.urls = {x \in d.urls : x.src \notin IdsOf(d, f)}
  BY DEF DeleteUrls, Db
<1>3. e.files = c.files \ RowsOf(c, f) /\ e.urls = c.urls
  BY <1>1 DEF DeleteFile, Db
<1> HIDE DEF c
<1>4. e.files = d.files \ RowsOf(d, f)
  BY <1>2, <1>3 DEF RowsOf
<1>5. RowsOf(e, f) = {} /\ \A g \in Files \ {f} : RowsOf(e, g) = RowsOf(d, g)
  BY <1>4 DEF RowsOf
<1>6. ASSUME NEW g \in Files \ {f} PROVE Registered(e, g) = Registered(d, g)
  <2>1. IdsOf(e, g) = IdsOf(d, g)
    BY <1>5 DEF IdsOf
  <2>2. \A i \in IdsOf(d, g) : i \notin IdsOf(d, f)
    BY DEF UniqueIds, IdsOf, RowsOf
  <2>3. {x \in e.urls : x.src \in IdsOf(e, g)} = {x \in d.urls : x.src \in IdsOf(d, g)}
    BY <1>2, <1>3, <2>1, <2>2
  <2>4. QED
    BY <2>3 DEF Registered
<1>7. UniqueIds(e)
  BY <1>4 DEF UniqueIds
<1>8. QED
  BY <1>4, <1>5, <1>6, <1>7
=============================================================================
