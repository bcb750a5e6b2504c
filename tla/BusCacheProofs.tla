--------------------------- MODULE BusCacheProofs ---------------------------
(***************************************************************************)
(* Proofs about BusCache, for every number of buses, queries, concurrent   *)
(* requests and writes, and every set of failures.                         *)
(***************************************************************************)
EXTENDS BusCache, FiniteSetTheorems, TLAPS

-----------------------------------------------------------------------------
(* Lemmas about the helpers of BusCache *)

\* countDocuments counts no more buses than there are.
LEMMA CountsBounded ==
  Cardinality(Active) \in 0 .. Cardinality(Buses)
  <1>1. /\ IsFiniteSet(Active)
        /\ Cardinality(Active) <= Cardinality(Buses)
    BY CacheConstants, FS_Subset DEF Active
  <1>. QED
    BY <1>1, CacheConstants, FS_CardinalityType

\* What find returns is a version of every bus, and none that is still to be written.
LEMMA ShownBounded ==
  ASSUME TypeOK
  PROVE  /\ Shown \in [Buses -> Versions]
         /\ \A b \in Buses : Shown[b] <= doc[b].version
  BY CacheConstants DEF TypeOK, BusDocs, Versions, Shown

\* A write makes the next version of one bus and takes back no version.
LEMMA WriteAdvances ==
  ASSUME NEW b \in Buses, NEW s \in BusStatuses, Write(b, s), TypeOK
  PROVE  /\ doc' \in [Buses -> BusDocs]
         /\ \A c \in Buses : doc[c].version <= doc'[c].version
  BY CacheConstants DEF Write, TypeOK, BusDocs, Versions

\* A request that has read nothing yet.
Fresh(pc, b, q) ==
  [pc |-> pc, bus |-> b, query |-> q, version |-> 0, page |-> BlankPage, keys |-> {}]

\* A request that is accepted has its type.
LEMMA FreshRequests ==
  ASSUME NEW pc \in {"idle"} \cup ReaderPCs \cup WriterPCs,
         NEW b \in Buses \cup {NoBus}, NEW q \in Queries \cup {NoQuery}
  PROVE  /\ Fresh(pc, b, q) \in Requests
         /\ \A c \in Buses : Fresh(pc, b, q).page.shown[c] = 0
  <1>1. 0 \in 0 .. Cardinality(Buses) /\ 0 \in Versions
    BY CacheConstants, FS_CardinalityType DEF Versions
  <1>. QED
    BY <1>1 DEF Fresh, Requests, BlankPage, PageDocs

\* An idle slot has read nothing.
LEMMA IdleIsFresh ==
  Idle = Fresh("idle", NoBus, NoQuery)
  BY DEF Idle, Fresh

\* What the five requests start with.
LEMMA StartsFresh ==
  ASSUME NEW pc, NEW b, NEW q
  PROVE  /\ [Idle EXCEPT !.pc = pc, !.bus = b] = Fresh(pc, b, NoQuery)
         /\ [Idle EXCEPT !.pc = pc, !.query = q] = Fresh(pc, NoBus, q)
         /\ [Idle EXCEPT !.pc = pc] = Fresh(pc, NoBus, NoQuery)
  <1>1. [Idle EXCEPT !.pc = pc] = Fresh(pc, NoBus, NoQuery)
    BY DEF Idle, Fresh
  <1>2. /\ [Fresh(pc, NoBus, NoQuery) EXCEPT !.bus = b] = Fresh(pc, b, NoQuery)
        /\ [Fresh(pc, NoBus, NoQuery) EXCEPT !.query = q] = Fresh(pc, NoBus, q)
    BY DEF Fresh
  <1>3. /\ [Idle EXCEPT !.pc = pc, !.bus = b] = [[Idle EXCEPT !.pc = pc] EXCEPT !.bus = b]
        /\ [Idle EXCEPT !.pc = pc, !.query = q] = [[Idle EXCEPT !.pc = pc] EXCEPT !.query = q]
    OBVIOUS
  <1>. QED
    BY <1>1, <1>2, <1>3

-----------------------------------------------------------------------------
(* Every step preserves CacheInv *)

\* Writes advance the versions, so that what was bounded by them stays bounded.
LEMMA StoredStayBounded ==
  ASSUME CacheInv, doc' \in [Buses -> BusDocs],
         \A b \in Buses : doc[b].version <= doc'[b].version
  PROVE  \A b \in Buses :
           /\ busEntry[b] <= doc'[b].version
           /\ \A q \in Queries : pages[q].shown[b] <= doc'[b].version
  <1> SUFFICES ASSUME NEW b \in Buses
               PROVE  /\ busEntry[b] <= doc'[b].version
                      /\ \A q \in Queries : pages[q].shown[b] <= doc'[b].version
    OBVIOUS
  <1>1. doc[b].version \in Nat /\ doc'[b].version \in Nat /\ busEntry[b] \in Nat
    BY DEF CacheInv, TypeOK, BusDocs, Versions
  <1>2. \A q \in Queries : pages[q].shown[b] \in Nat
    BY DEF CacheInv, TypeOK, Versions, PageEntries, Cached, NoPage, PageDocs
  <1>. QED
    BY <1>1, <1>2 DEF CacheInv

\* A step of one request keeps the invariant if that request stays in bounds and what it
\* stores is in bounds.
LEMMA StepKeeps ==
  ASSUME NEW h \in Handlers, CacheInv, TypeOK',
         \A b \in Buses : doc[b].version <= doc'[b].version,
         \A b \in Buses :
           /\ busEntry'[b] <= doc'[b].version
           /\ \A q \in Queries : pages'[q].shown[b] <= doc'[b].version,
         \A b \in Buses :
           /\ handler'[h].page.shown[b] <= doc'[b].version
           /\ handler'[h].bus = b => handler'[h].version <= doc'[b].version,
         handler'[h].pc \in {"getDb", "getFill", "updateWrite", "delBus"}
           => handler'[h].bus \in Buses,
         \A g \in Handlers \ {h} : handler'[g] = handler[g]
  PROVE  CacheInv'
  <1>1. RequestsSound'
    BY DEF CacheInv, RequestsSound
  <1>2. ASSUME NEW b \in Buses, NEW g \in Handlers
        PROVE  /\ handler'[g].page.shown[b] <= doc'[b].version
               /\ handler'[g].bus = b => handler'[g].version <= doc'[b].version
    <2>1. CASE g = h
      BY <2>1
    <2>2. CASE g # h
      <3>1. doc[b].version \in Nat /\ doc'[b].version \in Nat
        BY DEF CacheInv, TypeOK, BusDocs, Versions
      <3>2. handler[g].page.shown[b] \in Nat /\ handler[g].version \in Nat
        BY DEF CacheInv, TypeOK, Versions, Requests, PageDocs
      <3>. QED
        BY <2>2, <3>1, <3>2 DEF CacheInv
    <2>. QED
      BY <2>1, <2>2
  <1>. QED
    BY <1>1, <1>2 DEF CacheInv

\* The documents are as before.
LEMMA SameDocs ==
  ASSUME CacheInv, UNCHANGED doc
  PROVE  /\ doc' \in [Buses -> BusDocs]
         /\ \A b \in Buses : doc[b].version <= doc'[b].version
  BY DEF CacheInv, TypeOK, BusDocs, Versions

\* A request that is accepted has read nothing.
LEMMA StartKeeps ==
  ASSUME NEW h \in Handlers, NEW pc \in ReaderPCs \cup WriterPCs,
         NEW b \in Buses \cup {NoBus}, NEW q \in Queries \cup {NoQuery},
         pc \in {"getDb", "getFill", "updateWrite", "delBus"} => b \in Buses,
         CacheInv, Start(h, Fresh(pc, b, q)),
         doc' \in [Buses -> BusDocs],
         \A c \in Buses : doc[c].version <= doc'[c].version,
         UNCHANGED <<busEntry, pages>>
  PROVE  CacheInv'
  <1>1. /\ Fresh(pc, b, q) \in Requests
        /\ \A c \in Buses : Fresh(pc, b, q).page.shown[c] = 0
    BY FreshRequests
  <1>2. /\ Fresh(pc, b, q).version = 0
        /\ Fresh(pc, b, q).pc = pc
        /\ Fresh(pc, b, q).bus = b
    BY DEF Fresh
  <1>3. /\ handler' \in [Handlers -> Requests]
        /\ handler'[h] = Fresh(pc, b, q)
        /\ \A g \in Handlers \ {h} : handler'[g] = handler[g]
    BY <1>1 DEF Start, CacheInv, TypeOK
  <1>4. TypeOK'
    BY <1>3 DEF CacheInv, TypeOK
  <1>5. \A c \in Buses : doc'[c].version \in Nat
    BY DEF BusDocs, Versions
  <1>. QED
    BY <1>1, <1>2, <1>3, <1>4, <1>5, StoredStayBounded, StepKeeps

\* A request that is answered leaves nothing to store.
LEMMA AnswerKeeps ==
  ASSUME NEW h \in Handlers, CacheInv, Answer(h), UNCHANGED doc,
         TypeOK => busEntry' \in [Buses -> Versions] /\ pages' \in [Queries -> PageEntries],
         \A b \in Buses :
           /\ busEntry'[b] <= doc[b].version
           /\ \A q \in Queries : pages'[q].shown[b] <= doc[b].version
  PROVE  CacheInv'
  <1>1. /\ Idle \in Requests /\ Idle.version = 0 /\ Idle.pc = "idle"
        /\ \A c \in Buses : Idle.page.shown[c] = 0
    BY FreshRequests, IdleIsFresh DEF Fresh
  <1>2. /\ handler' \in [Handlers -> Requests]
        /\ handler'[h] = Idle
        /\ \A g \in Handlers \ {h} : handler'[g] = handler[g]
    BY <1>1 DEF Answer, CacheInv, TypeOK
  <1>3. TypeOK'
    BY <1>2, SameDocs DEF CacheInv, TypeOK
  <1>4. \A c \in Buses : doc'[c].version \in Nat
    BY SameDocs DEF BusDocs, Versions
  <1>. QED
    BY <1>1, <1>2, <1>3, <1>4, SameDocs, StepKeeps

\* A request that goes on keeps what it has read.
LEMMA GotoKeeps ==
  ASSUME NEW h \in Handlers, NEW pc \in {"delBus", "listPages", "delPages"},
         pc = "delBus" => handler[h].bus \in Buses,
         CacheInv, Goto(h, pc), doc' \in [Buses -> BusDocs],
         \A b \in Buses : doc[b].version <= doc'[b].version,
         busEntry' \in [Buses -> Versions],
         \A b \in Buses : busEntry'[b] \in {0, busEntry[b]},
         UNCHANGED pages
  PROVE  CacheInv'
  <1>1. /\ handler' \in [Handlers -> Requests]
        /\ handler'[h].pc = pc
        /\ handler'[h].bus = handler[h].bus
        /\ handler'[h].version = handler[h].version
        /\ handler'[h].page = handler[h].page
        /\ \A g \in Handlers \ {h} : handler'[g] = handler[g]
    BY DEF Goto, CacheInv, TypeOK, Requests, WriterPCs
  <1>2. TypeOK'
    BY <1>1 DEF CacheInv, TypeOK
  <1>3. ASSUME NEW b \in Buses
        PROVE  /\ doc[b].version \in Nat /\ doc'[b].version \in Nat
               /\ handler[h].page.shown[b] \in Nat /\ handler[h].version \in Nat
    BY DEF CacheInv, TypeOK, BusDocs, Versions, Requests, PageDocs
  <1>4. \A b \in Buses :
          /\ handler'[h].page.shown[b] <= doc'[b].version
          /\ handler'[h].bus = b => handler'[h].version <= doc'[b].version
    BY <1>1, <1>3 DEF CacheInv
  <1>5. \A b \in Buses :
          /\ busEntry'[b] <= doc'[b].version
          /\ \A q \in Queries : pages'[q].shown[b] <= doc'[b].version
    BY <1>3, StoredStayBounded
  <1>. QED
    BY <1>1, <1>2, <1>4, <1>5, StepKeeps

\* Requests, at their first read or write.
LEMMA RequestInv ==
  ASSUME NEW h \in Handlers, CacheInv, Request(h)
  PROVE  CacheInv'
  <1>1. ASSUME NEW b \in Buses, GetById(h, b)
        PROVE  CacheInv'
    <2>1. Start(h, Fresh("getDb", b, NoQuery))
      BY <1>1, StartsFresh DEF GetById
    <2>2. UNCHANGED <<doc, busEntry, pages>>
      BY <1>1 DEF GetById
    <2>3. /\ doc' \in [Buses -> BusDocs]
          /\ \A c \in Buses : doc[c].version <= doc'[c].version
      BY <2>2, SameDocs
    <2>. QED
      BY <2>1, <2>2, <2>3, StartKeeps DEF ReaderPCs
  <1>2. ASSUME NEW b \in Buses, CreateBus(h, b)
        PROVE  CacheInv'
    <2>1. Start(h, Fresh("listPages", NoBus, NoQuery))
      BY <1>2, StartsFresh DEF CreateBus
    <2>2. /\ doc' \in [Buses -> BusDocs]
          /\ \A c \in Buses : doc[c].version <= doc'[c].version
      BY <1>2, WriteAdvances DEF CreateBus, BusStatuses, CacheInv
    <2>. QED
      BY <1>2, <2>1, <2>2, StartKeeps DEF CreateBus, WriterPCs
  <1>3. ASSUME NEW b \in Buses, UpdateRead(h, b)
        PROVE  CacheInv'
    <2>1. Start(h, Fresh("updateWrite", b, NoQuery))
      BY <1>3, StartsFresh DEF UpdateRead
    <2>2. UNCHANGED <<doc, busEntry, pages>>
      BY <1>3 DEF UpdateRead
    <2>3. /\ doc' \in [Buses -> BusDocs]
          /\ \A c \in Buses : doc[c].version <= doc'[c].version
      BY <2>2, SameDocs
    <2>. QED
      BY <2>1, <2>2, <2>3, StartKeeps DEF WriterPCs
  <1>4. ASSUME NEW b \in Buses, RemoveBus(h, b)
        PROVE  CacheInv'
    <2>1. Start(h, Fresh("delBus", b, NoQuery))
      BY <1>4, StartsFresh DEF RemoveBus
    <2>2. /\ doc' \in [Buses -> BusDocs]
          /\ \A c \in Buses : doc[c].version <= doc'[c].version
      <3>1. doc' = [doc EXCEPT ![b].status = "removed"]
        BY <1>4 DEF RemoveBus
      <3>2. /\ doc \in [Buses -> BusDocs]
            /\ \A c \in Buses : doc[c].version \in Nat
        BY DEF CacheInv, TypeOK, BusDocs, Versions
      <3>. QED
        BY <3>1, <3>2 DEF BusDocs, BusStatuses
    <2>. QED
      BY <1>4, <2>1, <2>2, StartKeeps DEF RemoveBus, WriterPCs
  <1>5. ASSUME NEW q \in Queries, Search(h, q)
        PROVE  CacheInv'
    <2>1. Start(h, Fresh("searchCount", NoBus, q))
      BY <1>5, StartsFresh DEF Search
    <2>2. UNCHANGED <<doc, busEntry, pages>>
      BY <1>5 DEF Search
    <2>3. /\ doc' \in [Buses -> BusDocs]
          /\ \A c \in Buses : doc[c].version <= doc'[c].version
      BY <2>2, SameDocs
    <2>. QED
      BY <2>1, <2>2, <2>3, StartKeeps DEF ReaderPCs
  <1>. QED
    BY <1>1, <1>2, <1>3, <1>4, <1>5 DEF Request

\* getById and search go on.
LEMMA ReaderInv ==
  ASSUME NEW h \in Handlers, CacheInv,
         GetRead(h) \/ GetFill(h) \/ SearchCount(h) \/ SearchFind(h) \/ SearchFill(h)
  PROVE  CacheInv'
  <1>1. /\ TypeOK
        /\ handler[h] \in Requests
        /\ handler[h].page \in PageDocs
        /\ \A b \in Buses :
             /\ busEntry[b] <= doc[b].version
             /\ \A q \in Queries : pages[q].shown[b] <= doc[b].version
             /\ handler[h].page.shown[b] <= doc[b].version
             /\ handler[h].bus = b => handler[h].version <= doc[b].version
    BY DEF CacheInv, TypeOK, Requests
  <1>2. CASE GetRead(h) /\ Exists(handler[h].bus)
    <2>1. handler[h].bus \in Buses
      BY <1>2 DEF GetRead, At, CacheInv, RequestsSound
    <2>2. /\ doc[handler[h].bus].version \in Versions
          /\ doc[handler[h].bus].version <= doc[handler[h].bus].version
      BY <1>1, <2>1 DEF TypeOK, BusDocs, Versions
    <2>3. handler' = [handler EXCEPT ![h].pc = "getFill",
                                     ![h].version = doc[handler[h].bus].version]
      BY <1>2 DEF GetRead
    <2>4. /\ handler' \in [Handlers -> Requests]
          /\ handler'[h].bus = handler[h].bus
          /\ handler'[h].page = handler[h].page
          /\ handler'[h].version = doc[handler[h].bus].version
          /\ \A g \in Handlers \ {h} : handler'[g] = handler[g]
      BY <1>1, <2>2, <2>3 DEF TypeOK, Requests, ReaderPCs
    <2>5. TypeOK'
      BY <1>1, <1>2, <2>4 DEF GetRead, TypeOK
    <2>. QED
      BY <1>1, <1>2, <2>1, <2>2, <2>4, <2>5, SameDocs, StepKeeps DEF GetRead
  <1>3. CASE GetRead(h) /\ ~ Exists(handler[h].bus)
    BY <1>1, <1>3, AnswerKeeps DEF GetRead, TypeOK
  <1>4. CASE GetFill(h)
    <2>1. busEntry' = [busEntry EXCEPT ![handler[h].bus] = handler[h].version]
      BY <1>4 DEF GetFill
    <2>2. /\ busEntry' \in [Buses -> Versions]
          /\ \A b \in Buses : busEntry'[b] <= doc[b].version
      BY <1>1, <2>1 DEF TypeOK, Requests
    <2>. QED
      BY <1>1, <1>4, <2>2, AnswerKeeps DEF GetFill, TypeOK
  <1>5. CASE SearchCount(h)
    <2>1. handler' = [handler EXCEPT ![h].pc = "searchFind",
                                     ![h].page.total = Cardinality(Active)]
      BY <1>5 DEF SearchCount
    <2>2. /\ handler' \in [Handlers -> Requests]
          /\ handler'[h].pc = "searchFind"
          /\ handler'[h].bus = handler[h].bus
          /\ handler'[h].page.shown = handler[h].page.shown
          /\ handler'[h].version = handler[h].version
          /\ \A g \in Handlers \ {h} : handler'[g] = handler[g]
      BY <1>1, <2>1, CountsBounded DEF TypeOK, Requests, PageDocs, ReaderPCs
    <2>3. TypeOK'
      BY <1>1, <1>5, <2>2 DEF SearchCount, TypeOK
    <2>. QED
      BY <1>1, <1>5, <2>2, <2>3, SameDocs, StepKeeps DEF SearchCount
  <1>6. CASE SearchFind(h)
    <2>1. handler' = [handler EXCEPT ![h].pc = "searchFill", ![h].page.shown = Shown]
      BY <1>6 DEF SearchFind
    <2>2. /\ handler' \in [Handlers -> Requests]
          /\ handler'[h].pc = "searchFill"
          /\ handler'[h].bus = handler[h].bus
          /\ handler'[h].page.shown = Shown
          /\ handler'[h].version = handler[h].version
          /\ \A g \in Handlers \ {h} : handler'[g] = handler[g]
      BY <1>1, <2>1, ShownBounded DEF TypeOK, Requests, PageDocs, ReaderPCs
    <2>3. TypeOK'
      BY <1>1, <1>6, <2>2 DEF SearchFind, TypeOK
    <2>. QED
      BY <1>1, <1>6, <2>2, <2>3, SameDocs, ShownBounded, StepKeeps DEF SearchFind
  <1>7. CASE SearchFill(h)
    <2>1. pages' = [pages EXCEPT ![handler[h].query] = Cached(handler[h].page)]
      BY <1>7 DEF SearchFill
    <2>2. /\ Cached(handler[h].page) \in PageEntries
          /\ Cached(handler[h].page).shown = handler[h].page.shown
      BY <1>1 DEF PageEntries, Cached
    <2>3. /\ pages' \in [Queries -> PageEntries]
          /\ \A b \in Buses, q \in Queries : pages'[q].shown[b] <= doc[b].version
      BY <1>1, <2>1, <2>2 DEF TypeOK
    <2>. QED
      BY <1>1, <1>7, <2>3, AnswerKeeps DEF SearchFill, TypeOK
  <1>. QED
    BY <1>2, <1>3, <1>4, <1>5, <1>6, <1>7

\* No page, and nothing shown on it.
LEMMA NoPageShowsNothing ==
  NoPage \in PageEntries /\ \A b \in Buses : NoPage.shown[b] = 0
  BY DEF NoPage, PageEntries

\* update and remove go on, and so do the invalidations.
LEMMA WriterInv ==
  ASSUME NEW h \in Handlers, CacheInv,
         UpdateWrite(h) \/ DelBus(h) \/ ListPages(h) \/ DelPages(h)
  PROVE  CacheInv'
  <1>1. /\ TypeOK
        /\ \A b \in Buses :
             /\ doc[b].version \in Nat
             /\ busEntry[b] <= doc[b].version
             /\ \A q \in Queries : pages[q].shown[b] <= doc[b].version
    BY DEF CacheInv, TypeOK, BusDocs, Versions
  <1>2. CASE UpdateWrite(h) /\ Goto(h, "delBus")
    <2>1. handler[h].bus \in Buses
      BY <1>2 DEF UpdateWrite, At, CacheInv, RequestsSound
    <2>2. /\ doc' \in [Buses -> BusDocs]
          /\ \A c \in Buses : doc[c].version <= doc'[c].version
      BY <1>1, <1>2, <2>1, WriteAdvances, SameDocs DEF UpdateWrite, BusStatuses
    <2>. QED
      BY <1>1, <1>2, <2>1, <2>2, GotoKeeps DEF UpdateWrite, TypeOK
  <1>3. CASE UpdateWrite(h) /\ Answer(h) /\ UNCHANGED doc
    BY <1>1, <1>3, AnswerKeeps DEF UpdateWrite, TypeOK
  <1>4. CASE DelBus(h)
    <2>1. /\ busEntry' \in [Buses -> Versions]
          /\ \A b \in Buses : busEntry'[b] \in {0, busEntry[b]}
      <3>1. busEntry' = [busEntry EXCEPT ![handler[h].bus] = 0]
        BY <1>4 DEF DelBus
      <3>2. busEntry \in [Buses -> Versions] /\ 0 \in Versions
        BY <1>1, CacheConstants DEF TypeOK, Versions
      <3>. QED
        BY <3>1, <3>2
    <2>2. /\ doc' \in [Buses -> BusDocs]
          /\ \A c \in Buses : doc[c].version <= doc'[c].version
      BY <1>4, SameDocs DEF DelBus
    <2>. QED
      BY <1>4, <2>1, <2>2, GotoKeeps DEF DelBus
  <1>5. CASE ListPages(h) /\ Answer(h)
    BY <1>1, <1>5, AnswerKeeps DEF ListPages, TypeOK
  <1>6. CASE ListPages(h) /\ ~ Answer(h)
    <2>1. handler' = [handler EXCEPT ![h].pc = "delPages",
                                     ![h].keys = {q \in Queries : pages[q].cached}]
      BY <1>6 DEF ListPages
    <2>2. /\ handler' \in [Handlers -> Requests]
          /\ handler'[h].pc = "delPages"
          /\ handler'[h].bus = handler[h].bus
          /\ handler'[h].page = handler[h].page
          /\ handler'[h].version = handler[h].version
          /\ \A g \in Handlers \ {h} : handler'[g] = handler[g]
      BY <1>1, <2>1 DEF TypeOK, Requests, WriterPCs
    <2>3. TypeOK'
      BY <1>1, <1>6, <2>2 DEF ListPages, TypeOK
    <2>. QED
      BY <1>1, <1>6, <2>2, <2>3, SameDocs, StepKeeps DEF ListPages, CacheInv
  <1>7. CASE DelPages(h)
    <2>1. /\ pages' \in [Queries -> PageEntries]
          /\ \A b \in Buses, q \in Queries : pages'[q].shown[b] <= doc[b].version
      BY <1>1, <1>7, NoPageShowsNothing DEF DelPages, TypeOK
    <2>. QED
      BY <1>1, <1>7, <2>1, AnswerKeeps DEF DelPages, TypeOK
  <1>. QED
    BY <1>2, <1>3, <1>4, <1>5, <1>6, <1>7 DEF UpdateWrite

\* The world around the bus service.
LEMMA WorldInv ==
  ASSUME CacheInv,
         \/ \E b \in Buses : SeatWrite(b) \/ ExpireBus(b)
         \/ \E q \in Queries : ExpirePage(q)
         \/ Crash
  PROVE  CacheInv'
  <1>1. ASSUME NEW b \in Buses
        PROVE  /\ doc[b].version \in Nat /\ busEntry[b] \in Nat
               /\ \A q \in Queries : pages[q].shown[b] \in Nat
               /\ \A h \in Handlers :
                    handler[h].page.shown[b] \in Nat /\ handler[h].version \in Nat
    BY DEF CacheInv, TypeOK, BusDocs, Versions, PageEntries, Cached, NoPage, PageDocs, Requests
  <1>2. ASSUME NEW b \in Buses, SeatWrite(b)
        PROVE  CacheInv'
    <2>1. /\ doc' \in [Buses -> BusDocs]
          /\ \A c \in Buses : doc[c].version <= doc'[c].version
      BY <1>2, WriteAdvances DEF SeatWrite, Exists, BusStatuses, CacheInv
    <2>2. \A c \in Buses : doc'[c].version \in Nat
      BY <2>1 DEF BusDocs, Versions
    <2>3. TypeOK' /\ RequestsSound'
      BY <1>2, <2>1 DEF SeatWrite, CacheInv, TypeOK, RequestsSound
    <2>4. UNCHANGED <<busEntry, pages, handler>>
      BY <1>2 DEF SeatWrite
    <2>. QED
      BY <1>1, <2>1, <2>2, <2>3, <2>4 DEF CacheInv
  <1>3. ASSUME NEW b \in Buses, ExpireBus(b)
        PROVE  CacheInv'
    <2>1. /\ busEntry' \in [Buses -> Versions]
          /\ \A c \in Buses : busEntry'[c] <= doc[c].version
      BY <1>1, <1>3, CacheConstants DEF ExpireBus, CacheInv, TypeOK, Versions
    <2>. QED
      BY <1>3, <2>1 DEF ExpireBus, CacheInv, TypeOK, RequestsSound
  <1>4. ASSUME NEW q \in Queries, ExpirePage(q)
        PROVE  CacheInv'
    <2>1. /\ pages' \in [Queries -> PageEntries]
          /\ \A b \in Buses, k \in Queries : pages'[k].shown[b] <= doc[b].version
      BY <1>1, <1>4, NoPageShowsNothing DEF ExpirePage, CacheInv, TypeOK
    <2>. QED
      BY <1>4, <2>1 DEF ExpirePage, CacheInv, TypeOK, RequestsSound
  <1>5. CASE Crash
    <2>1. /\ Idle \in Requests /\ Idle.version = 0 /\ Idle.pc = "idle"
          /\ \A b \in Buses : Idle.page.shown[b] = 0
      BY FreshRequests, IdleIsFresh DEF Fresh
    <2>. QED
      BY <1>1, <1>5, <2>1 DEF Crash, CacheInv, TypeOK, RequestsSound
  <1>. QED
    BY <1>2, <1>3, <1>4, <1>5

-----------------------------------------------------------------------------
(* The invariant *)

\* An empty cache shows no bus at all.
LEMMA InitInv == Init => CacheInv
  <1> SUFFICES ASSUME Init PROVE CacheInv
    OBVIOUS
  <1>1. /\ Idle \in Requests /\ Idle.version = 0 /\ Idle.pc = "idle"
        /\ \A b \in Buses : Idle.page.shown[b] = 0
    BY FreshRequests, IdleIsFresh DEF Fresh
  <1>2. /\ \A b \in Buses : doc[b].version \in {0, 1}
        /\ 0 \in Versions /\ 1 \in Versions
    BY CacheConstants DEF Init, Versions
  <1>3. TypeOK
    BY <1>1, <1>2, NoPageShowsNothing DEF Init, TypeOK, BusDocs, BusStatuses
  <1>. QED
    BY <1>1, <1>2, <1>3, NoPageShowsNothing DEF Init, CacheInv, RequestsSound

\* Every step of the system.
LEMMA NextInv ==
  ASSUME CacheInv, [Next]_vars
  PROVE  CacheInv'
  <1>1. ASSUME NEW h \in Handlers, CallFails(h)
        PROVE  CacheInv'
    <2>1. Answer(h) /\ UNCHANGED <<doc, busEntry, pages>>
      BY <1>1 DEF CallFails
    <2>2. /\ TypeOK
          /\ \A b \in Buses :
               /\ busEntry[b] <= doc[b].version
               /\ \A q \in Queries : pages[q].shown[b] <= doc[b].version
      BY DEF CacheInv
    <2>. QED
      BY <2>1, <2>2, AnswerKeeps DEF TypeOK
  <1>2. CASE UNCHANGED vars
    BY <1>2 DEF vars, CacheInv, TypeOK, RequestsSound
  <1>. QED
    BY <1>1, <1>2, RequestInv, ReaderInv, WriterInv, WorldInv DEF Next, Proceed

\* The cache never shows a version that MongoDB has not held (bus.service.ts: every fill
\* comes after its read, every write of the document before its invalidation).
THEOREM CacheShowsThePast == Spec => []CacheInv
  <1>1. Init => CacheInv
    BY InitInv
  <1>2. CacheInv /\ [Next]_vars => CacheInv'
    BY NextInv
  <1>. QED
    BY <1>1, <1>2, PTL DEF Spec

-----------------------------------------------------------------------------
(* How an entry goes stale *)

\* What the two properties say of a step, for one bus and for one page.
BusStep(b) ==
  BusCovered(b) /\ ~ BusCovered(b)'
    => SeatsWritten \/ InvalidationLost \/ \E h \in Handlers : OvertakenBusFill(h, b)

PageStep(q) ==
  PageCovered(q) /\ ~ PageCovered(q)'
    => SeatsWritten \/ InvalidationLost \/ \E h \in Handlers : OvertakenPageFill(h, q)

\* What a read would find depends on the documents only.
LEMMA CurrentFrame ==
  ASSUME UNCHANGED doc
  PROVE  /\ \A b : CurrentEntry(b)' = CurrentEntry(b)
         /\ CurrentPage' = CurrentPage
  <1>1. \A b : Exists(b)' = Exists(b)
    BY DEF Exists
  <1>2. Active' = Active /\ Shown' = Shown
    BY DEF Active, Shown
  <1>. QED
    BY <1>1, <1>2 DEF CurrentEntry, CurrentPage

\* A bus stays covered in a step that neither writes it nor its entry, and in which no
\* writer passes the deletion of it.
LEMMA BusUntouched ==
  ASSUME NEW b \in Buses, BusCovered(b),
         UNCHANGED <<doc, busEntry>>,
         \A h \in Handlers :
           At(h, "delBus") /\ handler[h].bus = b => handler'[h] = handler[h]
  PROVE  BusCovered(b)'
  <1>1. CurrentEntry(b)' = CurrentEntry(b)
    BY CurrentFrame
  <1>. QED
    BY <1>1 DEF BusCovered, At

\* The steps of the requests.
LEMMA BusRequests ==
  ASSUME NEW h \in Handlers, NEW b \in Buses, TypeOK, Request(h) \/ Proceed(h)
  PROVE  BusStep(b)
  <1> SUFFICES ASSUME BusCovered(b), ~ \E g \in Handlers : OvertakenBusFill(g, b)
               PROVE  BusCovered(b)'
    BY DEF BusStep
  <1>1. CASE \/ \E c \in Buses : GetById(h, c) \/ UpdateRead(h, c)
             \/ \E q \in Queries : Search(h, q)
             \/ GetRead(h) \/ SearchCount(h) \/ SearchFind(h) \/ SearchFill(h)
             \/ ListPages(h) \/ DelPages(h)
    <2>1. UNCHANGED <<doc, busEntry>>
      BY <1>1 DEF GetById, UpdateRead, Search, GetRead, SearchCount, SearchFind, SearchFill,
                  ListPages, DelPages
    <2>2. ~ At(h, "delBus") /\ \A g \in Handlers \ {h} : handler'[g] = handler[g]
      BY <1>1 DEF GetById, UpdateRead, Search, GetRead, SearchCount, SearchFind, SearchFill,
                  ListPages, DelPages, At, Start, Answer, Goto, TypeOK
    <2>. QED
      BY <2>1, <2>2, BusUntouched
  <1>2. CASE GetFill(h)
    <2>1. UNCHANGED doc
      BY <1>2 DEF GetFill
    <2>2. CurrentEntry(b)' = CurrentEntry(b)
      BY <2>1, CurrentFrame
    <2>3. ~ At(h, "delBus") /\ \A g \in Handlers \ {h} : handler'[g] = handler[g]
      BY <1>2 DEF GetFill, At, Answer, TypeOK
    <2>4. CASE handler[h].bus = b
      <3>1. busEntry'[b] = handler[h].version
        BY <1>2, <2>4 DEF GetFill, TypeOK
      <3>2. handler[h].version = CurrentEntry(b)
        BY <1>2, <2>4 DEF GetFill, OvertakenBusFill
      <3>. QED
        BY <2>2, <3>1, <3>2 DEF BusCovered
    <2>5. CASE handler[h].bus # b
      <3>1. busEntry'[b] = busEntry[b]
        BY <1>2, <2>5 DEF GetFill, TypeOK
      <3>. QED
        BY <2>2, <2>3, <3>1 DEF BusCovered, At
    <2>. QED
      BY <2>4, <2>5
  <1>3. CASE UpdateWrite(h)
    <2>1. ~ At(h, "delBus") /\ \A g \in Handlers \ {h} : handler'[g] = handler[g]
      BY <1>3 DEF UpdateWrite, At, Answer, Goto, TypeOK
    <2>2. CASE UNCHANGED doc
      BY <1>3, <2>1, <2>2, BusUntouched DEF UpdateWrite
    <2>3. CASE Goto(h, "delBus") /\ handler[h].bus = b
      <3>1. At(h, "delBus")' /\ handler'[h].bus = b
        BY <2>3 DEF Goto, At, TypeOK, Requests
      <3>. QED
        BY <3>1 DEF BusCovered
    <2>4. CASE handler[h].bus # b /\ ~ UNCHANGED doc
      <3>1. doc'[b] = doc[b] /\ busEntry'[b] = busEntry[b]
        BY <1>3, <2>4 DEF UpdateWrite, Write, TypeOK
      <3>2. CurrentEntry(b)' = CurrentEntry(b)
        BY <3>1 DEF CurrentEntry, Exists
      <3>. QED
        BY <2>1, <3>1, <3>2 DEF BusCovered, At
    <2>. QED
      BY <1>3, <2>2, <2>3, <2>4 DEF UpdateWrite
  <1>4. CASE \E c \in Buses : CreateBus(h, c)
    <2>1. PICK c \in Buses : CreateBus(h, c)
      BY <1>4
    <2>2. ~ At(h, "delBus") /\ \A g \in Handlers \ {h} : handler'[g] = handler[g]
      BY <2>1 DEF CreateBus, At, Start, TypeOK
    <2>3. busEntry' = busEntry
      BY <2>1 DEF CreateBus
    <2>4. CASE c = b
      <3>1. CurrentEntry(b) = 0
        BY <2>1, <2>4 DEF CreateBus, CurrentEntry, Exists
      <3>. QED
        BY <2>2, <2>3, <3>1 DEF BusCovered, At
    <2>5. CASE c # b
      <3>1. doc'[b] = doc[b]
        BY <2>1, <2>5 DEF CreateBus, Write, TypeOK
      <3>2. CurrentEntry(b)' = CurrentEntry(b)
        BY <3>1 DEF CurrentEntry, Exists
      <3>. QED
        BY <2>2, <2>3, <3>2 DEF BusCovered, At
    <2>. QED
      BY <2>4, <2>5
  <1>5. CASE \E c \in Buses : RemoveBus(h, c)
    <2>1. PICK c \in Buses : RemoveBus(h, c)
      BY <1>5
    <2>2. /\ ~ At(h, "delBus") /\ \A g \in Handlers \ {h} : handler'[g] = handler[g]
          /\ handler'[h].pc = "delBus" /\ handler'[h].bus = c
      BY <2>1, StartsFresh DEF RemoveBus, At, Start, TypeOK, Fresh
    <2>3. CASE c = b
      BY <2>2, <2>3 DEF BusCovered, At
    <2>4. CASE c # b
      <3>1. doc'[b] = doc[b] /\ busEntry' = busEntry
        BY <2>1, <2>4 DEF RemoveBus, TypeOK
      <3>2. CurrentEntry(b)' = CurrentEntry(b)
        BY <3>1 DEF CurrentEntry, Exists
      <3>. QED
        BY <2>2, <3>1, <3>2 DEF BusCovered, At
    <2>. QED
      BY <2>3, <2>4
  <1>6. CASE DelBus(h)
    <2>1. /\ CurrentEntry(b)' = CurrentEntry(b)
          /\ \A g \in Handlers \ {h} : handler'[g] = handler[g]
      BY <1>6, CurrentFrame DEF DelBus, Goto, TypeOK
    <2>2. busEntry'[b] = IF handler[h].bus = b THEN 0 ELSE busEntry[b]
      BY <1>6 DEF DelBus, TypeOK
    <2>. QED
      BY <2>1, <2>2 DEF BusCovered, At
  <1>. QED
    BY <1>1, <1>2, <1>3, <1>4, <1>5, <1>6 DEF Request, Proceed

\* An entry that expires is absent.
LEMMA BusExpiry ==
  ASSUME NEW b \in Buses, TypeOK, BusCovered(b),
         (\E c \in Buses : ExpireBus(c)) \/ (\E q \in Queries : ExpirePage(q)) \/ UNCHANGED vars
  PROVE  BusCovered(b)'
  <1>1. UNCHANGED <<doc, handler>> /\ busEntry'[b] \in {0, busEntry[b]}
    BY DEF ExpireBus, ExpirePage, vars, TypeOK
  <1>2. CurrentEntry(b)' = CurrentEntry(b)
    BY <1>1, CurrentFrame
  <1>. QED
    BY <1>1, <1>2 DEF BusCovered, At

\* bus.service.ts: an entry goes stale through an overtaken reader, a seat write or a lost
\* invalidation, and in no other way.
THEOREM BusesStayCovered == Spec => BusStaysCovered
  <1>1. CacheInv /\ [Next]_vars => [\A b \in Buses : BusStep(b)]_vars
    <2> SUFFICES ASSUME CacheInv, [Next]_vars, NEW b \in Buses
                 PROVE  BusStep(b)
      OBVIOUS
    <2>1. TypeOK
      BY DEF CacheInv
    <2>. QED
      BY <2>1, BusRequests, BusExpiry DEF BusStep, Next, SeatsWritten, InvalidationLost
  <1>2. Spec => []CacheInv
    BY CacheShowsThePast
  <1>. QED
    BY <1>1, <1>2, PTL DEF Spec, BusStaysCovered, BusStep

\* A writer that is on its way to the deletion of q.
Deleting(r, q) ==
  r.pc \in {"delBus", "listPages"} \/ (r.pc = "delPages" /\ q \in r.keys)

\* A page stays covered in a step that neither writes a bus nor the page, and in which no
\* writer leaves the way to its deletion.
LEMMA PageUntouched ==
  ASSUME NEW q \in Queries, PageCovered(q), UNCHANGED doc, pages'[q] = pages[q],
         \A h \in Handlers : Deleting(handler[h], q) => Deleting(handler'[h], q)
  PROVE  PageCovered(q)'
  <1>1. CurrentPage' = CurrentPage
    BY CurrentFrame
  <1>. QED
    BY <1>1 DEF PageCovered, Deleting, At, Cached

\* A page that is not cached is NoPage.
LEMMA UncachedIsNoPage ==
  ASSUME NEW q \in Queries, TypeOK, ~ pages[q].cached
  PROVE  pages[q] = NoPage
  BY DEF TypeOK, PageEntries, Cached

\* The steps of the requests.
LEMMA PageRequests ==
  ASSUME NEW h \in Handlers, NEW q \in Queries, TypeOK, Request(h) \/ Proceed(h)
  PROVE  PageStep(q)
  <1> SUFFICES ASSUME PageCovered(q), ~ \E g \in Handlers : OvertakenPageFill(g, q)
               PROVE  PageCovered(q)'
    BY DEF PageStep
  <1>1. CASE \/ \E c \in Buses : GetById(h, c) \/ UpdateRead(h, c)
             \/ \E k \in Queries : Search(h, k)
             \/ GetRead(h) \/ GetFill(h) \/ SearchCount(h) \/ SearchFind(h)
    <2>1. UNCHANGED <<doc, pages>>
      BY <1>1 DEF GetById, UpdateRead, Search, GetRead, GetFill, SearchCount, SearchFind
    <2>2. /\ ~ Deleting(handler[h], q)
          /\ \A g \in Handlers \ {h} : handler'[g] = handler[g]
      BY <1>1 DEF GetById, UpdateRead, Search, GetRead, GetFill, SearchCount, SearchFind,
                  At, Start, Answer, TypeOK, Deleting
    <2>. QED
      BY <2>1, <2>2, PageUntouched
  <1>2. CASE SearchFill(h)
    <2>1. /\ ~ Deleting(handler[h], q)
          /\ \A g \in Handlers \ {h} : handler'[g] = handler[g]
          /\ UNCHANGED doc
      BY <1>2 DEF SearchFill, At, Answer, TypeOK, Deleting
    <2>2. CASE handler[h].query = q
      <3>1. pages'[q] = Cached(handler[h].page)
        BY <1>2, <2>2 DEF SearchFill, TypeOK
      <3>2. handler[h].page = CurrentPage /\ CurrentPage' = CurrentPage
        BY <1>2, <2>2, CurrentFrame DEF SearchFill, OvertakenPageFill
      <3>. QED
        BY <3>1, <3>2 DEF PageCovered, Cached
    <2>3. CASE handler[h].query # q
      BY <1>2, <2>1, <2>3, PageUntouched DEF SearchFill, TypeOK
    <2>. QED
      BY <2>2, <2>3
  <1>3. CASE UpdateWrite(h)
    <2>1. CASE Goto(h, "delBus")
      <3>1. handler'[h].pc = "delBus"
        BY <2>1 DEF Goto, TypeOK, Requests
      <3>. QED
        BY <3>1 DEF PageCovered
    <2>2. CASE Answer(h) /\ UNCHANGED doc
      <3>1. /\ ~ Deleting(handler[h], q)
            /\ \A g \in Handlers \ {h} : handler'[g] = handler[g]
        BY <1>3, <2>2 DEF UpdateWrite, At, Answer, TypeOK, Deleting
      <3>. QED
        BY <1>3, <2>2, <3>1, PageUntouched DEF UpdateWrite
    <2>. QED
      BY <1>3, <2>1, <2>2 DEF UpdateWrite
  <1>4. ASSUME NEW c \in Buses, CreateBus(h, c) \/ RemoveBus(h, c)
        PROVE  PageCovered(q)'
    <2>1. Start(h, Fresh("listPages", NoBus, NoQuery)) \/ Start(h, Fresh("delBus", c, NoQuery))
      <3>1. CASE CreateBus(h, c)
        BY <3>1, StartsFresh DEF CreateBus
      <3>2. CASE RemoveBus(h, c)
        BY <3>2, StartsFresh DEF RemoveBus
      <3>. QED
        BY <1>4, <3>1, <3>2
    <2>2. handler'[h].pc \in {"delBus", "listPages"}
      BY <2>1 DEF Start, TypeOK, Fresh
    <2>. QED
      BY <2>2 DEF PageCovered
  <1>5. CASE DelBus(h)
    <2>1. handler'[h].pc = "listPages"
      BY <1>5 DEF DelBus, Goto, TypeOK, Requests
    <2>. QED
      BY <2>1 DEF PageCovered
  <1>6. CASE ListPages(h)
    <2>1. UNCHANGED <<doc, pages>>
      BY <1>6 DEF ListPages
    <2>2. CASE pages[q].cached
      <3>1. handler'[h].pc = "delPages" /\ q \in handler'[h].keys
        BY <1>6, <2>2 DEF ListPages, TypeOK, Requests
      <3>. QED
        BY <3>1 DEF PageCovered, At
    <2>3. CASE ~ pages[q].cached
      BY <2>1, <2>3, UncachedIsNoPage DEF PageCovered
    <2>. QED
      BY <2>2, <2>3
  <1>7. CASE DelPages(h)
    <2>1. CASE q \in handler[h].keys
      BY <1>7, <2>1 DEF DelPages, PageCovered
    <2>2. CASE q \notin handler[h].keys
      <3>1. /\ ~ Deleting(handler[h], q)
            /\ \A g \in Handlers \ {h} : handler'[g] = handler[g]
        BY <1>7, <2>2 DEF DelPages, At, Answer, TypeOK, Deleting
      <3>. QED
        BY <1>7, <2>2, <3>1, PageUntouched DEF DelPages
    <2>. QED
      BY <2>1, <2>2
  <1>. QED
    BY <1>1, <1>2, <1>3, <1>4, <1>5, <1>6, <1>7 DEF Request, Proceed

\* A page that expires is absent.
LEMMA PageExpiry ==
  ASSUME NEW q \in Queries, TypeOK, PageCovered(q),
         (\E c \in Buses : ExpireBus(c)) \/ (\E k \in Queries : ExpirePage(k)) \/ UNCHANGED vars
  PROVE  PageCovered(q)'
  <1>1. UNCHANGED <<doc, handler>> /\ pages'[q] \in {NoPage, pages[q]}
    BY DEF ExpireBus, ExpirePage, vars, TypeOK
  <1>2. CASE pages'[q] = NoPage
    BY <1>2 DEF PageCovered
  <1>3. CASE pages'[q] = pages[q]
    BY <1>1, <1>3, PageUntouched
  <1>. QED
    BY <1>1, <1>2, <1>3

\* The same for search pages: KEYS and DEL in two calls leave no page behind that was read
\* after the write.
THEOREM PagesStayCovered == Spec => PageStaysCovered
  <1>1. CacheInv /\ [Next]_vars => [\A q \in Queries : PageStep(q)]_vars
    <2> SUFFICES ASSUME CacheInv, [Next]_vars, NEW q \in Queries
                 PROVE  PageStep(q)
      OBVIOUS
    <2>1. TypeOK
      BY DEF CacheInv
    <2>. QED
      BY <2>1, PageRequests, PageExpiry DEF PageStep, Next, SeatsWritten, InvalidationLost
  <1>2. Spec => []CacheInv
    BY CacheShowsThePast
  <1>. QED
    BY <1>1, <1>2, PTL DEF Spec, PageStaysCovered, PageStep
=============================================================================
