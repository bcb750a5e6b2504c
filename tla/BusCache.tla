------------------------------ MODULE BusCache ------------------------------
(***************************************************************************)
(* The read side of modules/bus/bus.service.ts: getById and search read    *)
(* through a Redis cache, create, update and remove invalidate it, and the *)
(* seat writes of the booking service do not.  Every awaited call is one   *)
(* action, so requests interleave between a read and the fill, and between *)
(* a write and its invalidation.                                           *)
(*                                                                         *)
(* The content of a bus is its version: every write makes a new one.  A    *)
(* search page is what countDocuments and find return for the active       *)
(* buses; a query's result fits on one page.                               *)
(***************************************************************************)
EXTENDS Naturals, FiniteSets

CONSTANTS
  Buses,       \* ids of buses
  Queries,     \* search requests, all of them matching every active bus
  Handlers,    \* requests served at the same time
  MaxVersion,  \* bound on the writes of one bus
  Faults,      \* which of "db", "redis", "crash" may fail
  NoBus, NoQuery

ASSUME CacheConstants ==
  /\ IsFiniteSet(Buses)
  /\ MaxVersion \in Nat \ {0}
  /\ NoBus \notin Buses /\ NoQuery \notin Queries
  /\ Faults \subseteq {"db", "redis", "crash"}

VARIABLES
  doc,       \* the Bus documents
  busEntry,  \* cache:bus:<id>: the version cached, or 0
  pages,     \* cache:bus:search:<query>: the page cached, or NoPage
  handler    \* the requests in flight

vars == <<doc, busEntry, pages, handler>>

-----------------------------------------------------------------------------
Versions == 0 .. MaxVersion
BusStatuses == {"unborn", "active", "inactive", "removed"}
BusDocs == [status : BusStatuses, version : Versions]

\* total comes from countDocuments, shown from find; 0 is a bus that is not shown.
PageDocs == [total : 0 .. Cardinality(Buses), shown : [Buses -> Versions]]
NoPage == [total |-> 0, shown |-> [b \in Buses |-> 0], cached |-> FALSE]
Cached(p) == [total |-> p.total, shown |-> p.shown, cached |-> TRUE]
PageEntries == {NoPage} \cup {Cached(p) : p \in PageDocs}

ReaderPCs == {"getDb", "getFill", "searchCount", "searchFind", "searchFill"}
WriterPCs == {"updateWrite", "delBus", "listPages", "delPages"}

Requests == [pc : {"idle"} \cup ReaderPCs \cup WriterPCs,
             bus : Buses \cup {NoBus}, query : Queries \cup {NoQuery},
             version : Versions, page : PageDocs, keys : SUBSET Queries]

BlankPage == [total |-> 0, shown |-> [b \in Buses |-> 0]]
Idle == [pc |-> "idle", bus |-> NoBus, query |-> NoQuery,
         version |-> 0, page |-> BlankPage, keys |-> {}]

Exists(b) == doc[b].status \in {"active", "inactive"}
Active == {b \in Buses : doc[b].status = "active"}
Shown == [b \in Buses |-> IF b \in Active THEN doc[b].version ELSE 0]

\* Some buses exist already; the cache is empty.
Init ==
  /\ doc \in [Buses -> {[status |-> "unborn", version |-> 0],
                        [status |-> "active", version |-> 1]}]
  /\ busEntry = [b \in Buses |-> 0]
  /\ pages = [q \in Queries |-> NoPage]
  /\ handler = [h \in Handlers |-> Idle]

-----------------------------------------------------------------------------
At(h, pc) == handler[h].pc = pc
Answer(h) == handler' = [handler EXCEPT ![h] = Idle]
Start(h, r) == At(h, "idle") /\ handler' = [handler EXCEPT ![h] = r]
Goto(h, pc) == handler' = [handler EXCEPT ![h].pc = pc]

-----------------------------------------------------------------------------
(* getById *)

\* GET misses; a hit is answered at once and changes nothing.
GetById(h, b) ==
  /\ busEntry[b] = 0
  /\ Start(h, [Idle EXCEPT !.pc = "getDb", !.bus = b])
  /\ UNCHANGED <<doc, busEntry, pages>>

\* findById; NotFound is not cached.
GetRead(h) ==
  /\ At(h, "getDb")
  /\ IF Exists(handler[h].bus)
     THEN handler' = [handler EXCEPT ![h].pc = "getFill",
                                     ![h].version = doc[handler[h].bus].version]
     ELSE Answer(h)
  /\ UNCHANGED <<doc, busEntry, pages>>

\* SETEX with the version that was read.
GetFill(h) ==
  /\ At(h, "getFill")
  /\ busEntry' = [busEntry EXCEPT ![handler[h].bus] = handler[h].version]
  /\ Answer(h)
  /\ UNCHANGED <<doc, pages>>

-----------------------------------------------------------------------------
(* search *)

Search(h, q) ==
  /\ ~ pages[q].cached
  /\ Start(h, [Idle EXCEPT !.pc = "searchCount", !.query = q])
  /\ UNCHANGED <<doc, busEntry, pages>>

\* countDocuments.
SearchCount(h) ==
  /\ At(h, "searchCount")
  /\ handler' = [handler EXCEPT ![h].pc = "searchFind",
                                ![h].page.total = Cardinality(Active)]
  /\ UNCHANGED <<doc, busEntry, pages>>

\* find: a second read of the collection.
SearchFind(h) ==
  /\ At(h, "searchFind")
  /\ handler' = [handler EXCEPT ![h].pc = "searchFill", ![h].page.shown = Shown]
  /\ UNCHANGED <<doc, busEntry, pages>>

SearchFill(h) ==
  /\ At(h, "searchFill")
  /\ pages' = [pages EXCEPT ![handler[h].query] = Cached(handler[h].page)]
  /\ Answer(h)
  /\ UNCHANGED <<doc, busEntry>>

-----------------------------------------------------------------------------
(* create, update, remove *)

\* A write of the document: its next version, with the status s.
Write(b, s) ==
  /\ doc[b].version < MaxVersion
  /\ doc' = [doc EXCEPT ![b] = [status |-> s, version |-> @.version + 1]]

\* Mutant: a new bus is not announced to the search pages.
CreateBusUnannounced(h, b) ==
  /\ At(h, "idle")
  /\ doc[b].status = "unborn"
  /\ Write(b, "active")
  /\ UNCHANGED <<busEntry, pages, handler>>

\* Bus.create; a new bus is active.  Only the search pages are invalidated.
CreateBus(h, b) ==
  /\ doc[b].status = "unborn"
  /\ Write(b, "active")
  /\ Start(h, [Idle EXCEPT !.pc = "listPages"])
  /\ UNCHANGED <<busEntry, pages>>

\* Mutant: the new version is put into the cache before it is written.
UpdateReadWritesThrough(h, b) ==
  /\ Exists(b) /\ doc[b].version < MaxVersion
  /\ busEntry' = [busEntry EXCEPT ![b] = doc[b].version + 1]
  /\ Start(h, [Idle EXCEPT !.pc = "updateWrite", !.bus = b])
  /\ UNCHANGED <<doc, pages>>

\* findById: NotFound, or the check of the operator, may refuse the update.
UpdateRead(h, b) ==
  /\ Exists(b)
  /\ Start(h, [Idle EXCEPT !.pc = "updateWrite", !.bus = b])
  /\ UNCHANGED <<doc, busEntry, pages>>

\* findByIdAndUpdate finds nothing when the bus was removed meanwhile.
UpdateWrite(h) ==
  LET b == handler[h].bus IN
  /\ At(h, "updateWrite")
  /\ \/ /\ Exists(b)
        /\ \E s \in {"active", "inactive"} : Write(b, s)
        /\ Goto(h, "delBus")
     \/ /\ ~ Exists(b)
        /\ Answer(h)
        /\ UNCHANGED doc
  /\ UNCHANGED <<busEntry, pages>>

\* Mutant: a removed bus stays in its own cache entry.
RemoveBusPagesOnly(h, b) ==
  /\ Exists(b)
  /\ doc' = [doc EXCEPT ![b].status = "removed"]
  /\ Start(h, [Idle EXCEPT !.pc = "listPages", !.bus = b])
  /\ UNCHANGED <<busEntry, pages>>

\* findByIdAndDelete.
RemoveBus(h, b) ==
  /\ Exists(b)
  /\ doc' = [doc EXCEPT ![b].status = "removed"]
  /\ Start(h, [Idle EXCEPT !.pc = "delBus", !.bus = b])
  /\ UNCHANGED <<busEntry, pages>>

\* cacheDel.
DelBus(h) ==
  /\ At(h, "delBus")
  /\ busEntry' = [busEntry EXCEPT ![handler[h].bus] = 0]
  /\ Goto(h, "listPages")
  /\ UNCHANGED <<doc, pages>>

\* cacheDelPattern: KEYS lists the pages that are cached now; no DEL when there are none.
ListPages(h) ==
  LET keys == {q \in Queries : pages[q].cached} IN
  /\ At(h, "listPages")
  /\ IF keys = {} THEN Answer(h)
     ELSE handler' = [handler EXCEPT ![h].pc = "delPages", ![h].keys = keys]
  /\ UNCHANGED <<doc, busEntry, pages>>

\* DEL of the keys listed.
DelPages(h) ==
  /\ At(h, "delPages")
  /\ pages' = [q \in Queries |-> IF q \in handler[h].keys THEN NoPage ELSE pages[q]]
  /\ Answer(h)
  /\ UNCHANGED <<doc, busEntry>>

-----------------------------------------------------------------------------
(* The world around the bus service *)

\* createBooking, confirmBooking and cancelBooking write seats and leave the cache alone.
SeatWrite(b) ==
  /\ Exists(b)
  /\ Write(b, doc[b].status)
  /\ UNCHANGED <<busEntry, pages, handler>>

\* Mutant: the entry of a bus is stored without a time to live.
ExpireBusNever(b) == FALSE /\ UNCHANGED vars

\* The time to live of an entry has passed.
ExpireBus(b) ==
  /\ busEntry[b] # 0
  /\ busEntry' = [busEntry EXCEPT ![b] = 0]
  /\ UNCHANGED <<doc, pages, handler>>

\* Mutant: search pages are stored without a time to live.
ExpirePageNever(q) == FALSE /\ UNCHANGED vars

ExpirePage(q) ==
  /\ pages[q].cached
  /\ pages' = [pages EXCEPT ![q] = NoPage]
  /\ UNCHANGED <<doc, busEntry, handler>>

DbCalls == {"getDb", "searchCount", "searchFind", "updateWrite"}
RedisCalls == {"getFill", "searchFill", "delBus", "listPages", "delPages"}

\* An awaited call rejects without effect; the error goes to the client, and what the
\* request would have done next is not done.
CallFails(h) ==
  /\ \/ "db" \in Faults /\ handler[h].pc \in DbCalls
     \/ "redis" \in Faults /\ handler[h].pc \in RedisCalls
  /\ Answer(h)
  /\ UNCHANGED <<doc, busEntry, pages>>

\* The process stops and restarts: its requests are gone, the cache stays.
Crash ==
  /\ "crash" \in Faults
  /\ \E h \in Handlers : ~ At(h, "idle")
  /\ handler' = [h \in Handlers |-> Idle]
  /\ UNCHANGED <<doc, busEntry, pages>>

-----------------------------------------------------------------------------
Request(h) ==
  \/ \E b \in Buses : GetById(h, b) \/ CreateBus(h, b) \/ UpdateRead(h, b) \/ RemoveBus(h, b)
  \/ \E q \in Queries : Search(h, q)

Proceed(h) ==
  \/ GetRead(h) \/ GetFill(h)
  \/ SearchCount(h) \/ SearchFind(h) \/ SearchFill(h)
  \/ UpdateWrite(h) \/ DelBus(h) \/ ListPages(h) \/ DelPages(h)

Next ==
  \/ \E h \in Handlers : Request(h) \/ Proceed(h) \/ CallFails(h)
  \/ \E b \in Buses : SeatWrite(b) \/ ExpireBus(b)
  \/ \E q \in Queries : ExpirePage(q)
  \/ Crash

Spec == Init /\ [][Next]_vars

\* The event loop runs every continuation and Redis expires every entry; nothing
\* obliges a client to ask or to write.
FairSpec ==
  /\ Spec
  /\ \A h \in Handlers : WF_vars(Proceed(h))
  /\ \A b \in Buses : WF_vars(ExpireBus(b))
  /\ \A q \in Queries : WF_vars(ExpirePage(q))

-----------------------------------------------------------------------------
(* Safety *)

\* Every document, cache entry and request has its type (bus.model.ts, redis.service.ts).
TypeOK ==
  /\ doc \in [Buses -> BusDocs]
  /\ busEntry \in [Buses -> Versions]
  /\ pages \in [Queries -> PageEntries]
  /\ handler \in [Handlers -> Requests]

\* A request that reads, stores or writes a bus has one.
RequestsSound ==
  \A h \in Handlers :
    handler[h].pc \in {"getDb", "getFill", "updateWrite", "delBus"} => handler[h].bus \in Buses

\* The cache, and what a reader is about to put there, never shows a version of a bus
\* that MongoDB has not held: no write reaches the cache before it is committed.
CacheInv ==
  /\ TypeOK
  /\ RequestsSound
  /\ \A b \in Buses :
       /\ busEntry[b] <= doc[b].version
       /\ \A q \in Queries : pages[q].shown[b] <= doc[b].version
       /\ \A h \in Handlers :
            /\ handler[h].page.shown[b] <= doc[b].version
            /\ handler[h].bus = b => handler[h].version <= doc[b].version

\* What a read of MongoDB would put into the cache now.
CurrentEntry(b) == IF Exists(b) THEN doc[b].version ELSE 0
CurrentPage == [total |-> Cardinality(Active), shown |-> Shown]

\* The entry of b is absent or current, or a writer that is under way will delete it.
BusCovered(b) ==
  \/ busEntry[b] \in {0, CurrentEntry(b)}
  \/ \E h \in Handlers : At(h, "delBus") /\ handler[h].bus = b

\* The page of q is absent or current, or a writer that is under way will delete it: it
\* has not listed the keys yet, or q is among those it listed.
PageCovered(q) ==
  \/ pages[q] \in {NoPage, Cached(CurrentPage)}
  \/ \E h \in Handlers :
       \/ handler[h].pc \in {"delBus", "listPages"}
       \/ At(h, "delPages") /\ q \in handler[h].keys

\* A reader stores what a write has overtaken since it read MongoDB.
OvertakenBusFill(h, b) ==
  At(h, "getFill") /\ handler[h].bus = b /\ handler[h].version # CurrentEntry(b)
OvertakenPageFill(h, q) ==
  At(h, "searchFill") /\ handler[h].query = q /\ handler[h].page # CurrentPage

InvalidationLost == (\E h \in Handlers : CallFails(h)) \/ Crash
SeatsWritten == \E b \in Buses : SeatWrite(b)

\* redis-design.md:67, "Cache is invalidated on any write": a bus's entry becomes stale
\* for its time to live only in three ways: a reader that a write has overtaken fills it,
\* the booking service writes seats, or the invalidation itself fails.
BusStaysCovered ==
  [][\A b \in Buses :
       BusCovered(b) /\ ~ BusCovered(b)'
         => SeatsWritten \/ InvalidationLost \/ \E h \in Handlers : OvertakenBusFill(h, b)]_vars

\* The same for search pages.  cacheDelPattern lists and deletes in two calls: a page
\* filled in between is left there only if it was read before the write.
PageStaysCovered ==
  [][\A q \in Queries :
       PageCovered(q) /\ ~ PageCovered(q)'
         => SeatsWritten \/ InvalidationLost \/ \E h \in Handlers : OvertakenPageFill(h, q)]_vars

-----------------------------------------------------------------------------
(* Liveness *)

\* However an entry became stale, once a bus is no longer written its entry ends up
\* absent or current: every entry is stored with a time to live (BUS_CACHE_TTL).
BusEventuallyFresh ==
  \A b \in Buses :
    <>[][doc'[b] = doc[b]]_doc => <>[](busEntry[b] \in {0, CurrentEntry(b)})

\* The same for a search page, once no bus is written.
PageEventuallyFresh ==
  \A q \in Queries :
    <>[][FALSE]_doc => <>[](pages[q] \in {NoPage, Cached(CurrentPage)})
=============================================================================
