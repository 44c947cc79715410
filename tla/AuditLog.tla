------------------------------ MODULE AuditLog ------------------------------
(***************************************************************************)
(* The audit log and the pages an administrator reads of it.  Handlers     *)
(* append events while pages are being read.  An event is stamped when its *)
(* INSERT begins and seen when it commits, so events can become visible    *)
(* out of the order of their timestamps.  A page is two statements, its    *)
(* rows and their total, each of which sees the log as it is by then.  The *)
(* web application keeps the pages it has read in a cache, so that pages   *)
(* of different ages meet in one walk through the log.                     *)
(***************************************************************************)
EXTENDS Integers, FiniteSets, SequencesExt, Statements

CONSTANTS
    Events,        \* keys that the sequence of audit_events can draw
    Readers,       \* administrators in the web application
    Handlers,      \* requests for a page at once
    PageSizes,     \* the sizes that the web application offers
    FirstSize,     \* the one it starts with
    StaleTime,     \* how long it shows a page without asking again
    AskedPages, AskedSizes,  \* what any other client may ask for
    DefaultSize,   \* the page size when none is asked for
    Half,          \* an int32 is one of -Half .. Half - 1
    MaxTime,       \* bound on the clock
    NULL           \* no row, no key, no reader

ASSUME AuditAssumption ==
    /\ Faults \subseteq FaultKinds
    /\ IsFiniteSet(Events) /\ Half \in Nat /\ Cardinality(Events) < Half
    /\ PageSizes \subseteq 1 .. Half - 1 /\ DefaultSize \in 1 .. Half - 1
    /\ FirstSize \in PageSizes /\ StaleTime \in Nat
    /\ AskedPages \subseteq Int /\ AskedSizes \subseteq Int
    /\ MaxTime \in Nat /\ NULL \notin Nat /\ NULL \notin Readers

VARIABLES
    log,       \* audit_events: key -> created_at, or NULL for no row
    writing,   \* INSERTs under way: key -> created_at, or NULL
    now,       \* the clock, of the database and of the browsers
    request,   \* the requests for a page
    view,      \* the page that a reader has opened, or NULL
    cache,     \* the pages that a reader's application has read
    trail      \* history: the earlier pages as they were when a reader left them

vars == <<log, writing, now, request, view, cache, trail>>
logVars == <<log, writing, now>>
readerVars == <<view, cache, trail>>

Visible == {e \in Events : log[e] # NULL}

\* The two statements of the handler, in the order it runs them.
CountFirst == <<"count", "list">>   \* mutated form of Order
Order == <<"list", "count">>
Answered == Len(Order) + 1

\* by: the reader whose application asks, NULL for another client.  at: the
\* statement a request executes next, 0 when there is no request, Answered when it
\* is over.  read (a history): the events visible when the rows were read.
Request == [at : 0 .. Answered, status : {200, 500}, by : Readers \cup {NULL},
            page : Nat \ {0}, size : Nat \ {0}, rows : Seq(Events), total : Nat,
            read : SUBSET Events]

NoRequest == [at |-> 0, status |-> 200, by |-> NULL, page |-> 1, size |-> DefaultSize,
              rows |-> <<>>, total |-> 0, read |-> {}]

Free(h) == request[h].at = 0 \/ (request[h].at = Answered /\ request[h].by = NULL)
AtStatement(h, name) == request[h].at \in DOMAIN Order /\ Order[request[h].at] = name

\* What the cache holds for a key, and since when.
Key == [page : Nat \ {0}, size : Nat \ {0}]
KeyOf(q) == [page |-> q.page, size |-> q.size]
Page == [rows : Seq(Events), total : Nat, stamp : Nat, read : SUBSET Events]

Init ==
    /\ log = [e \in Events |-> NULL]
    /\ writing = [e \in Events |-> NULL]
    /\ now = 0
    /\ request = [h \in Handlers |-> NoRequest]
    /\ view = [r \in Readers |-> NULL]
    /\ cache = [r \in Readers |-> <<>>]
    /\ trail = [r \in Readers |-> <<>>]

-----------------------------------------------------------------------------
(* Appending.                                                              *)

\* NOW() is the time at which the INSERT began.
CreateAuditEvent(e) ==
    /\ log[e] = NULL /\ writing[e] = NULL
    /\ writing' = [writing EXCEPT ![e] = now]
    /\ UNCHANGED <<log, now, request, readerVars>>

\* The INSERT ends, and the handler that made it drops its error.
audit(e) ==
    /\ writing[e] # NULL
    /\ \E outcome \in Outcomes :
         log' = IF Applied(outcome) THEN [log EXCEPT ![e] = writing[e]] ELSE log
    /\ writing' = [writing EXCEPT ![e] = NULL]
    /\ UNCHANGED <<now, request, readerVars>>

Tick ==
    /\ now < MaxTime
    /\ now' = now + 1
    /\ UNCHANGED <<log, writing, request, readerVars>>

-----------------------------------------------------------------------------
(* GET /v1/audit/events.                                                   *)

\* Conversion of a Go int.
Int32(n) == ((n + Half) % (2 * Half)) - Half

\* Mutated form of Positive: a parameter that is there is taken as it is.
Given(value, default) == IF value # 0 THEN value ELSE default

\* An absent parameter is asked for as 0: it is replaced like any other that
\* is not positive.
Positive(value, default) == IF value > 0 THEN value ELSE default

Ask(h, by, page, size) ==
    /\ Free(h)
    /\ request' = [request EXCEPT ![h] =
        [at |-> 1, status |-> 200, by |-> by, page |-> Positive(page, 1),
         size |-> Positive(size, DefaultSize), rows |-> <<>>, total |-> 0, read |-> {}]]

\* Any client with an administrator's token.
AskPage(h, page, size) ==
    /\ Ask(h, NULL, page, size)
    /\ UNCHANGED <<logVars, readerVars>>

\* Mutated form of Offset: pages are counted from 0.
OffsetFromZero(page, size) == Int32(page * size)

Offset(page, size) == Int32((page - 1) * size)

\* Newest first; events of the same instant come in no particular order, and
\* not in the same order each time.
Orderings ==
    {order \in SetToSeqs(Visible) :
        \A i, j \in DOMAIN order : i < j => log[order[i]] >= log[order[j]]}

\* ORDER BY created_at DESC LIMIT limit OFFSET offset.
RowsAt(order, limit, offset) ==
    SubSeq(order, offset + 1,
           IF offset + limit < Len(order) THEN offset + limit ELSE Len(order))

Fail(h) == request' = [request EXCEPT ![h].at = Answered, ![h].status = 500]

\* The rows of the page.  PostgreSQL refuses a negative LIMIT or OFFSET.
ListAuditEvents(h) ==
    /\ AtStatement(h, "list")
    /\ LET limit == Int32(request[h].size)
           offset == Offset(request[h].page, request[h].size)
       IN \/ /\ limit >= 0 /\ offset >= 0
             /\ \E order \in Orderings :
                  request' = [request EXCEPT ![h].at = @ + 1, ![h].read = Visible,
                                 ![h].rows = RowsAt(order, limit, offset)]
          \/ /\ limit < 0 \/ offset < 0 \/ "unread" \in Lookups
             /\ Fail(h)
    /\ UNCHANGED <<logVars, readerVars>>

\* The total, 0 when it cannot be read, and the answer.
CountAuditEvents(h) ==
    /\ AtStatement(h, "count")
    /\ \E lookup \in Lookups :
         request' = [request EXCEPT ![h].at = @ + 1,
                        ![h].total = IF lookup = "ok" THEN Cardinality(Visible) ELSE 0]
    /\ UNCHANGED <<logVars, readerVars>>

-----------------------------------------------------------------------------
(* The web application.  It shows a page that it read less than StaleTime  *)
(* ago as it was; for any other it asks, and goes on showing the rows it   *)
(* has until the answer.  A request it has no longer on the screen is not  *)
(* cut off, and one for the same page is not made twice.                   *)

Known(r) == view[r] \in DOMAIN cache[r]
Fresh(r, key) == key \in DOMAIN cache[r] /\ now < cache[r][key].stamp + StaleTime
Loading(r, key) == \E h \in Handlers : request[h].by = r /\ KeyOf(request[h]) = key

Show(r, key) ==
    /\ view' = [view EXCEPT ![r] = key]
    /\ \/ /\ Fresh(r, key) \/ Loading(r, key)
          /\ UNCHANGED request
       \/ /\ ~ Fresh(r, key) /\ ~ Loading(r, key)
          /\ \E h \in Handlers : Ask(h, r, key.page, key.size)
    /\ UNCHANGED <<logVars, cache>>

\* The answer: an error leaves the page as it was read before.
Receive(h) ==
    /\ request[h].at = Answered /\ request[h].by # NULL
    /\ LET q == request[h] IN
         cache' = IF q.status = 500 THEN cache
                  ELSE [cache EXCEPT ![q.by] =
                          [key \in DOMAIN @ \cup {KeyOf(q)} |->
                             IF key = KeyOf(q)
                             THEN [rows |-> q.rows, total |-> q.total, stamp |-> now,
                                   read |-> q.read]
                             ELSE @[key]]]
    /\ request' = [request EXCEPT ![h] = NoRequest]
    /\ UNCHANGED <<logVars, view, trail>>

\* What is not known has a total of 0.
TotalShown(r) == IF Known(r) THEN cache[r][view[r]].total ELSE 0

LastPage(r) ==
    LET full == (TotalShown(r) + view[r].size - 1) \div view[r].size
    IN IF full > 1 THEN full ELSE 1

\* The page is opened, at first or again; the cache outlives it.
OpenAuditEvents(r) ==
    /\ Show(r, [page |-> 1, size |-> FirstSize])
    /\ trail' = [trail EXCEPT ![r] = <<>>]

\* Another size is chosen, which the application allows while it is loading.
ChooseSize(r, size) ==
    /\ view[r] # NULL /\ view[r].size # size
    /\ Show(r, [page |-> 1, size |-> size])
    /\ trail' = [trail EXCEPT ![r] = <<>>]

NextPage(r) ==
    /\ view[r] # NULL /\ ~ Loading(r, view[r])
    /\ view[r].page < LastPage(r)
    /\ Show(r, [view[r] EXCEPT !.page = @ + 1])
    /\ trail' = [trail EXCEPT ![r] = Append(@, cache[r][view[r]])]

PreviousPage(r) ==
    /\ view[r] # NULL /\ ~ Loading(r, view[r])
    /\ view[r].page > 1
    /\ Show(r, [view[r] EXCEPT !.page = @ - 1])
    /\ trail' = [trail EXCEPT ![r] = Front(@)]

\* A lost connection comes back: the page on the screen is asked for again.
Reconnect(r) ==
    /\ view[r] # NULL
    /\ Show(r, view[r])
    /\ UNCHANGED trail

-----------------------------------------------------------------------------
Next ==
    \/ \E e \in Events : CreateAuditEvent(e) \/ audit(e)
    \/ \E h \in Handlers, page \in AskedPages, size \in AskedSizes : AskPage(h, page, size)
    \/ \E h \in Handlers : ListAuditEvents(h) \/ CountAuditEvents(h) \/ Receive(h)
    \/ \E r \in Readers : OpenAuditEvents(r) \/ NextPage(r) \/ PreviousPage(r) \/ Reconnect(r)
    \/ \E r \in Readers, size \in PageSizes : ChooseSize(r, size)
    \/ Tick

Spec == Init /\ [][Next]_vars

-----------------------------------------------------------------------------
(* Properties.                                                             *)

TypeOK ==
    /\ log \in [Events -> Nat \cup {NULL}]
    /\ writing \in [Events -> Nat \cup {NULL}]
    /\ now \in Nat
    /\ request \in [Handlers -> Request]
    /\ view \in [Readers -> Key \cup {NULL}]
    /\ DOMAIN cache = Readers
    /\ \A r \in Readers : /\ DOMAIN cache[r] \subseteq Key
                          /\ \A key \in DOMAIN cache[r] : cache[r][key] \in Page
    /\ trail \in [Readers -> Seq(Page)]

\* The pages of a walk, the one on the screen the last.
Walk(r) == Append(trail[r], cache[r][view[r]])

\* The walk is over: Next is disabled because this is the last page, and not
\* because of a request under way or of a COUNT that failed.
WalkDone(r) ==
    /\ view[r] # NULL /\ ~ Loading(r, view[r]) /\ Known(r)
    /\ TotalShown(r) # 0 /\ view[r].page >= LastPage(r)

\* No page was read before the one in front of it.
InOrder(walk) ==
    \A i \in 1 .. Len(walk) - 1 : walk[i].read \subseteq walk[i + 1].read

\* Who walks through the pages to the end, some of them from the cache, has been
\* shown every event that page 1 was chosen from, whatever is appended meanwhile and
\* in whatever order it becomes visible; provided that no page came from the cache
\* that is older than the page before it, and that the event shares its timestamp
\* with no other.
WalkFindsEveryEvent ==
    \A r \in Readers : WalkDone(r) /\ InOrder(Walk(r)) =>
        \A e \in Walk(r)[1].read :
            (\A other \in Visible \ {e} : log[other] # log[e]) =>
            \E i \in DOMAIN Walk(r) : e \in ToSet(Walk(r)[i].rows)

\* An answer shows no row beyond its own total, although the two are read by
\* separate statements, provided that the COUNT did not fail and that the
\* offset fits an int32.
TotalCoversPage ==
    \A h \in Handlers :
        LET q == request[h] IN
        /\ q.at = Answered /\ q.status = 200 /\ q.rows # <<>> /\ q.total # 0
        /\ (q.page - 1) * q.size < Half
        => (q.page - 1) * q.size + Len(q.rows) <= q.total
=============================================================================
