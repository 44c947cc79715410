--------------------------- MODULE AuditLogProofs ---------------------------
(***************************************************************************)
(* Proofs about AuditLog, for any number of events, readers and requests,  *)
(* any page sizes, any width of an int32, and any length of run.           *)
(*                                                                         *)
(* Why a walk misses nothing although every page is read from another log: *)
(* rows are never removed and keep their timestamp, so among the events    *)
(* that a page was chosen from, an event has at least as many newer ones   *)
(* as on the page before, if that was read earlier.  An event that pages 1 *)
(* to p have not shown therefore has at least p full pages of newer ones,  *)
(* and the total of page p says that there is more.                        *)
(***************************************************************************)
EXTENDS AuditLog, FiniteSetTheorems, SequenceTheorems, TLAPS

USE AuditAssumption

\* The events of a set that come before e on the pages, if e is alone at its instant.
NewerIn(S, e) == {other \in S : log[other] > log[e]}
Newer(e) == NewerIn(Visible, e)
Alone(e) == \A other \in Visible \ {e} : log[other] # log[e]

\* An event that the earlier pages do not reach is on this one, or this one does not
\* reach it either.
NoneSkipped(x, page, size) ==
    \A e \in x.read :
        /\ Alone(e) /\ e \notin ToSet(x.rows)
        /\ Cardinality(NewerIn(x.read, e)) >= (page - 1) * size
        => Cardinality(NewerIn(x.read, e)) >= page * size

\* A total that could be read counts all the events that the rows were chosen from.
TotalCounts(x) == x.total # 0 => Cardinality(x.read) <= x.total /\ x.total < Half

Fits(key) == (key.page - 1) * key.size < Half

\* What a request has read.
Sound(q) ==
    /\ q.by # NULL => q.size \in PageSizes /\ Fits(q)
    /\ q.at \in {2, 3} /\ q.status = 200 /\ Fits(q) =>
         /\ q.rows # <<>> => (q.page - 1) * q.size + Len(q.rows) <= Cardinality(q.read)
         /\ q.size < Half => NoneSkipped(q, q.page, q.size)
    /\ q.at = 3 /\ q.status = 200 => TotalCounts(q)

\* An event of page 1 that no page of a walk has shown so far, each page read no
\* earlier than the one before, comes after all of them.
WalkMisses(w, size) ==
    \A i \in 1 .. Len(w) : (\A j \in 1 .. i - 1 : w[j].read \subseteq w[j + 1].read) =>
        \A e \in w[1].read : Alone(e) /\ (\A j \in 1 .. i : e \notin ToSet(w[j].rows)) =>
            e \in w[i].read /\ Cardinality(NewerIn(w[i].read, e)) >= i * size

\* An event is written once, and what was read stays in the log.
RowsStay ==
    /\ \A e \in Events : writing[e] # NULL => log[e] = NULL
    /\ \A h \in Handlers : request[h].read \subseteq Visible
    /\ \A r \in Readers : \A key \in DOMAIN cache[r] : cache[r][key].read \subseteq Visible
    /\ \A r \in Readers : \A i \in 1 .. Len(trail[r]) : trail[r][i].read \subseteq Visible

RequestsSound == \A h \in Handlers : Sound(request[h])

CacheSound ==
    \A r \in Readers : \A key \in DOMAIN cache[r] :
        NoneSkipped(cache[r][key], key.page, key.size) /\ TotalCounts(cache[r][key])

TrailsSound ==
    \A r \in Readers : view[r] # NULL =>
        /\ view[r].size \in PageSizes /\ Fits(view[r])
        /\ Len(trail[r]) = view[r].page - 1
        /\ WalkMisses(trail[r], view[r].size)

AuditInv == TypeOK /\ RowsStay /\ RequestsSound /\ CacheSound /\ TrailsSound

-----------------------------------------------------------------------------
(* Arithmetic.                                                             *)

\* The conversion changes no number that an int32 can hold and is not negative.
LEMMA Int32Fits ==
  ASSUME NEW n \in Nat, n < Half
  PROVE  Int32(n) = n
  BY DEF Int32

\* The conversion of any integer is one.
LEMMA Int32Type ==
  ASSUME NEW n \in Int
  PROVE  Int32(n) \in Int
<1>1. Half \in Nat \ {0}
  BY FS_CardinalityType
<1>2. QED BY <1>1 DEF Int32

\* Products of naturals grow with their factors.
LEMMA Product ==
  ASSUME NEW a \in Nat, NEW b \in Nat, NEW c \in Nat
  PROVE  a * c \in Nat /\ (a + 1) * c = a * c + c /\ (a <= b => a * c <= b * c)
  OBVIOUS

\* Division rounds down.
LEMMA Quotient ==
  ASSUME NEW d \in Nat \ {0}, NEW n \in Nat
  PROVE  n \div d \in Nat /\ (n \div d) * d <= n /\ n < (n \div d) * d + d
  OBVIOUS

\* A key names a page and a size.
LEMMA KeyIs ==
  ASSUME NEW key \in Key
  PROVE  /\ key.page \in Nat \ {0} /\ key.page - 1 \in Nat
         /\ key.size \in Nat \ {0}
         /\ key = [page |-> key.page, size |-> key.size]
<1> DEFINE Pages == Nat \ {0}
<1>1. Key = [page : Pages, size : Pages]
  BY DEF Key
<1>2. key.page \in Pages /\ key.size \in Pages /\ key = [page |-> key.page, size |-> key.size]
  <2> HIDE DEF Pages
  <2>1. QED BY <1>1
<1>3. QED BY <1>2

\* Another page of the same size.
LEMMA KeyTurned ==
  ASSUME NEW key \in Key, NEW page \in Nat \ {0}
  PROVE  \E next \in Key : /\ next = [key EXCEPT !.page = page]
                           /\ next.page = page /\ next.size = key.size
<1> DEFINE Pages == Nat \ {0}
<1>1. Key = [page : Pages, size : Pages] /\ page \in Pages
  BY DEF Key
<1> HIDE DEF Pages
<1>2. [key EXCEPT !.page = page] \in Key
  BY <1>1
<1>3. [key EXCEPT !.page = page].page = page /\ [key EXCEPT !.page = page].size = key.size
  BY <1>1
<1>4. QED BY <1>2, <1>3

\* The page before the last is full of rows, and the last holds the rest.
LEMMA LastPageIs ==
  ASSUME TypeOK, NEW r \in Readers, NEW key \in Key, view[r] = key
  PROVE  /\ key.page >= LastPage(r) => TotalShown(r) <= key.page * key.size
         /\ key.page < LastPage(r) => key.page * key.size < TotalShown(r)
         /\ TotalShown(r) \in Nat
<1> DEFINE page == key.page
           size == key.size
           total == TotalShown(r)
           full == (total + size - 1) \div size
<1>1. page \in Nat \ {0} /\ size \in Nat \ {0}
  BY KeyIs
<1>2. LastPage(r) = IF full > 1 THEN full ELSE 1
  BY DEF LastPage
<1>3. total \in Nat
  <2>1. ASSUME Known(r) PROVE cache[r][view[r]] \in Page
    BY <2>1 DEF Known, TypeOK
  <2>2. QED BY <2>1 DEF TotalShown, Page
<1> HIDE DEF total
<1>4. total + size - 1 \in Nat
  BY <1>1, <1>3
<1>5. full \in Nat /\ full * size <= total + size - 1 /\ total + size - 1 < full * size + size
  BY <1>1, <1>4, Quotient
<1> HIDE DEF full
<1>6. ASSUME page >= LastPage(r) PROVE total <= page * size
  <2>1. full <= page
    BY <1>1, <1>2, <1>5, <1>6
  <2>2. full * size <= page * size
    BY <1>1, <1>5, <2>1, Product
  <2>3. full * size \in Nat /\ page * size \in Nat
    BY <1>1, <1>5, Product
  <2> HIDE DEF page, size
  <2>4. QED BY <1>1, <1>3, <1>5, <2>2, <2>3
<1>7. ASSUME page < LastPage(r) PROVE page * size < total
  <2>1. page + 1 <= full
    BY <1>1, <1>2, <1>5, <1>7
  <2>2. (page + 1) * size <= full * size
    BY <1>1, <1>5, <2>1, Product
  <2>3. (page + 1) * size = page * size + size /\ page * size \in Nat /\ full * size \in Nat
    BY <1>1, <1>5, Product
  <2> HIDE DEF page, size
  <2>4. QED BY <1>1, <1>3, <1>5, <2>2, <2>3
<1>8. QED BY <1>3, <1>6, <1>7 DEF total

-----------------------------------------------------------------------------
(* The order of the log.                                                   *)

\* There are finitely many events.
LEMMA Counted ==
  ASSUME NEW S \in SUBSET Events
  PROVE  IsFiniteSet(S) /\ Cardinality(S) \in Nat /\ Cardinality(S) < Half
<1>1. IsFiniteSet(S) /\ Cardinality(S) <= Cardinality(Events)
  BY FS_Subset
<1>2. Cardinality(S) \in Nat /\ Cardinality(Events) \in Nat
  BY <1>1, FS_CardinalityType
<1>3. QED BY <1>1, <1>2

\* An ordering lists every visible event once.
LEMMA OrderingIs ==
  ASSUME NEW order \in Orderings
  PROVE  /\ order \in [1 .. Cardinality(Visible) -> Visible]
         /\ order \in Seq(Events) /\ Len(order) = Cardinality(Visible)
         /\ \A i, j \in 1 .. Cardinality(Visible) :
              /\ i # j => order[i] # order[j]
              /\ i < j => log[order[i]] >= log[order[j]]
         /\ \A e \in Visible : \E i \in 1 .. Cardinality(Visible) : order[i] = e
<1> DEFINE n == Cardinality(Visible)
<1>1. Visible \in SUBSET Events
  BY DEF Visible
<1>2. n \in Nat /\ IsFiniteSet(Visible)
  BY <1>1, Counted
<1>3. order \in SetToSeqs(Visible)
      /\ \A i, j \in DOMAIN order : i < j => log[order[i]] >= log[order[j]]
  BY DEF Orderings
<1>4. /\ order \in [1 .. n -> Visible]
      /\ \A i, j \in 1 .. n : i # j => order[i] # order[j]
  BY <1>3 DEF SetToSeqs
<1>5. order \in [1 .. n -> Events]
  BY <1>1, <1>4
<1> HIDE DEF n
<1>6. order \in Seq(Events) /\ Len(order) = n
  BY <1>2, <1>5
<1>7. order \in Injection(1 .. n, Visible)
  BY <1>4 DEF Injection, IsInjective
<1>8. Cardinality(1 .. n) = n
  BY <1>2, FS_Interval
<1>9. order \in Surjection(1 .. n, Visible)
  BY <1>2, <1>7, <1>8, FS_Injection DEF n
<1>10. QED BY <1>3, <1>4, <1>6, <1>9 DEF n, Surjection

\* A page of an ordering, and how far it reaches.
LEMMA RowsOf ==
  ASSUME NEW order \in Orderings, NEW limit \in Nat, NEW offset \in Nat
  PROVE  LET rows == RowsAt(order, limit, offset)
             top == IF offset + limit < Len(order) THEN offset + limit ELSE Len(order)
         IN /\ rows \in Seq(Events)
            /\ rows # <<>> => offset + Len(rows) <= Cardinality(Visible)
            /\ \A i \in offset + 1 .. top : order[i] \in ToSet(rows)
<1> DEFINE top == IF offset + limit < Len(order) THEN offset + limit ELSE Len(order)
           rows == RowsAt(order, limit, offset)
           n == Cardinality(Visible)
<1>1. /\ n \in Nat /\ order \in Seq(Events) /\ Len(order) = n
      /\ order \in [1 .. n -> Visible]
  BY OrderingIs, Counted DEF Visible
<1>2. top \in Nat /\ top <= n /\ rows = SubSeq(order, offset + 1, top)
  BY <1>1 DEF RowsAt
<1> HIDE DEF top, rows, n
<1>3. \A i \in offset + 1 .. top : order[i] \in Events
  BY <1>1, <1>2
<1>4. offset + 1 \in Int /\ top \in Int
  BY <1>2
<1>5. /\ SubSeq(order, offset + 1, top) \in Seq(Events)
      /\ Len(SubSeq(order, offset + 1, top))
         = IF offset + 1 <= top THEN top - (offset + 1) + 1 ELSE 0
      /\ \A i \in 1 .. top - (offset + 1) + 1 :
           SubSeq(order, offset + 1, top)[i] = order[(offset + 1) + i - 1]
  BY <1>3, <1>4, SubSeqProperties
<1>6. rows # <<>> => offset + Len(rows) <= n
  BY <1>1, <1>2, <1>5
<1>7. ASSUME NEW i \in offset + 1 .. top PROVE order[i] \in ToSet(rows)
  <2>1. i - offset \in 1 .. top - (offset + 1) + 1 /\ (offset + 1) + (i - offset) - 1 = i
    BY <1>2
  <2>2. rows[i - offset] = order[i]
    BY <1>2, <1>5, <2>1
  <2>3. DOMAIN rows = 1 .. top - (offset + 1) + 1
    BY <1>2, <1>5, <2>1
  <2>4. QED BY <2>1, <2>2, <2>3 DEF ToSet
<1>8. QED BY <1>2, <1>5, <1>6, <1>7 DEF top, rows, n

\* An event alone at its instant has its place after exactly the newer ones.
LEMMA PlaceOf ==
  ASSUME log \in [Events -> Nat \cup {NULL}], NEW order \in Orderings,
         NEW i \in 1 .. Cardinality(Visible), Alone(order[i])
  PROVE  Cardinality(Newer(order[i])) = i - 1
<1> DEFINE n == Cardinality(Visible)
           e == order[i]
           f == [j \in 1 .. (i - 1) |-> order[j]]
<1>1. n \in Nat
  BY Counted DEF Visible
<1>2. /\ order \in [1 .. n -> Visible]
      /\ \A j, k \in 1 .. n : /\ j # k => order[j] # order[k]
                              /\ j < k => log[order[j]] >= log[order[k]]
      /\ \A o \in Visible : \E j \in 1 .. n : order[j] = o
  BY OrderingIs
<1>3. \A o \in Visible : log[o] \in Nat
  BY DEF Visible
<1> HIDE DEF n
<1>4. i \in 1 .. n /\ i - 1 \in Nat
  BY <1>1 DEF n
<1>5. ASSUME NEW j \in 1 .. (i - 1) PROVE order[j] \in Newer(e)
  <2>1. j \in 1 .. n /\ j < i /\ j # i
    BY <1>1, <1>4
  <2>2. order[j] \in Visible \ {e} /\ log[order[j]] >= log[e]
    BY <1>2, <1>4, <2>1
  <2>3. log[order[j]] # log[e]
    BY <2>2 DEF Alone
  <2>4. e \in Visible
    BY <1>2, <1>4
  <2>5. log[order[j]] > log[e]
    BY <1>3, <2>2, <2>3, <2>4
  <2>6. QED BY <2>2, <2>5 DEF Newer, NewerIn
<1>6. ASSUME NEW o \in Newer(e) PROVE \E j \in 1 .. (i - 1) : order[j] = o
  <2>1. o \in Visible /\ log[o] > log[e] /\ e \in Visible
    BY <1>2, <1>4 DEF Newer, NewerIn
  <2>2. PICK j \in 1 .. n : order[j] = o
    BY <1>2, <2>1
  <2>3. ~ (i < j) /\ i # j
    BY <1>2, <1>3, <1>4, <2>1, <2>2
  <2>4. j \in 1 .. (i - 1)
    BY <1>1, <1>4, <2>3
  <2>5. QED BY <2>2, <2>4
<1>7. f \in Bijection(1 .. (i - 1), Newer(e))
  <2>1. f \in [1 .. (i - 1) -> Newer(e)]
    BY <1>5
  <2>2. \A j, k \in 1 .. (i - 1) : f[j] = f[k] => j = k
    BY <1>1, <1>2, <1>4
  <2>3. \A o \in Newer(e) : \E j \in 1 .. (i - 1) : f[j] = o
    BY <1>6
  <2>4. QED BY <2>1, <2>2, <2>3 DEF Bijection, Injection, IsInjective, Surjection
<1>8. IsFiniteSet(1 .. (i - 1)) /\ Cardinality(1 .. (i - 1)) = i - 1
  <2>1. PICK m \in Nat : m = i - 1
    BY <1>4
  <2>2. IsFiniteSet(1 .. m)
    BY <2>1, FS_Interval
  <2>3. Cardinality(1 .. m) = m
    BY <2>1, FS_Interval
  <2>4. QED BY <2>1, <2>2, <2>3
<1>9. QED BY <1>7, <1>8, FS_Bijection DEF ExistsBijection

\* An event that enough newer ones keep off the earlier pages, and that this page
\* does not show either, is kept off it by as many more.
LEMMA NotOnPage ==
  ASSUME log \in [Events -> Nat \cup {NULL}], NEW order \in Orderings,
         NEW limit \in Nat, NEW offset \in Nat, NEW e \in Visible, Alone(e),
         Cardinality(Newer(e)) >= offset, e \notin ToSet(RowsAt(order, limit, offset))
  PROVE  Cardinality(Newer(e)) >= offset + limit
<1> DEFINE n == Cardinality(Visible)
<1>1. n \in Nat /\ Len(order) = n
  BY OrderingIs, Counted DEF Visible
<1>2. PICK i \in 1 .. n : order[i] = e
  BY OrderingIs
<1>3. Cardinality(Newer(e)) = i - 1
  BY <1>2, PlaceOf
<1>4. ~ (i <= offset + limit)
  <2>1. SUFFICES ASSUME i <= offset + limit PROVE FALSE
    OBVIOUS
  <2>2. i \in offset + 1 .. IF offset + limit < Len(order) THEN offset + limit ELSE Len(order)
    <3> HIDE DEF n
    <3>1. QED BY <1>1, <1>3, <2>1
  <2>3. QED BY <1>2, <2>2, RowsOf
<1> HIDE DEF n
<1>5. QED BY <1>1, <1>3, <1>4
-----------------------------------------------------------------------------
(* What the steps of a request do.                                         *)

Asking(by, page, size) ==
    [at |-> 1, status |-> 200, by |-> by, page |-> page, size |-> size,
     rows |-> <<>>, total |-> 0, read |-> {}]

\* A request has two statements, one after the other.
LEMMA Statements ==
  /\ Answered = 3
  /\ \A h \in Handlers : AtStatement(h, "list") => request[h].at = 1
  /\ \A h \in Handlers : AtStatement(h, "count") => request[h].at = 2
<1>1. Answered = 3 /\ DOMAIN Order = 1 .. 2 /\ Order[1] = "list" /\ Order[2] = "count"
  BY DEF Answered, Order
<1>2. QED BY <1>1 DEF AtStatement

\* The fields of a request.  Which sets they come from does not matter.
LEMMA RequestIs ==
  ASSUME NEW q \in Request
  PROVE  /\ q.at \in 0 .. 3 /\ q.status \in {200, 500} /\ q.by \in Readers \cup {NULL}
         /\ q.page \in Nat \ {0} /\ q.page - 1 \in Nat /\ q.size \in Nat \ {0}
         /\ (q.page - 1) * q.size \in Nat
         /\ q.rows \in Seq(Events) /\ q.total \in Nat /\ q.read \in SUBSET Events
<1> DEFINE Places == 0 .. Answered
           error == 500
           Statuses == {200, error}
           Askers == Readers \cup {NULL}
           Pages == Nat \ {0}
           Rows == Seq(Events)
           Reads == SUBSET Events
<1>1. Request = [at : Places, status : Statuses, by : Askers, page : Pages,
                 size : Pages, rows : Rows, total : Nat, read : Reads]
  BY DEF Request
<1>2. /\ q.at \in Places /\ q.status \in Statuses /\ q.by \in Askers
      /\ q.page \in Pages /\ q.size \in Pages
      /\ q.rows \in Rows /\ q.total \in Nat /\ q.read \in Reads
  <2> HIDE DEF Places, error, Statuses, Askers, Pages, Rows, Reads
  <2>1. QED BY <1>1
<1>3. Places = 0 .. 3
  BY Statements
<1>4. q.page - 1 \in Nat /\ q.size \in Nat
  BY <1>2
<1>5. (q.page - 1) * q.size \in Nat
  BY <1>4, Product
<1>6. q.rows \in Seq(Events) /\ q.total \in Nat /\ q.read \in SUBSET Events
  BY <1>2
<1> HIDE DEF Places
<1>7. QED BY <1>2, <1>3, <1>4, <1>5, <1>6

\* A request goes on with what it has read, or ends with an error.
LEMMA RequestGoesOn ==
  ASSUME NEW q \in Request
  PROVE  /\ \A rows \in Seq(Events), read \in SUBSET Events :
              [q EXCEPT !.at = 2, !.rows = rows, !.read = read] \in Request
         /\ \A total \in Nat : [q EXCEPT !.at = 3, !.total = total] \in Request
         /\ [q EXCEPT !.at = 3, !.status = 500] \in Request
<1> DEFINE Places == 0 .. Answered
           error == 500
           Statuses == {200, error}
           Askers == Readers \cup {NULL}
           Pages == Nat \ {0}
           Rows == Seq(Events)
           Reads == SUBSET Events
<1>1. Request = [at : Places, status : Statuses, by : Askers, page : Pages,
                 size : Pages, rows : Rows, total : Nat, read : Reads]
  BY DEF Request
<1>2. 2 \in Places /\ 3 \in Places /\ error \in Statuses
  BY Statements
<1>3. /\ \A rows \in Rows, read \in Reads :
           [q EXCEPT !.at = 2, !.rows = rows, !.read = read] \in Request
      /\ \A total \in Nat : [q EXCEPT !.at = 3, !.total = total] \in Request
      /\ [q EXCEPT !.at = 3, !.status = error] \in Request
  <2> HIDE DEF Places, error, Statuses, Askers, Pages, Rows, Reads
  <2>1. QED BY <1>1, <1>2
<1> HIDE DEF Places, Statuses, Askers, Pages
<1>4. QED BY <1>3

\* What a request has read changes those fields and no other.
LEMMA RequestFields ==
  ASSUME NEW q \in Request
  PROVE  /\ \A rows, read :
              LET p == [q EXCEPT !.at = 2, !.rows = rows, !.read = read]
              IN /\ p.at = 2 /\ p.rows = rows /\ p.read = read
                 /\ p.status = q.status /\ p.by = q.by /\ p.page = q.page /\ p.size = q.size
         /\ \A total : LET p == [q EXCEPT !.at = 3, !.total = total]
              IN /\ p.at = 3 /\ p.total = total
                 /\ p.rows = q.rows /\ p.read = q.read
                 /\ p.status = q.status /\ p.by = q.by /\ p.page = q.page /\ p.size = q.size
         /\ LET p == [q EXCEPT !.at = 3, !.status = 500]
            IN /\ p.at = 3 /\ p.status = 500 /\ p.read = q.read
               /\ p.by = q.by /\ p.page = q.page /\ p.size = q.size
  BY DEF Request

\* A request starts without having read anything.
LEMMA AskIs ==
  ASSUME TypeOK, NEW h \in Handlers, NEW by \in Readers \cup {NULL},
         NEW page \in Int, NEW size \in Int, Ask(h, by, page, size)
  PROVE  /\ Positive(page, 1) \in Nat \ {0} /\ Positive(size, DefaultSize) \in Nat \ {0}
         /\ request' = [request EXCEPT ![h] =
                          Asking(by, Positive(page, 1), Positive(size, DefaultSize))]
         /\ request' \in [Handlers -> Request]
<1>1. Positive(page, 1) \in Nat \ {0} /\ Positive(size, DefaultSize) \in Nat \ {0}
  BY DEF Positive
<1>2. 1 \in 0 .. Answered /\ <<>> \in Seq(Events)
  BY Statements
<1>3. Asking(by, Positive(page, 1), Positive(size, DefaultSize)) \in Request
  BY <1>1, <1>2 DEF Asking, Request
<1>4. request' = [request EXCEPT ![h] =
                    Asking(by, Positive(page, 1), Positive(size, DefaultSize))]
  BY DEF Ask, Asking
<1>5. QED BY <1>1, <1>3, <1>4 DEF TypeOK

\* A page that is listed, or refused.
Listed(h, q, order) ==
    /\ Int32(q.size) \in Nat /\ Offset(q.page, q.size) \in Nat
    /\ request' = [request EXCEPT ![h] =
         [q EXCEPT !.at = 2, !.rows = RowsAt(order, Int32(q.size), Offset(q.page, q.size)),
                   !.read = Visible]]

Refused(h, q) == request' = [request EXCEPT ![h] = [q EXCEPT !.at = 3, !.status = 500]]

\* The first statement of a request.
LEMMA ListIs ==
  ASSUME TypeOK, NEW h \in Handlers, ListAuditEvents(h), NEW q \in Request, q = request[h]
  PROVE  /\ q.at = 1
         /\ (\E order \in Orderings : Listed(h, q, order)) \/ Refused(h, q)
         /\ UNCHANGED <<log, writing, now, view, cache, trail>>
<1>1. q.at = 1 /\ UNCHANGED <<log, writing, now, view, cache, trail>>
  BY Statements DEF ListAuditEvents, logVars, readerVars
<1>2. Int32(q.size) \in Int /\ Offset(q.page, q.size) \in Int
  <2>1. q.size \in Int /\ (q.page - 1) * q.size \in Int
    BY RequestIs
  <2>2. QED BY <2>1, Int32Type DEF Offset
<1>3. PICK S : request \in [Handlers -> S] /\ q.at + 1 = 2
  <2>1. request \in [Handlers -> Request]
    BY DEF TypeOK
  <2>2. QED BY <1>1, <2>1
<1>4. ASSUME Fail(h) PROVE Refused(h, q)
  <2> DEFINE error == 500
  <2>1. request' = [request EXCEPT ![h].at = 3, ![h].status = error]
    BY <1>4, Statements DEF Fail
  <2> HIDE DEF error
  <2>2. request' = [request EXCEPT ![h] = [q EXCEPT !.at = 3, !.status = error]]
    BY ONLY <2>1, <1>3, h \in Handlers, q = request[h]
  <2>3. QED BY <2>2 DEF Refused, error
<1>5. ASSUME NEW order \in Orderings, Int32(q.size) >= 0, Offset(q.page, q.size) >= 0,
             request' = [request EXCEPT ![h].at = @ + 1, ![h].read = Visible,
                           ![h].rows = RowsAt(order, Int32(q.size), Offset(q.page, q.size))]
      PROVE  Listed(h, q, order)
  <2> DEFINE rows == RowsAt(order, Int32(q.size), Offset(q.page, q.size))
             read == Visible
  <2>1. Int32(q.size) \in Nat /\ Offset(q.page, q.size) \in Nat
    BY <1>2, <1>5
  <2>2. request' = [request EXCEPT ![h].at = @ + 1, ![h].read = read, ![h].rows = rows]
    BY <1>5
  <2> HIDE DEF rows, read
  <2>3. request' = [request EXCEPT ![h] = [q EXCEPT !.at = 2, !.rows = rows, !.read = read]]
    BY ONLY <2>2, <1>3, h \in Handlers, q = request[h]
  <2>4. QED BY <2>1, <2>3 DEF Listed, rows, read
<1>6. QED BY <1>1, <1>4, <1>5 DEF ListAuditEvents

\* The second statement.
LEMMA CountIs ==
  ASSUME TypeOK, NEW h \in Handlers, CountAuditEvents(h), NEW q \in Request, q = request[h]
  PROVE  /\ q.at = 2
         /\ \E total \in {Cardinality(Visible), 0} :
              request' = [request EXCEPT ![h] = [q EXCEPT !.at = 3, !.total = total]]
         /\ UNCHANGED <<log, writing, now, view, cache, trail>>
<1>1. q.at = 2 /\ UNCHANGED <<log, writing, now, view, cache, trail>>
  BY Statements DEF CountAuditEvents, logVars, readerVars
<1>2. PICK lookup \in Lookups :
         request' = [request EXCEPT ![h].at = @ + 1,
                        ![h].total = IF lookup = "ok" THEN Cardinality(Visible) ELSE 0]
  BY DEF CountAuditEvents
<1>3. PICK total : total = IF lookup = "ok" THEN Cardinality(Visible) ELSE 0
  OBVIOUS
<1>4. request' = [request EXCEPT ![h].at = @ + 1, ![h].total = total]
  BY <1>2, <1>3
<1>5. PICK S : request \in [Handlers -> S] /\ q.at + 1 = 3
  <2>1. request \in [Handlers -> Request]
    BY DEF TypeOK
  <2>2. QED BY <1>1, <2>1
<1>6. request' = [request EXCEPT ![h] = [q EXCEPT !.at = 3, !.total = total]]
  BY ONLY <1>4, <1>5, h \in Handlers, q = request[h]
<1>7. QED BY <1>1, <1>3, <1>6

\* A page is asked for at most once, by a free handler.
LEMMA ShowIs ==
  ASSUME TypeOK, NEW r \in Readers, NEW key \in Key, Show(r, key)
  PROVE  /\ view' = [view EXCEPT ![r] = key] /\ UNCHANGED <<log, writing, now, cache>>
         /\ request' \in [Handlers -> Request]
         /\ \A h \in Handlers : \/ request'[h] = request[h]
                                \/ request'[h] = Asking(r, key.page, key.size)
<1>1. view' = [view EXCEPT ![r] = key] /\ UNCHANGED <<log, writing, now, cache>>
  BY DEF Show, logVars
<1>2. CASE UNCHANGED request
  BY <1>1, <1>2 DEF TypeOK
<1>3. CASE \E h \in Handlers : Ask(h, r, key.page, key.size)
  <2>1. PICK h \in Handlers : Ask(h, r, key.page, key.size)
    BY <1>3
  <2>2. /\ key.page \in Int /\ key.size \in Int
        /\ Positive(key.page, 1) = key.page /\ Positive(key.size, DefaultSize) = key.size
    BY KeyIs DEF Positive
  <2>3. /\ request' = [request EXCEPT ![h] = Asking(r, key.page, key.size)]
        /\ request' \in [Handlers -> Request]
    BY <2>1, <2>2, AskIs
  <2>4. QED BY <1>1, <2>3 DEF TypeOK
<1>4. QED BY <1>2, <1>3 DEF Show

\* The cache after a page has been stored under its key.
Stored(r, key, x) ==
    /\ \A other \in Readers \ {r} : cache'[other] = cache[other]
    /\ DOMAIN cache' = Readers /\ DOMAIN cache'[r] = DOMAIN cache[r] \cup {key}
    /\ cache'[r][key] = x
    /\ \A k \in DOMAIN cache[r] \ {key} : cache'[r][k] = cache[r][k]

PageOf(q) == [rows |-> q.rows, total |-> q.total, stamp |-> now, read |-> q.read]

\* An answer is stored for the reader who asked, under the key that it asked for.
LEMMA ReceiveIs ==
  ASSUME TypeOK, NEW h \in Handlers, Receive(h), NEW q \in Request, q = request[h]
  PROVE  /\ q.at = 3 /\ q.by \in Readers /\ request' = [request EXCEPT ![h] = NoRequest]
         /\ KeyOf(q) \in Key /\ PageOf(q) \in Page
         /\ UNCHANGED cache \/ (q.status = 200 /\ Stored(q.by, KeyOf(q), PageOf(q)))
         /\ UNCHANGED <<log, writing, now, view, trail>>
<1>1. /\ q.at = 3 /\ q.by \in Readers /\ request' = [request EXCEPT ![h] = NoRequest]
      /\ UNCHANGED <<log, writing, now, view, trail>>
  BY Statements, RequestIs DEF Receive, logVars
<1>2. KeyOf(q) \in Key /\ PageOf(q) \in Page
  <2>1. now \in Nat
    BY DEF TypeOK
  <2>2. KeyOf(q) \in Key
    BY RequestIs DEF KeyOf, Key
  <2>3. PageOf(q) \in Page
    BY <2>1, RequestIs DEF PageOf, Page
  <2>4. QED BY <2>2, <2>3
<1>3. ASSUME q.status # 500 PROVE q.status = 200 /\ Stored(q.by, KeyOf(q), PageOf(q))
  <2>1. q.status = 200
    BY <1>3, RequestIs
  <2>2. PICK r \in Readers, key \in {KeyOf(q)}, x \in {PageOf(q)} :
           r = q.by /\ key = KeyOf(q) /\ x = PageOf(q)
    BY <1>1
  <2>3. cache' = [cache EXCEPT ![r] =
                    [k \in DOMAIN cache[r] \cup {key} |-> IF k = key THEN x ELSE cache[r][k]]]
    BY <1>3, <2>2 DEF Receive, PageOf
  <2>4. DOMAIN cache = Readers
    BY DEF TypeOK
  <2>5. QED BY <2>1, <2>2, <2>3, <2>4 DEF Stored
<1>4. ASSUME q.status = 500 PROVE UNCHANGED cache
  BY <1>4 DEF Receive
<1>5. QED BY <1>1, <1>2, <1>3, <1>4

-----------------------------------------------------------------------------
(* The log only grows.                                                     *)

\* No step but the end of an INSERT changes the log.
LEMMA LogStep ==
  ASSUME TypeOK, [Next]_vars
  PROVE  \/ UNCHANGED log
         \/ \E e \in Events : writing[e] # NULL /\ log' = [log EXCEPT ![e] = writing[e]]
<1>1. ASSUME NEW e \in Events, audit(e)
      PROVE  UNCHANGED log \/ (writing[e] # NULL /\ log' = [log EXCEPT ![e] = writing[e]])
  BY <1>1 DEF audit
<1>2. (\A e \in Events : ~ audit(e)) => UNCHANGED log
  BY DEF Next, vars, logVars, CreateAuditEvent, AskPage, OpenAuditEvents, ChooseSize,
     NextPage, PreviousPage, Reconnect, Show, ListAuditEvents, CountAuditEvents, Receive, Tick
<1>3. QED BY <1>1, <1>2

\* A row that is visible stays as it is.
LEMMA LogGrows ==
  ASSUME TypeOK, RowsStay, [Next]_vars
  PROVE  /\ \A e \in Visible : log'[e] = log[e] /\ e \in Visible'
         /\ \A e \in Visible : Alone(e)' => Alone(e)
<1>1. CASE UNCHANGED log
  BY <1>1 DEF Visible, Alone
<1>2. ASSUME NEW new \in Events, writing[new] # NULL, log' = [log EXCEPT ![new] = writing[new]]
      PROVE  /\ \A e \in Visible : log'[e] = log[e] /\ e \in Visible'
             /\ \A e \in Visible : Alone(e)' => Alone(e)
  <2>1. log[new] = NULL
    BY <1>2 DEF RowsStay
  <2>2. \A e \in Visible : log'[e] = log[e] /\ e \in Visible'
    BY <1>2, <2>1 DEF Visible, TypeOK
  <2>3. QED BY <2>2 DEF Alone
<1>3. QED BY <1>1, <1>2, LogStep

\* What was read earlier is read for good: its events stay ordered as they were.
LEMMA ReadStays ==
  ASSUME TypeOK, RowsStay, [Next]_vars, NEW S \in SUBSET Visible, NEW e \in S
  PROVE  /\ S \subseteq Visible' /\ NewerIn(S, e)' = NewerIn(S, e) /\ (Alone(e)' => Alone(e))
  BY LogGrows DEF NewerIn

\* A page goes on to skip nothing.
LEMMA NoneSkippedStays ==
  ASSUME TypeOK, RowsStay, [Next]_vars, NEW x, x.read \in SUBSET Visible,
         NEW page, NEW size, NoneSkipped(x, page, size)
  PROVE  NoneSkipped(x, page, size)'
<1>1. SUFFICES ASSUME NEW e \in x.read, Alone(e)', e \notin ToSet(x.rows),
                      Cardinality(NewerIn(x.read, e)') >= (page - 1) * size
               PROVE  Cardinality(NewerIn(x.read, e)') >= page * size
  BY DEF NoneSkipped
<1>2. NewerIn(x.read, e)' = NewerIn(x.read, e) /\ Alone(e)
  BY <1>1, ReadStays
<1>3. QED BY <1>1, <1>2 DEF NoneSkipped

\* A walk goes on to miss nothing.
LEMMA WalkStays ==
  ASSUME TypeOK, RowsStay, [Next]_vars, NEW w \in Seq(Page), NEW size, WalkMisses(w, size),
         \A i \in 1 .. Len(w) : w[i].read \in SUBSET Visible
  PROVE  WalkMisses(w, size)'
<1>1. SUFFICES ASSUME NEW i \in 1 .. Len(w),
                      \A j \in 1 .. i - 1 : w[j].read \subseteq w[j + 1].read,
                      NEW e \in w[1].read, Alone(e)',
                      \A j \in 1 .. i : e \notin ToSet(w[j].rows)
               PROVE  e \in w[i].read /\ Cardinality(NewerIn(w[i].read, e)') >= i * size
  BY DEF WalkMisses
<1>2. w[1].read \in SUBSET Visible /\ w[i].read \in SUBSET Visible
  OBVIOUS
<1>3. Alone(e)
  BY <1>1, <1>2, ReadStays
<1>4. e \in w[i].read /\ Cardinality(NewerIn(w[i].read, e)) >= i * size
  BY <1>1, <1>3 DEF WalkMisses
<1>5. NewerIn(w[i].read, e)' = NewerIn(w[i].read, e)
  BY <1>2, <1>4, ReadStays
<1>6. QED BY <1>4, <1>5

-----------------------------------------------------------------------------
(* The pages of a walk.                                                    *)

\* The first page of a walk is the next one after none.
LEMMA EmptyWalk ==
  ASSUME NEW size
  PROVE  WalkMisses(<<>>, size) /\ <<>> \in Seq(Page) /\ Len(<<>>) = 0
  BY DEF WalkMisses

\* A walk goes on with a page that skips nothing.
LEMMA WalkExtends ==
  ASSUME NEW w \in Seq(Page), NEW x \in Page, NEW size \in Nat \ {0},
         WalkMisses(w, size), NoneSkipped(x, Len(w) + 1, size)
  PROVE  WalkMisses(Append(w, x), size)
<1> DEFINE v == Append(w, x)
           n == Len(w)
<1>1. /\ n \in Nat /\ v \in Seq(Page) /\ Len(v) = n + 1 /\ v[n + 1] = x
      /\ \A j \in 1 .. n : v[j] = w[j]
  OBVIOUS
<1>2. x.read \in SUBSET Events /\ \A j \in 1 .. n : w[j].read \in SUBSET Events
  <2>1. \A y \in Page : y.read \in SUBSET Events
    BY DEF Page
  <2>2. \A j \in 1 .. n : w[j] \in Page
    OBVIOUS
  <2>3. QED BY <2>1, <2>2
<1> HIDE DEF v, n
<1>3. SUFFICES ASSUME NEW i \in 1 .. n + 1,
                      \A j \in 1 .. i - 1 : v[j].read \subseteq v[j + 1].read,
                      NEW e \in v[1].read, Alone(e),
                      \A j \in 1 .. i : e \notin ToSet(v[j].rows)
               PROVE  e \in v[i].read /\ Cardinality(NewerIn(v[i].read, e)) >= i * size
  BY <1>1 DEF WalkMisses, v
<1>4. CASE i <= n
  <2>1. i \in 1 .. n /\ 1 \in 1 .. n /\ \A j \in 1 .. i - 1 : j \in 1 .. n /\ j + 1 \in 1 .. n
    BY <1>1, <1>4
  <2>2. \A j \in 1 .. i - 1 : w[j].read \subseteq w[j + 1].read
    BY <1>1, <1>3, <2>1
  <2>3. e \in w[1].read /\ \A j \in 1 .. i : j \in 1 .. n /\ e \notin ToSet(w[j].rows)
    BY <1>1, <1>3, <1>4, <2>1
  <2>4. e \in w[i].read /\ Cardinality(NewerIn(w[i].read, e)) >= i * size
    BY <1>3, <2>1, <2>2, <2>3 DEF WalkMisses, n
  <2>5. QED BY <1>1, <2>1, <2>4
<1>5. CASE i = n + 1
  <2>1. e \notin ToSet(x.rows) /\ n + 1 - 1 = n
    BY <1>1, <1>3, <1>5
  <2>2. e \in x.read /\ Cardinality(NewerIn(x.read, e)) >= n * size
    <3>1. CASE n = 0
      <4>1. e \in x.read
        BY <1>1, <1>3, <3>1
      <4>2. NewerIn(x.read, e) \in SUBSET Events
        BY <1>2 DEF NewerIn
      <4>3. Cardinality(NewerIn(x.read, e)) \in Nat
        BY <4>2, Counted
      <4>4. QED BY <3>1, <4>1, <4>3
    <3>2. CASE n # 0
      <4>1. n \in 1 .. n /\ 1 \in 1 .. n /\ n = i - 1
        <5>1. n \in Nat
          BY <1>1
        <5>2. QED BY <1>5, <3>2, <5>1
      <4>2. \A j \in 1 .. n - 1 : /\ j \in 1 .. n /\ j + 1 \in 1 .. n
                                  /\ w[j].read \subseteq w[j + 1].read
        BY <1>1, <1>3, <4>1
      <4>3. e \in w[1].read /\ \A j \in 1 .. n : e \notin ToSet(w[j].rows)
        BY <1>1, <1>3, <1>5, <4>1
      <4>4. e \in w[n].read /\ Cardinality(NewerIn(w[n].read, e)) >= n * size
        BY <1>3, <4>1, <4>2, <4>3 DEF WalkMisses, n
      <4>5. w[n].read \subseteq x.read
        BY <1>1, <1>3, <4>1
      <4>6. NewerIn(w[n].read, e) \in SUBSET NewerIn(x.read, e) /\ NewerIn(x.read, e) \in SUBSET Events
        BY <1>2, <4>5 DEF NewerIn
      <4>7. Cardinality(NewerIn(w[n].read, e)) <= Cardinality(NewerIn(x.read, e))
        BY <4>6, Counted, FS_Subset
      <4>8. /\ Cardinality(NewerIn(w[n].read, e)) \in Nat
            /\ Cardinality(NewerIn(x.read, e)) \in Nat
        <5>1. NewerIn(w[n].read, e) \in SUBSET Events
          BY <4>6
        <5>2. QED BY <4>6, <5>1, Counted
      <4>9. n * size \in Nat
        BY <1>1, Product
      <4>10. QED BY <4>4, <4>5, <4>7, <4>8, <4>9
    <3>3. QED BY <3>1, <3>2
  <2>3. Cardinality(NewerIn(x.read, e)) >= (n + 1) * size
    BY <1>3, <2>1, <2>2 DEF NoneSkipped, n
  <2>4. QED BY <1>1, <1>5, <2>2, <2>3
<1>6. QED BY <1>1, <1>4, <1>5

\* A walk that goes back a page has missed nothing up to there.
LEMMA WalkGoesBack ==
  ASSUME NEW w \in Seq(Page), Len(w) > 0, NEW size, WalkMisses(w, size)
  PROVE  /\ WalkMisses(Front(w), size) /\ Front(w) \in Seq(Page)
         /\ Len(Front(w)) = Len(w) - 1
         /\ \A i \in 1 .. Len(w) - 1 : Front(w)[i] = w[i]
<1>1. PICK n \in Nat : n = Len(w) - 1 /\ Front(w) = SubSeq(w, 1, n)
  BY DEF Front
<1>2. /\ Front(w) \in Seq(Page) /\ Len(Front(w)) = n
      /\ \A i \in 1 .. n : Front(w)[i] = w[i]
  <2>1. \A i \in 1 .. n : w[i] \in Page
    BY <1>1
  <2>2. 1 \in Int /\ n \in Int
    OBVIOUS
  <2>3. /\ SubSeq(w, 1, n) \in Seq(Page)
        /\ Len(SubSeq(w, 1, n)) = IF 1 <= n THEN n - 1 + 1 ELSE 0
        /\ \A i \in 1 .. n - 1 + 1 : SubSeq(w, 1, n)[i] = w[1 + i - 1]
    BY <2>1, <2>2, SubSeqProperties
  <2>4. \A i \in 1 .. n : i \in 1 .. n - 1 + 1 /\ 1 + i - 1 = i
    OBVIOUS
  <2>5. (IF 1 <= n THEN n - 1 + 1 ELSE 0) = n
    OBVIOUS
  <2>6. QED BY <1>1, <2>3, <2>4, <2>5
<1>3. WalkMisses(Front(w), size)
  <2>1. SUFFICES ASSUME NEW i \in 1 .. n,
                        \A j \in 1 .. i - 1 : Front(w)[j].read \subseteq Front(w)[j + 1].read,
                        NEW e \in Front(w)[1].read, Alone(e),
                        \A j \in 1 .. i : e \notin ToSet(Front(w)[j].rows)
                 PROVE  /\ e \in Front(w)[i].read
                        /\ Cardinality(NewerIn(Front(w)[i].read, e)) >= i * size
    BY <1>2 DEF WalkMisses
  <2>2. /\ \A j \in 1 .. i - 1 : j \in 1 .. n /\ j + 1 \in 1 .. n
        /\ \A j \in 1 .. i : j \in 1 .. n
        /\ 1 \in 1 .. n /\ i \in 1 .. Len(w)
    BY <1>1
  <2>3. /\ \A j \in 1 .. i - 1 : w[j].read \subseteq w[j + 1].read
        /\ e \in w[1].read /\ \A j \in 1 .. i : e \notin ToSet(w[j].rows)
    BY <1>2, <2>1, <2>2
  <2>4. Front(w)[i] = w[i]
    BY <1>2
  <2>5. QED BY <2>1, <2>2, <2>3, <2>4 DEF WalkMisses
<1>4. QED BY <1>1, <1>2, <1>3

-----------------------------------------------------------------------------
(* What a reader does.                                                     *)

ReaderStep(r) ==
    \/ OpenAuditEvents(r) \/ NextPage(r) \/ PreviousPage(r) \/ Reconnect(r)
    \/ \E size \in PageSizes : ChooseSize(r, size)

\* A reader goes on to a page behind the pages of a walk.
Turns(r, key, w) ==
    /\ Show(r, key) /\ trail' = [trail EXCEPT ![r] = w]
    /\ key.size \in PageSizes /\ Fits(key)
    /\ Len(w) = key.page - 1 /\ WalkMisses(w, key.size)
    /\ \A i \in 1 .. Len(w) : w[i].read \in SUBSET Visible

\* Page 1 is behind none.
LEMMA FirstPage ==
  ASSUME NEW r \in Readers, NEW size \in PageSizes, NEW key, key = [page |-> 1, size |-> size],
         Show(r, key), trail' = [trail EXCEPT ![r] = <<>>]
  PROVE  key \in Key /\ Turns(r, key, <<>>)
<1>1. size \in Nat \ {0} /\ (1 - 1) * size = 0 /\ 0 < Half
  BY FS_CardinalityType
<1>2. key \in Key
  BY <1>1 DEF Key
<1>3. QED BY <1>1, <1>2, EmptyWalk DEF Turns, Fits

\* What the screen shows when there is a next page.
LEMMA ShownPage ==
  ASSUME AuditInv, NEW r \in Readers, NEW key \in Key, view[r] = key, TotalShown(r) # 0
  PROVE  /\ key \in DOMAIN cache[r] /\ cache[r][key] \in Page
         /\ TotalShown(r) = cache[r][key].total
         /\ NoneSkipped(cache[r][key], key.page, key.size) /\ TotalCounts(cache[r][key])
         /\ cache[r][key].read \in SUBSET Visible
<1>1. key \in DOMAIN cache[r] /\ TotalShown(r) = cache[r][key].total
  BY DEF TotalShown, Known
<1>2. QED BY <1>1 DEF AuditInv, TypeOK, CacheSound, RowsStay

\* Every step of a reader goes on in that way.
LEMMA TurnIs ==
  ASSUME AuditInv, NEW r \in Readers, ReaderStep(r)
  PROVE  \E key \in Key, w \in Seq(Page) : Turns(r, key, w)
<1>1. view[r] \in Key \cup {NULL}
  BY DEF AuditInv, TypeOK
<1> PICK pages \in Seq(Page) : pages = trail[r]
  BY DEF AuditInv, TypeOK
<1>2. CASE OpenAuditEvents(r)
  BY <1>2, FirstPage, EmptyWalk DEF OpenAuditEvents
<1>3. ASSUME NEW size \in PageSizes, ChooseSize(r, size)
      PROVE  \E key \in Key, w \in Seq(Page) : Turns(r, key, w)
  BY <1>3, FirstPage, EmptyWalk DEF ChooseSize
<1>4. ASSUME NEW key \in Key, key = view[r], view[r] # NULL
      PROVE  /\ key.size \in PageSizes /\ Fits(key)
             /\ Len(pages) = key.page - 1 /\ WalkMisses(pages, key.size)
             /\ \A i \in 1 .. Len(pages) : pages[i].read \in SUBSET Visible
  BY <1>4 DEF AuditInv, TrailsSound, RowsStay
<1>5. CASE NextPage(r)
  <2>1. PICK key \in Key : key = view[r] /\ view[r] # NULL
    BY <1>1, <1>5 DEF NextPage
  <2>2. key.page * key.size < TotalShown(r) /\ TotalShown(r) \in Nat
    BY <1>5, <2>1, LastPageIs DEF NextPage, AuditInv
  <2>3. /\ key.page \in Nat \ {0} /\ key.page - 1 \in Nat /\ key.size \in Nat \ {0}
        /\ key.page * key.size \in Nat
    BY KeyIs, Product
  <2>4. TotalShown(r) # 0
    BY <2>2, <2>3
  <2>5. PICK x \in Page : /\ x = cache[r][view[r]] /\ x.total = TotalShown(r)
                          /\ NoneSkipped(x, key.page, key.size) /\ TotalCounts(x)
                          /\ x.read \in SUBSET Visible
    BY <2>1, <2>4, ShownPage
  <2>6. PICK next \in Key : /\ next = [key EXCEPT !.page = key.page + 1]
                            /\ next.page = key.page + 1 /\ next.size = key.size
    <3>1. key.page + 1 \in Nat \ {0}
      BY <2>3
    <3>2. QED BY <3>1, KeyTurned
  <2>7. PICK w \in Seq(Page) : w = Append(pages, x)
    <3>1. \A y \in Seq(Page) : Append(y, x) \in Seq(Page)
      OBVIOUS
    <3>2. QED BY <3>1
  <2>8. Show(r, next) /\ trail' = [trail EXCEPT ![r] = w]
    BY <1>5, <2>1, <2>5, <2>6, <2>7 DEF NextPage
  <2>9. Fits(next)
    <3>1. PICK m \in Nat : m = key.page * key.size
      BY <2>3
    <3>2. m < Half
      BY <2>2, <2>4, <2>5, <3>1 DEF TotalCounts
    <3>3. next.page - 1 = key.page
      BY <2>3, <2>6
    <3>4. QED BY <2>6, <3>1, <3>2, <3>3 DEF Fits
  <2>10. Len(pages) + 1 = key.page /\ WalkMisses(pages, key.size)
    <3>1. Len(pages) = key.page - 1 /\ WalkMisses(pages, key.size)
      BY <1>4, <2>1
    <3>2. QED BY <2>3, <3>1
  <2>11. WalkMisses(w, next.size)
    BY <1>1, <2>3, <2>5, <2>6, <2>7, <2>10, WalkExtends
  <2>12. Len(w) = next.page - 1 /\ \A i \in 1 .. Len(w) : w[i].read \in SUBSET Visible
    <3>1. \A i \in 1 .. Len(pages) : pages[i].read \in SUBSET Visible
      BY <1>4, <2>1
    <3>2. /\ Len(w) = Len(pages) + 1 /\ Len(pages) \in Nat
          /\ \A i \in 1 .. Len(pages) : w[i] = pages[i]
          /\ w[Len(pages) + 1] = x
      BY <1>1, <2>7
    <3>3. \A i \in 1 .. Len(w) : i \in 1 .. Len(pages) \/ i = Len(pages) + 1
      BY <3>2
    <3>4. Len(w) = next.page - 1
      BY <2>3, <2>6, <2>10, <3>2
    <3>5. \A i \in 1 .. Len(w) : w[i].read \in SUBSET Visible
      BY <2>5, <3>1, <3>2, <3>3
    <3>6. QED BY <3>4, <3>5
  <2>13. QED BY <1>4, <2>1, <2>6, <2>8, <2>9, <2>11, <2>12 DEF Turns
<1>6. CASE PreviousPage(r)
  <2>1. PICK key \in Key : key = view[r] /\ view[r] # NULL /\ key.page > 1
    BY <1>1, <1>6 DEF PreviousPage
  <2>2. key.page \in Nat \ {0} /\ key.page - 1 \in Nat \ {0} /\ key.size \in Nat \ {0}
    BY <2>1, KeyIs
  <2>3. PICK next \in Key : /\ next = [key EXCEPT !.page = key.page - 1]
                            /\ next.page = key.page - 1 /\ next.size = key.size
    BY <2>2, KeyTurned
  <2>4. /\ Len(pages) = key.page - 1 /\ WalkMisses(pages, key.size)
        /\ \A i \in 1 .. Len(pages) : pages[i].read \in SUBSET Visible
    BY <1>4, <2>1
  <2>5. PICK w \in Seq(Page) : /\ w = Front(pages) /\ WalkMisses(w, key.size)
                               /\ Len(w) = Len(pages) - 1
                               /\ \A i \in 1 .. Len(pages) - 1 : w[i] = pages[i]
    <3>1. Len(pages) > 0
      BY <2>2, <2>4
    <3>2. QED BY <2>4, <3>1, WalkGoesBack
  <2>6. Show(r, next) /\ trail' = [trail EXCEPT ![r] = w]
    BY <1>6, <2>1, <2>3, <2>5 DEF PreviousPage
  <2>7. Fits(next)
    <3>1. /\ next.page - 1 \in Nat /\ key.page - 1 \in Nat /\ next.page - 1 <= key.page - 1
          /\ key.size \in Nat
      <4>1. key.page \in Nat /\ key.page > 1 /\ key.size \in Nat
        BY <2>1, <2>2
      <4>2. next.page = key.page - 1
        BY <2>3
      <4>3. QED BY <4>1, <4>2
    <3>2. /\ (next.page - 1) * key.size <= (key.page - 1) * key.size
          /\ (next.page - 1) * key.size \in Nat /\ (key.page - 1) * key.size \in Nat
      BY <3>1, Product
    <3>3. QED BY <1>4, <2>1, <2>3, <3>2 DEF Fits
  <2>8. Len(w) = next.page - 1 /\ \A i \in 1 .. Len(w) : w[i].read \in SUBSET Visible
    <3>1. PICK n \in Nat : n = Len(pages)
      OBVIOUS
    <3>2. Len(w) = next.page - 1 /\ \A i \in 1 .. n - 1 : i \in 1 .. n
      BY <2>2, <2>3, <2>4, <2>5
    <3>3. \A i \in 1 .. Len(w) : w[i] = pages[i] /\ pages[i].read \in SUBSET Visible
      BY <2>4, <2>5, <3>1, <3>2
    <3>4. QED BY <3>2, <3>3
  <2>9. next.size \in PageSizes
    BY <1>4, <2>1, <2>3
  <2>10. QED BY <2>3, <2>5, <2>6, <2>7, <2>8, <2>9 DEF Turns
<1>7. CASE Reconnect(r)
  <2>1. PICK key \in Key : key = view[r] /\ view[r] # NULL
    BY <1>1, <1>7 DEF Reconnect
  <2>2. Show(r, key) /\ trail' = [trail EXCEPT ![r] = pages]
    BY <1>7, <2>1 DEF Reconnect, AuditInv, TypeOK
  <2>3. QED BY <1>4, <2>1, <2>2 DEF Turns
<1>8. QED BY <1>2, <1>3, <1>5, <1>6, <1>7 DEF ReaderStep

\* A turn of one reader, and what it leaves to the others.
LEMMA TurnType ==
  ASSUME AuditInv, NEW r \in Readers, NEW key \in Key, NEW w \in Seq(Page), Turns(r, key, w)
  PROVE  /\ TypeOK'
         /\ view'[r] = key /\ trail'[r] = w
         /\ \A other \in Readers \ {r} : view'[other] = view[other] /\ trail'[other] = trail[other]
<1>1. /\ view' = [view EXCEPT ![r] = key] /\ trail' = [trail EXCEPT ![r] = w]
      /\ UNCHANGED <<log, writing, now, cache>> /\ request' \in [Handlers -> Request]
  BY ShowIs DEF Turns, AuditInv
<1>2. view' \in [Readers -> Key \cup {NULL}] /\ trail' \in [Readers -> Seq(Page)]
  BY <1>1 DEF AuditInv, TypeOK
<1>3. TypeOK'
  BY <1>1, <1>2 DEF AuditInv, TypeOK
<1>4. QED BY <1>1, <1>3 DEF AuditInv, TypeOK

-----------------------------------------------------------------------------
(* What one step does to one request.                                      *)

\* A request q becomes p.
Begins(p) ==
    /\ p.at \in {0, 1} /\ p.read = {}
    /\ p.by # NULL => p.size \in PageSizes /\ Fits(p)

Ends(q, p) ==
    /\ p.at = 3 /\ p.status = 500 /\ p.read = q.read
    /\ p.by = q.by /\ p.page = q.page /\ p.size = q.size

Lists(q, p) ==
    /\ q.at = 1 /\ UNCHANGED log
    /\ Int32(q.size) \in Nat /\ Offset(q.page, q.size) \in Nat
    /\ \E order \in Orderings :
         p = [q EXCEPT !.at = 2, !.rows = RowsAt(order, Int32(q.size), Offset(q.page, q.size)),
                       !.read = Visible]

Counts(q, p) ==
    /\ q.at = 2 /\ UNCHANGED log
    /\ \E total \in {Cardinality(Visible), 0} : p = [q EXCEPT !.at = 3, !.total = total]

Becomes(q, p) == p = q \/ Begins(p) \/ Ends(q, p) \/ Lists(q, p) \/ Counts(q, p)

\* Who asks for a page that fits begins.
LEMMA AskingBegins ==
  ASSUME NEW by \in Readers \cup {NULL}, NEW page, NEW size,
         by # NULL => size \in PageSizes /\ (page - 1) * size < Half
  PROVE  Begins(Asking(by, page, size))
  BY DEF Begins, Asking, Fits

\* Every step takes every request on in one of these ways.
LEMMA RequestStep ==
  ASSUME AuditInv, [Next]_vars
  PROVE  /\ request' \in [Handlers -> Request]
         /\ \A h \in Handlers : Becomes(request[h], request'[h])
<1>1. TypeOK /\ request \in [Handlers -> Request] /\ \A h \in Handlers : request[h] \in Request
  BY DEF AuditInv, TypeOK
<1>2. CASE UNCHANGED request
  BY <1>1, <1>2 DEF Becomes
<1>3. ASSUME NEW h \in Handlers, NEW page \in AskedPages, NEW size \in AskedSizes,
             AskPage(h, page, size)
      PROVE  /\ request' \in [Handlers -> Request]
             /\ \A g \in Handlers : Becomes(request[g], request'[g])
  <2>1. PICK first \in Nat \ {0}, most \in Nat \ {0} :
           /\ request' = [request EXCEPT ![h] = Asking(NULL, first, most)]
           /\ request' \in [Handlers -> Request]
    BY <1>1, <1>3, AskIs DEF AskPage
  <2>2. Begins(Asking(NULL, first, most))
    BY AskingBegins
  <2>3. QED BY <1>1, <2>1, <2>2 DEF Becomes
<1>4. ASSUME NEW r \in Readers, ReaderStep(r)
      PROVE  /\ request' \in [Handlers -> Request]
             /\ \A g \in Handlers : Becomes(request[g], request'[g])
  <2>1. PICK key \in Key, w \in Seq(Page) : Turns(r, key, w)
    BY <1>4, TurnIs
  <2>2. Begins(Asking(r, key.page, key.size))
    BY <2>1, AskingBegins DEF Turns, Fits
  <2>3. QED BY <1>1, <2>1, <2>2, ShowIs DEF Turns, Becomes
<1>5. ASSUME NEW h \in Handlers, ListAuditEvents(h)
      PROVE  /\ request' \in [Handlers -> Request]
             /\ \A g \in Handlers : Becomes(request[g], request'[g])
  <2>1. PICK q \in Request : q = request[h]
    BY <1>1
  <2>2. /\ q.at = 1 /\ UNCHANGED log
        /\ (\E order \in Orderings : Listed(h, q, order)) \/ Refused(h, q)
    BY <1>1, <1>5, <2>1, ListIs
  <2>3. PICK p \in Request : /\ request' = [request EXCEPT ![h] = p]
                             /\ Lists(q, p) \/ Ends(q, p)
    <3>1. CASE Refused(h, q)
      <4>1. PICK p \in Request : p = [q EXCEPT !.at = 3, !.status = 500]
        BY RequestGoesOn
      <4>2. Ends(q, p)
        BY <4>1, RequestFields DEF Ends
      <4>3. QED BY <3>1, <4>1, <4>2 DEF Refused
    <3>2. ASSUME NEW order \in Orderings, Listed(h, q, order)
          PROVE  \E p \in Request : request' = [request EXCEPT ![h] = p] /\ Lists(q, p)
      <4>1. PICK rows \in Seq(Events) :
              rows = RowsAt(order, Int32(q.size), Offset(q.page, q.size))
        BY <3>2, RowsOf DEF Listed
      <4>2. Visible \in SUBSET Events
        BY DEF Visible
      <4>3. [q EXCEPT !.at = 2, !.rows = rows, !.read = Visible] \in Request
        BY <4>2, RequestGoesOn
      <4>4. QED BY <2>2, <3>2, <4>1, <4>3 DEF Listed, Lists
    <3>3. QED BY <2>2, <3>1, <3>2
  <2>4. QED BY <1>1, <2>1, <2>3 DEF Becomes
<1>6. ASSUME NEW h \in Handlers, CountAuditEvents(h)
      PROVE  /\ request' \in [Handlers -> Request]
             /\ \A g \in Handlers : Becomes(request[g], request'[g])
  <2>1. PICK q \in Request : q = request[h]
    BY <1>1
  <2>2. q.at = 2 /\ UNCHANGED log
    BY <1>1, <1>6, <2>1, CountIs
  <2>3. PICK total \in {Cardinality(Visible), 0} :
           request' = [request EXCEPT ![h] = [q EXCEPT !.at = 3, !.total = total]]
    BY <1>1, <1>6, <2>1, CountIs
  <2>4. total \in Nat
    BY Counted DEF Visible
  <2>5. [q EXCEPT !.at = 3, !.total = total] \in Request
    BY <2>4, RequestGoesOn
  <2>6. Counts(q, [q EXCEPT !.at = 3, !.total = total])
    BY <2>2 DEF Counts
  <2>7. QED BY <1>1, <2>1, <2>3, <2>5, <2>6 DEF Becomes
<1>7. ASSUME NEW h \in Handlers, Receive(h)
      PROVE  /\ request' \in [Handlers -> Request]
             /\ \A g \in Handlers : Becomes(request[g], request'[g])
  <2>1. request' = [request EXCEPT ![h] = NoRequest]
    BY <1>7 DEF Receive
  <2>2. NoRequest \in Request /\ Begins(NoRequest)
    <3>1. 0 \in 0 .. Answered /\ <<>> \in Seq(Events) /\ DefaultSize \in Nat \ {0}
      BY Statements
    <3>2. NoRequest \in Request
      BY <3>1 DEF NoRequest, Request
    <3>3. QED BY <3>2 DEF NoRequest, Begins
  <2>3. QED BY <1>1, <2>1, <2>2 DEF Becomes
<1>8. QED
  BY <1>2, <1>3, <1>4, <1>5, <1>6, <1>7
     DEF Next, vars, ReaderStep, CreateAuditEvent, audit, Tick

\* A page whose keys fit is one that skips nothing.
LEMMA PageIsSound ==
  ASSUME AuditInv, NEW q \in Request, NEW p \in Request, Sound(q), Lists(q, p)
  PROVE  p.read = Visible /\ Sound(p)
<1>1. PICK order \in Orderings :
        p = [q EXCEPT !.at = 2, !.rows = RowsAt(order, Int32(q.size), Offset(q.page, q.size)),
                      !.read = Visible]
  BY DEF Lists
<1>2. PICK rows : rows = RowsAt(order, Int32(q.size), Offset(q.page, q.size))
  OBVIOUS
<1>3. /\ p.at = 2 /\ p.rows = rows /\ p.read = Visible
      /\ p.status = q.status /\ p.by = q.by /\ p.page = q.page /\ p.size = q.size
  <2>1. p = [q EXCEPT !.at = 2, !.rows = rows, !.read = Visible]
    BY <1>1, <1>2
  <2>2. QED BY <2>1, RequestFields
<1>4. q.size \in Nat /\ q.page \in Nat /\ (q.page - 1) * q.size \in Nat
      /\ q.page * q.size = (q.page - 1) * q.size + q.size
  <2>1. q.size \in Nat /\ q.page - 1 \in Nat /\ q.page \in Nat
    BY RequestIs
  <2>2. (q.page - 1) + 1 = q.page
    BY <2>1
  <2>3. QED BY <2>1, <2>2, Product
<1>5. ASSUME Fits(q) PROVE Offset(q.page, q.size) = (q.page - 1) * q.size
  BY <1>4, <1>5, Int32Fits DEF Offset, Fits
<1>6. ASSUME Fits(p), p.rows # <<>>
      PROVE  (p.page - 1) * p.size + Len(p.rows) <= Cardinality(p.read)
  <2>1. Fits(q)
    BY <1>3, <1>6 DEF Fits
  <2>2. Offset(q.page, q.size) + Len(rows) <= Cardinality(Visible)
    BY <1>2, <1>3, <1>6, RowsOf DEF Lists
  <2>3. QED BY <1>3, <1>5, <2>1, <2>2
<1>7. ASSUME Fits(p), p.size < Half PROVE NoneSkipped(p, p.page, p.size)
  <2>1. Int32(q.size) = q.size /\ Offset(q.page, q.size) = (q.page - 1) * q.size
    BY <1>3, <1>4, <1>5, <1>7, Int32Fits DEF Fits
  <2>2. ASSUME NEW e \in Visible, Alone(e), e \notin ToSet(rows),
               Cardinality(Newer(e)) >= (q.page - 1) * q.size
        PROVE  Cardinality(Newer(e)) >= q.page * q.size
    <3>1. Cardinality(Newer(e)) >= Offset(q.page, q.size) + Int32(q.size)
      BY <1>2, <1>4, <2>1, <2>2, NotOnPage DEF AuditInv, TypeOK
    <3>2. QED BY <1>4, <2>1, <3>1
  <2>3. QED BY <1>3, <2>2 DEF NoneSkipped, Newer
<1>8. Fits(p) = Fits(q)
  BY <1>3 DEF Fits
<1>9. QED BY <1>3, <1>6, <1>7, <1>8 DEF Sound

\* The total counts what the page was chosen from, and what came since.
LEMMA TotalIsSound ==
  ASSUME AuditInv, NEW q \in Request, NEW p \in Request, Sound(q), Counts(q, p),
         q.read \in SUBSET Visible
  PROVE  p.read = q.read /\ Sound(p)
<1>1. PICK total \in {Cardinality(Visible), 0} : p = [q EXCEPT !.at = 3, !.total = total]
  BY DEF Counts
<1>2. /\ p.at = 3 /\ p.rows = q.rows /\ p.read = q.read /\ p.total = total /\ q.at = 2
      /\ p.status = q.status /\ p.by = q.by /\ p.page = q.page /\ p.size = q.size
  <2>1. p = [q EXCEPT !.at = 3, !.total = total] /\ q.at = 2
    BY <1>1 DEF Counts
  <2>2. QED BY <2>1, RequestFields
<1>3. TotalCounts(p)
  <2>1. Visible \in SUBSET Events
    BY DEF Visible
  <2>2. Cardinality(q.read) <= Cardinality(Visible) /\ Cardinality(Visible) < Half
    BY <2>1, Counted, FS_Subset
  <2>3. QED BY <1>1, <1>2, <2>2 DEF TotalCounts
<1>4. Fits(p) = Fits(q)
  BY <1>2 DEF Fits
<1>5. NoneSkipped(q, q.page, q.size) => NoneSkipped(p, p.page, p.size)
  BY <1>2 DEF NoneSkipped
<1>6. QED BY <1>2, <1>3, <1>4, <1>5 DEF Sound

\* What a request has read stays sound while it is left alone.
LEMMA SoundStays ==
  ASSUME AuditInv, [Next]_vars, NEW q \in Request, Sound(q), q.read \in SUBSET Visible
  PROVE  q.read \in SUBSET Visible' /\ Sound(q)'
<1>1. TypeOK /\ RowsStay
  BY DEF AuditInv
<1>2. q.read \in SUBSET Visible'
  BY <1>1, LogGrows
<1>3. NoneSkipped(q, q.page, q.size) => NoneSkipped(q, q.page, q.size)'
  BY <1>1, NoneSkippedStays
<1>4. QED BY <1>2, <1>3 DEF Sound, Fits, TotalCounts

\* Each request goes on to be sound.
LEMMA BecomesSound ==
  ASSUME AuditInv, [Next]_vars, NEW q \in Request, NEW p \in Request,
         Sound(q), q.read \in SUBSET Visible, Becomes(q, p)
  PROVE  p.read \in SUBSET Visible' /\ Sound(p)'
<1>1. q.read \in SUBSET Visible'
  BY SoundStays
<1>2. CASE p = q
  BY <1>2, SoundStays
<1>3. CASE Begins(p)
  BY <1>3 DEF Begins, Sound, Fits
<1>4. CASE Ends(q, p)
  BY <1>1, <1>4 DEF Ends, Sound, Fits
<1>5. CASE Lists(q, p) \/ Counts(q, p)
  <2>1. UNCHANGED log
    BY <1>5 DEF Lists, Counts
  <2>2. p.read \in SUBSET Visible /\ Sound(p)
    BY <1>5, PageIsSound, TotalIsSound
  <2>3. Visible' = Visible
    BY <2>1 DEF Visible
  <2>4. Sound(p)' = Sound(p)
    BY <2>1 DEF Sound, Fits, NoneSkipped, TotalCounts, NewerIn, Alone, Visible
  <2>5. QED BY <2>2, <2>3, <2>4
<1>6. QED BY <1>2, <1>3, <1>4, <1>5 DEF Becomes

-----------------------------------------------------------------------------
(* The invariant.                                                          *)

LEMMA InitAudit == Init => AuditInv
<1> SUFFICES ASSUME Init PROVE AuditInv
  OBVIOUS
<1>1. NoRequest \in Request
  <2>1. 0 \in 0 .. Answered /\ <<>> \in Seq(Events) /\ DefaultSize \in Nat \ {0}
    BY Statements
  <2>2. QED BY <2>1 DEF NoRequest, Request
<1>2. \A r \in Readers : DOMAIN cache[r] = {} /\ Len(trail[r]) = 0 /\ view[r] = NULL
  BY DEF Init
<1>3. TypeOK
  BY <1>1, <1>2, EmptyWalk DEF Init, TypeOK
<1>4. RowsStay
  BY <1>2 DEF Init, NoRequest, RowsStay
<1>5. RequestsSound
  BY DEF Init, NoRequest, RequestsSound, Sound
<1>6. CacheSound /\ TrailsSound
  BY <1>2 DEF CacheSound, TrailsSound
<1>7. QED BY <1>3, <1>4, <1>5, <1>6 DEF AuditInv

\* What a step does to what the readers have read and where they are.
LEMMA CacheStep ==
  ASSUME AuditInv, [Next]_vars
  PROVE  \/ UNCHANGED cache
         \/ /\ \E h \in Handlers, q \in Request :
                 /\ q = request[h] /\ q.at = 3 /\ q.status = 200 /\ q.by \in Readers
                 /\ KeyOf(q) \in Key /\ PageOf(q) \in Page
                 /\ Stored(q.by, KeyOf(q), PageOf(q))
            /\ UNCHANGED <<log, writing, now, view, trail>>
<1>1. TypeOK /\ \A h \in Handlers : request[h] \in Request
  BY DEF AuditInv, TypeOK
<1>2. ASSUME NEW h \in Handlers, Receive(h)
      PROVE  \/ UNCHANGED cache
             \/ /\ \E q \in Request :
                     /\ q = request[h] /\ q.at = 3 /\ q.status = 200 /\ q.by \in Readers
                     /\ KeyOf(q) \in Key /\ PageOf(q) \in Page
                     /\ Stored(q.by, KeyOf(q), PageOf(q))
                /\ UNCHANGED <<log, writing, now, view, trail>>
  BY <1>1, <1>2, ReceiveIs
<1>3. (\A h \in Handlers : ~ Receive(h)) => UNCHANGED cache
  BY DEF Next, vars, readerVars, CreateAuditEvent, audit, AskPage, OpenAuditEvents,
     ChooseSize, NextPage, PreviousPage, Reconnect, Show, ListAuditEvents, CountAuditEvents, Tick
<1>4. QED BY <1>2, <1>3

LEMMA TrailStep ==
  ASSUME AuditInv, [Next]_vars
  PROVE  \/ UNCHANGED <<view, trail>>
         \/ \E r \in Readers, key \in Key, w \in Seq(Page) :
              Turns(r, key, w) /\ UNCHANGED <<log, writing, now, cache>>
<1>1. ASSUME NEW r \in Readers, ReaderStep(r)
      PROVE  \E key \in Key, w \in Seq(Page) :
                Turns(r, key, w) /\ UNCHANGED <<log, writing, now, cache>>
  BY <1>1, TurnIs DEF Turns, Show, logVars
<1>2. (\A r \in Readers : ~ ReaderStep(r)) => UNCHANGED <<view, trail>>
  BY DEF ReaderStep, Next, vars, readerVars, CreateAuditEvent, audit, AskPage,
     ListAuditEvents, CountAuditEvents, Receive, Tick
<1>3. QED BY <1>1, <1>2

\* The types are kept.
LEMMA NextType ==
  ASSUME AuditInv, [Next]_vars
  PROVE  TypeOK'
<1>1. TypeOK
  BY DEF AuditInv
<1>2. request' \in [Handlers -> Request]
  BY RequestStep
<1>3. log' \in [Events -> Nat \cup {NULL}]
  BY <1>1, LogStep DEF TypeOK
<1>4. writing' \in [Events -> Nat \cup {NULL}] /\ now' \in Nat
  <2>1. ASSUME NEW e \in Events, CreateAuditEvent(e) \/ audit(e)
        PROVE  writing' \in [Events -> Nat \cup {NULL}] /\ now' = now
    BY <1>1, <2>1 DEF TypeOK, CreateAuditEvent, audit
  <2>2. CASE Tick
    BY <1>1, <2>2 DEF TypeOK, Tick
  <2>3. (\A e \in Events : ~ CreateAuditEvent(e) /\ ~ audit(e)) /\ ~ Tick
        => UNCHANGED <<writing, now>>
    BY DEF Next, vars, logVars, AskPage, OpenAuditEvents, ChooseSize, NextPage, PreviousPage,
       Reconnect, Show, ListAuditEvents, CountAuditEvents, Receive
  <2>4. QED BY <1>1, <2>1, <2>2, <2>3 DEF TypeOK
<1>5. view' \in [Readers -> Key \cup {NULL}] /\ trail' \in [Readers -> Seq(Page)]
  BY <1>1, TrailStep, TurnType DEF TypeOK
<1>6. /\ DOMAIN cache' = Readers
      /\ \A r \in Readers : /\ DOMAIN cache'[r] \subseteq Key
                            /\ \A key \in DOMAIN cache'[r] : cache'[r][key] \in Page
  <2>1. CASE UNCHANGED cache
    BY <1>1, <2>1 DEF TypeOK
  <2>2. ASSUME NEW by \in Readers, NEW stored \in Key, NEW x \in Page, Stored(by, stored, x)
        PROVE  /\ DOMAIN cache' = Readers
               /\ \A r \in Readers : /\ DOMAIN cache'[r] \subseteq Key
                                     /\ \A key \in DOMAIN cache'[r] : cache'[r][key] \in Page
    BY <1>1, <2>2 DEF TypeOK, Stored
  <2>3. QED BY <2>1, <2>2, CacheStep
<1>7. QED BY <1>2, <1>3, <1>4, <1>5, <1>6 DEF TypeOK

\* What was read stays in the log.
LEMMA RowsStayStep ==
  ASSUME AuditInv, [Next]_vars, RequestsSound
  PROVE  RowsStay' /\ RequestsSound'
<1>1. /\ TypeOK /\ RowsStay /\ request \in [Handlers -> Request]
      /\ request' \in [Handlers -> Request]
  BY RequestStep DEF AuditInv, TypeOK
<1>2. ASSUME NEW h \in Handlers PROVE request'[h].read \subseteq Visible' /\ Sound(request[h])'
  <2>1. PICK q \in Request, p \in Request : q = request[h] /\ p = request'[h]
    BY <1>1
  <2>2. Sound(q) /\ q.read \in SUBSET Visible /\ Becomes(q, p)
    BY <1>1, <2>1, RequestStep DEF RequestsSound, RowsStay
  <2>3. p.read \in SUBSET Visible' /\ Sound(p)'
    BY <2>2, BecomesSound
  <2>4. Sound(request[h])'
    BY <2>1, <2>3
  <2>5. QED BY <2>1, <2>3, <2>4
<1>3. \A e \in Events : writing'[e] # NULL => log'[e] = NULL
  <2>1. ASSUME NEW new \in Events, CreateAuditEvent(new)
        PROVE  \A e \in Events : writing'[e] # NULL => log'[e] = NULL
    BY <1>1, <2>1 DEF CreateAuditEvent, RowsStay, TypeOK
  <2>2. ASSUME NEW new \in Events, audit(new)
        PROVE  \A e \in Events : writing'[e] # NULL => log'[e] = NULL
    BY <1>1, <2>2 DEF audit, RowsStay, TypeOK
  <2>3. (\A e \in Events : ~ CreateAuditEvent(e) /\ ~ audit(e)) => UNCHANGED <<log, writing>>
    BY DEF Next, vars, logVars, AskPage, OpenAuditEvents, ChooseSize, NextPage, PreviousPage,
       Reconnect, Show, ListAuditEvents, CountAuditEvents, Receive, Tick
  <2>4. QED BY <1>1, <2>1, <2>2, <2>3 DEF RowsStay
<1>4. \A r \in Readers : \A key \in DOMAIN cache'[r] : cache'[r][key].read \subseteq Visible'
  <2>1. CASE UNCHANGED cache
    BY <1>1, <2>1, LogGrows DEF RowsStay
  <2>2. ASSUME NEW h \in Handlers, NEW q \in Request, q = request[h],
               Stored(q.by, KeyOf(q), PageOf(q)), UNCHANGED log
        PROVE  \A r \in Readers : \A key \in DOMAIN cache'[r] :
                  cache'[r][key].read \subseteq Visible'
    <3>1. PageOf(q).read \subseteq Visible /\ Visible' = Visible
      BY <1>1, <2>2 DEF RowsStay, PageOf, Visible
    <3>2. QED BY <1>1, <2>2, <3>1 DEF RowsStay, Stored
  <2>3. QED BY <2>1, <2>2, CacheStep
<1>5. \A r \in Readers : \A i \in 1 .. Len(trail'[r]) : trail'[r][i].read \subseteq Visible'
  <2>1. CASE UNCHANGED trail
    BY <1>1, <2>1, LogGrows DEF RowsStay
  <2>2. ASSUME NEW r \in Readers, NEW key \in Key, NEW w \in Seq(Page), Turns(r, key, w),
               UNCHANGED log
        PROVE  \A other \in Readers : \A i \in 1 .. Len(trail'[other]) :
                  trail'[other][i].read \subseteq Visible'
    <3>1. \A i \in 1 .. Len(w) : w[i].read \subseteq Visible
      BY <2>2 DEF Turns
    <3>2. /\ Visible' = Visible /\ trail'[r] = w
          /\ \A other \in Readers \ {r} : trail'[other] = trail[other]
      BY <2>2, TurnType DEF Visible
    <3>3. QED BY <1>1, <3>1, <3>2 DEF RowsStay
  <2>3. QED BY <2>1, <2>2, TrailStep
<1>6. QED BY <1>2, <1>3, <1>4, <1>5 DEF RowsStay, RequestsSound

\* A page that is stored was sound as an answer.
LEMMA CacheSoundStep ==
  ASSUME AuditInv, [Next]_vars
  PROVE  CacheSound'
<1>1. TypeOK /\ RowsStay /\ RequestsSound /\ CacheSound
  BY DEF AuditInv
<1>2. ASSUME NEW r \in Readers, NEW key \in DOMAIN cache'[r]
      PROVE  \E x : x = cache'[r][key] /\ NoneSkipped(x, key.page, key.size)' /\ TotalCounts(x)
  <2>1. PICK page, size : page = key.page /\ size = key.size
    OBVIOUS
  <2>2. ASSUME NEW x, x.read \in SUBSET Visible, NoneSkipped(x, page, size)
        PROVE  NoneSkipped(x, page, size)'
    BY <1>1, <2>2, NoneSkippedStays
  <2>3. ASSUME key \in DOMAIN cache[r], cache'[r][key] = cache[r][key]
        PROVE  \E x : x = cache'[r][key] /\ NoneSkipped(x, page, size)' /\ TotalCounts(x)
    <3>1. PICK x : x = cache[r][key]
      OBVIOUS
    <3>2. NoneSkipped(x, page, size) /\ TotalCounts(x) /\ x.read \in SUBSET Visible
      BY <1>1, <2>1, <2>3, <3>1 DEF CacheSound, RowsStay
    <3>3. QED BY <2>2, <2>3, <3>1, <3>2
  <2>4. ASSUME NEW h \in Handlers, NEW q \in Request, q = request[h], q.at = 3,
               q.status = 200, q.by \in Readers, Stored(q.by, KeyOf(q), PageOf(q))
        PROVE  \E x : x = cache'[r][key] /\ NoneSkipped(x, page, size)' /\ TotalCounts(x)
    <3>1. CASE r = q.by /\ key = KeyOf(q)
      <4>1. PICK x : x = PageOf(q)
        OBVIOUS
      <4>2. /\ Sound(q) /\ q.size \in PageSizes /\ Fits(q) /\ q.size < Half
            /\ q.read \in SUBSET Visible /\ page = q.page /\ size = q.size
        <5>1. Sound(q) /\ q.read \in SUBSET Visible
          BY <1>1, <2>4 DEF RequestsSound, RowsStay
        <5>2. q.size \in PageSizes /\ Fits(q)
          BY <2>4, <5>1 DEF Sound
        <5>3. page = q.page /\ size = q.size
          BY <2>1, <3>1 DEF KeyOf
        <5>4. \A n \in PageSizes : n < Half
          OBVIOUS
        <5>5. QED BY <5>1, <5>2, <5>3, <5>4
      <4>3. x.read \in SUBSET Visible /\ NoneSkipped(x, page, size) /\ TotalCounts(x)
        BY <2>4, <4>1, <4>2 DEF Sound, NoneSkipped, TotalCounts, PageOf
      <4>4. x = cache'[r][key]
        BY <2>4, <3>1, <4>1 DEF Stored
      <4>5. QED BY <2>2, <4>3, <4>4
    <3>2. CASE ~ (r = q.by /\ key = KeyOf(q))
      BY <2>3, <2>4, <3>2, <1>2 DEF Stored
    <3>3. QED BY <3>1, <3>2
  <2>5. QED BY <1>1, <1>2, <2>1, <2>3, <2>4, CacheStep
<1>3. QED BY <1>2 DEF CacheSound, NoneSkipped, TotalCounts

\* A walk that goes on missed nothing before.
LEMMA TrailsSoundStep ==
  ASSUME AuditInv, [Next]_vars
  PROVE  TrailsSound'
<1>1. TypeOK /\ RowsStay /\ TrailsSound
  BY DEF AuditInv
<1>2. ASSUME NEW w \in Seq(Page), NEW size, WalkMisses(w, size),
             \A i \in 1 .. Len(w) : w[i].read \in SUBSET Visible
      PROVE  WalkMisses(w, size)'
  BY <1>1, <1>2, WalkStays
<1>3. ASSUME NEW r \in Readers, view'[r] # NULL
      PROVE  \E w, size : /\ w = trail'[r] /\ size = view'[r].size
                          /\ size \in PageSizes /\ Fits(view'[r])
                          /\ Len(w) = view'[r].page - 1 /\ WalkMisses(w, size)'
  <2>1. CASE view'[r] = view[r] /\ trail'[r] = trail[r]
    <3>1. PICK w \in Seq(Page), size \in {view[r].size} :
             w = trail[r] /\ size = view[r].size
      BY <1>1 DEF TypeOK
    <3>2. \A i \in 1 .. Len(w) : w[i].read \in SUBSET Visible
      BY <1>1, <3>1 DEF RowsStay
    <3>3. WalkMisses(w, size) /\ size \in PageSizes /\ Fits(view[r]) /\ Len(w) = view[r].page - 1
      BY <1>1, <1>3, <2>1, <3>1 DEF TrailsSound
    <3>4. QED BY <1>2, <2>1, <3>1, <3>2, <3>3 DEF Fits
  <2>2. ASSUME NEW key \in Key, NEW w \in Seq(Page), Turns(r, key, w)
        PROVE  \E size : /\ w = trail'[r] /\ size = view'[r].size
                         /\ size \in PageSizes /\ Fits(view'[r])
                         /\ Len(w) = view'[r].page - 1 /\ WalkMisses(w, size)'
    <3>1. PICK size : size = key.size
      OBVIOUS
    <3>2. WalkMisses(w, size)'
      BY <1>2, <2>2, <3>1 DEF Turns
    <3>3. view'[r] = key /\ trail'[r] = w
      BY <2>2, TurnType
    <3>4. QED BY <2>2, <3>1, <3>2, <3>3 DEF Turns, Fits
  <2>3. QED BY <1>3, <2>1, <2>2, TrailStep, TurnType
<1>4. QED BY <1>3 DEF TrailsSound, Fits

\* Every step preserves the invariant.
LEMMA NextAudit == AuditInv /\ [Next]_vars => AuditInv'
  BY NextType, RowsStayStep, CacheSoundStep, TrailsSoundStep DEF AuditInv

\* The invariant of the log and its readers.
LEMMA AuditInvariant == Spec => []AuditInv
  BY InitAudit, NextAudit, PTL DEF Spec

-----------------------------------------------------------------------------
(* The theorems.                                                           *)

\* The log, its readers and their caches always have their types.
THEOREM TypeCorrect == Spec => []TypeOK
<1>1. AuditInv => TypeOK
  BY DEF AuditInv
<1>2. QED BY <1>1, AuditInvariant, PTL

\* No answer shows a row beyond the total that it gives.
THEOREM TotalsCoverTheirPages == Spec => []TotalCoversPage
<1>1. ASSUME AuditInv PROVE TotalCoversPage
  <2> SUFFICES ASSUME NEW h \in Handlers, NEW q \in Request, q = request[h],
                      q.at = Answered, q.status = 200, q.rows # <<>>, q.total # 0,
                      (q.page - 1) * q.size < Half
               PROVE  (q.page - 1) * q.size + Len(q.rows) <= q.total
    BY <1>1 DEF TotalCoversPage, AuditInv, TypeOK
  <2>1. /\ (q.page - 1) * q.size + Len(q.rows) <= Cardinality(q.read)
        /\ Cardinality(q.read) <= q.total
    BY <1>1, Statements DEF AuditInv, RequestsSound, Sound, Fits, TotalCounts
  <2>2. /\ (q.page - 1) * q.size \in Nat /\ Len(q.rows) \in Nat /\ q.total \in Nat
        /\ Cardinality(q.read) \in Nat
    <3>1. /\ (q.page - 1) * q.size \in Nat /\ q.rows \in Seq(Events)
          /\ q.total \in Nat /\ q.read \in SUBSET Events
      BY RequestIs
    <3>2. Len(q.rows) \in Nat
      BY <3>1
    <3>3. QED BY <3>1, <3>2, Counted
  <2>3. QED BY <2>1, <2>2
<1>2. AuditInv => TotalCoversPage
  BY <1>1
<1>3. QED BY <1>2, AuditInvariant, PTL

\* Who walks through the pages to the end has been shown every event that page 1 was
\* chosen from, however many are appended meanwhile and whatever came from the cache,
\* unless a page is older than the one before it.
THEOREM WalksFindEveryEvent == Spec => []WalkFindsEveryEvent
<1>1. ASSUME AuditInv PROVE WalkFindsEveryEvent
  <2> SUFFICES ASSUME NEW r \in Readers, WalkDone(r), InOrder(Walk(r)),
                      NEW e \in Walk(r)[1].read, Alone(e),
                      \A i \in DOMAIN Walk(r) : e \notin ToSet(Walk(r)[i].rows)
               PROVE  FALSE
    BY DEF WalkFindsEveryEvent, Alone
  <2>1. PICK key \in Key : /\ key = view[r] /\ view[r] # NULL
                           /\ TotalShown(r) # 0 /\ key.page >= LastPage(r)
    BY <1>1 DEF WalkDone, AuditInv, TypeOK
  <2>2. PICK x \in Page : /\ x = cache[r][view[r]] /\ x.total = TotalShown(r)
                          /\ NoneSkipped(x, key.page, key.size) /\ TotalCounts(x)
                          /\ x.read \in SUBSET Visible
    BY <1>1, <2>1, ShownPage
  <2>3. /\ x.total <= key.page * key.size
        /\ key.page \in Nat \ {0} /\ key.size \in Nat \ {0} /\ key.page * key.size \in Nat
        /\ x.total \in Nat
    BY <1>1, <2>1, <2>2, LastPageIs, KeyIs, Product DEF AuditInv
  <2>4. PICK pages \in Seq(Page) : /\ pages = trail[r] /\ Len(pages) + 1 = key.page
                                   /\ WalkMisses(pages, key.size)
    <3>1. trail[r] \in Seq(Page)
      BY <1>1 DEF AuditInv, TypeOK
    <3>2. Len(trail[r]) = key.page - 1 /\ WalkMisses(trail[r], key.size)
      BY <1>1, <2>1 DEF AuditInv, TrailsSound
    <3>3. Len(trail[r]) + 1 = key.page
      BY <2>3, <3>2
    <3>4. QED BY <3>1, <3>2, <3>3
  <2>5. PICK w \in Seq(Page) : w = Append(pages, x)
    <3>1. \A y \in Seq(Page) : Append(y, x) \in Seq(Page)
      OBVIOUS
    <3>2. QED BY <3>1
  <2>6. Walk(r) = w
    BY <2>2, <2>4, <2>5 DEF Walk
  <2>7. WalkMisses(w, key.size)
    BY <2>2, <2>3, <2>4, <2>5, WalkExtends
  <2>8. Len(w) = key.page /\ DOMAIN w = 1 .. key.page /\ w[key.page] = x
    BY <2>3, <2>4, <2>5
  <2>9. \A j \in 1 .. key.page - 1 : w[j].read \subseteq w[j + 1].read
    BY <2>6, <2>8 DEF InOrder
  <2>10. e \in x.read /\ Cardinality(NewerIn(x.read, e)) >= key.page * key.size
    <3>1. key.page \in 1 .. Len(w)
      BY <2>3, <2>8
    <3>2. e \in w[1].read /\ \A j \in DOMAIN w : e \notin ToSet(w[j].rows)
      BY <2>6
    <3>3. QED BY <2>7, <2>8, <2>9, <3>1, <3>2 DEF WalkMisses
  <2>11. Cardinality(NewerIn(x.read, e)) + 1 <= Cardinality(x.read)
    <3>1. /\ NewerIn(x.read, e) \in SUBSET (x.read \ {e}) /\ x.read \in SUBSET Events
          /\ x.read \ {e} \in SUBSET Events
      <4>1. e \in Visible /\ log[e] \in Nat /\ Visible \in SUBSET Events
        BY <1>1, <2>2, <2>10 DEF Visible, AuditInv, TypeOK
      <4>2. QED BY <2>2, <4>1 DEF NewerIn
    <3>2. /\ Cardinality(NewerIn(x.read, e)) <= Cardinality(x.read \ {e})
          /\ Cardinality(x.read \ {e}) = Cardinality(x.read) - 1
      BY <2>10, <3>1, Counted, FS_Subset, FS_RemoveElement
    <3>3. /\ Cardinality(NewerIn(x.read, e)) \in Nat /\ Cardinality(x.read) \in Nat
          /\ Cardinality(x.read \ {e}) \in Nat
      <4>1. NewerIn(x.read, e) \in SUBSET Events
        BY <3>1
      <4>2. QED BY <3>1, <4>1, Counted
    <3>4. QED BY <3>2, <3>3
  <2>12. Cardinality(x.read) <= x.total
    BY <2>1, <2>2 DEF TotalCounts
  <2>13. Cardinality(NewerIn(x.read, e)) \in Nat /\ Cardinality(x.read) \in Nat
    <3>1. NewerIn(x.read, e) \in SUBSET Events /\ x.read \in SUBSET Events
      BY <2>2 DEF NewerIn, Visible
    <3>2. QED BY <3>1, Counted
  <2>14. QED BY <2>3, <2>10, <2>11, <2>12, <2>13
<1>2. AuditInv => WalkFindsEveryEvent
  BY <1>1
<1>3. QED BY <1>2, AuditInvariant, PTL
=============================================================================
