--------------------------- MODULE ProjectPageProofs ---------------------------
(***************************************************************************)
(* Proofs about ProjectPage, for every page size, every number of links    *)
(* and events under way, and every sequence of requests and incidents.     *)
(***************************************************************************)
EXTENDS ProjectPage, ListsProofs, FiniteSetTheorems, SequenceTheorems

(***************************************************************************)
(* Type correctness.                                                       *)
(***************************************************************************)

Page == [items : Seq(Row), total : 0..MaxLinks]
Runs == [pc : {"idle", "locked", "checking", "ending", "cleared"}, links : SUBSET Ids]
Checks == [id : Ids, by : {"run", "job"}, at : {"waiting", "crawling"}]
Streams == [state : {"connecting", "open", "dead"}, queue : Seq(Events)]
Fetches == [kind : {"none", "all", "next"}, got : Seq(Page), upto : 0..MaxPages,
            read : SUBSET {"items", "total"}, items : Seq(Row), total : 0..MaxLinks]
Requests == [kind : {"delete", "deleteAll", "add"}, id : Ids \cup {0}, at : {"sent", "done"}]

\* What TypeOK leaves open: lists are sequences, the table never holds more links than
\* were created, and a fetch never has more pages than it asked for.
ServerType ==
    /\ born \in 0..MaxLinks /\ flag \in BOOLEAN
    /\ db \in Seq(Row) /\ Len(db) <= born /\ createdAt \in [Ids -> 0..MaxLinks]
WorkType ==
    /\ queue \in Seq(SUBSET Ids) /\ run \in Runs /\ checks \subseteq Checks
PageType ==
    /\ pages \in Seq(Page) /\ Len(pages) <= MaxPages
    /\ linksFetch \in Fetches /\ Len(linksFetch.got) <= linksFetch.upto
    /\ project \in BOOLEAN \cup {None}
    /\ projectFetch \in [at : {"none", "asked", "read"}, value : BOOLEAN]
RestType ==
    /\ stream \in Streams /\ requests \subseteq Requests
    /\ acts \in 0..MaxActs /\ incidents \in 0..MaxIncidents
    /\ unheard \in BOOLEAN /\ settled \in BOOLEAN
TypeInv == ServerType /\ WorkType /\ PageType /\ RestType

LEMMA TypesAreRight == TypeInv => TypeOK
<1> SUFFICES ASSUME TypeInv PROVE TypeOK
  OBVIOUS
<1>1. ASSUME NEW ps \in Seq(Page) PROVE PagesOK(ps)
  <2>1. ASSUME NEW p \in DOMAIN ps PROVE ps[p] \in Page
    BY <1>1, <2>1
  <2>2. QED
    BY <2>1 DEF PagesOK, Page
<1>2. /\ PagesOK(pages) /\ PagesOK(linksFetch.got) /\ linksFetch.total \in 0..MaxLinks
      /\ \A k \in DOMAIN linksFetch.items : linksFetch.items[k] \in Row
  BY <1>1 DEF TypeInv, PageType, Fetches
<1>3. \A k \in DOMAIN stream.queue : stream.queue[k] \in Events
  BY DEF TypeInv, RestType, Streams
<1>4. \A k \in DOMAIN queue : queue[k] \subseteq Ids
  BY DEF TypeInv, WorkType
<1>5. \A r \in requests : r.id \in Ids \cup {0} /\ r.at \in {"sent", "done"}
  BY DEF TypeInv, RestType, Requests
<1>6. QED
  BY <1>2, <1>3, <1>4, <1>5
     DEF TypeInv, ServerType, WorkType, PageType, RestType, TypeOK, Runs, Checks, Streams

(***************************************************************************)
(* Operators.                                                              *)
(***************************************************************************)

LEMMA Greater ==
    ASSUME NEW a \in Int, NEW b \in Int
    PROVE  Max({a, b}) = IF a >= b THEN a ELSE b
<1> DEFINE m == IF a >= b THEN a ELSE b
<1>1. m \in {a, b} /\ \A y \in {a, b} : m >= y
  OBVIOUS
<1>2. \A x \in {a, b} : (\A y \in {a, b} : x >= y) => x = m
  OBVIOUS
<1> HIDE DEF m
<1>3. (CHOOSE x \in {a, b} : \A y \in {a, b} : x >= y) = m
  BY <1>1, <1>2
<1>4. QED
  BY <1>3 DEF Max, m

LEMMA Lesser ==
    ASSUME NEW a \in Int, NEW b \in Int
    PROVE  Min({a, b}) = IF a <= b THEN a ELSE b
<1> DEFINE m == IF a <= b THEN a ELSE b
<1>1. m \in {a, b} /\ \A y \in {a, b} : m <= y
  OBVIOUS
<1>2. \A x \in {a, b} : (\A y \in {a, b} : x <= y) => x = m
  OBVIOUS
<1> HIDE DEF m
<1>3. (CHOOSE x \in {a, b} : \A y \in {a, b} : x <= y) = m
  BY <1>1, <1>2
<1>4. QED
  BY <1>3 DEF Min, m

\* A page of the list: PageSize rows from an offset, or what there is of them.
LEMMA PageOfRows ==
    ASSUME NEW s \in Seq(Row), Len(s) <= MaxLinks, NEW n \in Nat \ {0}
    PROVE  LET it == PageOf(s, n)
               before == (n - 1) * PageSize
           IN /\ before \in Nat /\ n * PageSize = before + PageSize
              /\ it \in Seq(Row)
              /\ Len(it) = IF Len(s) <= before THEN 0
                           ELSE IF Len(s) <= before + PageSize THEN Len(s) - before
                           ELSE PageSize
              /\ \A k \in 1..Len(it) : before + k \in 1..Len(s) /\ it[k] = s[before + k]
<1> DEFINE before == (n - 1) * PageSize
           upto == Min({n * PageSize, Len(s)})
           it == SubSeq(s, before + 1, upto)
<1>1. before \in Nat /\ n * PageSize = before + PageSize /\ n * PageSize \in Nat /\ PageSize \in Nat
  <2>1. n - 1 \in Nat /\ PageSize \in Nat /\ n \in Nat
    BY PageAssumption DEF PageAssumption
  <2>2. before \in Nat /\ n * PageSize \in Nat
    BY <2>1
  <2>3. n * PageSize = (n - 1) * PageSize + PageSize
    BY <2>1
  <2>4. QED
    BY <2>1, <2>2, <2>3
<1>2. Len(s) \in Nat /\ \A i \in 1..Len(s) : s[i] \in Row
  OBVIOUS
<1>3. upto = IF n * PageSize <= Len(s) THEN n * PageSize ELSE Len(s)
  BY <1>1, <1>2, Lesser
<1> HIDE DEF before, upto
<1>4. before + 1 \in Int /\ upto \in Int /\ \A i \in (before + 1)..upto : s[i] \in Row
  BY <1>1, <1>2, <1>3
<1>5. /\ it \in Seq(Row)
      /\ Len(it) = IF before + 1 <= upto THEN upto - (before + 1) + 1 ELSE 0
      /\ \A i \in 1 .. upto - (before + 1) + 1 : it[i] = s[before + 1 + i - 1]
  BY <1>4, SubSeqProperties
<1>6. PageOf(s, n) = it
  BY DEF PageOf, before, upto
<1> HIDE DEF it
<1>7. Len(it) = IF Len(s) <= before THEN 0
                ELSE IF Len(s) <= before + PageSize THEN Len(s) - before ELSE PageSize
  BY <1>1, <1>2, <1>3, <1>5
<1>8. ASSUME NEW k \in 1..Len(it) PROVE before + k \in 1..Len(s) /\ it[k] = s[before + k]
  <2>1. before + k \in 1..Len(s) /\ k \in 1 .. upto - (before + 1) + 1
    BY <1>1, <1>2, <1>3, <1>5, <1>7
  <2>2. before + 1 + k - 1 = before + k
    BY <1>1
  <2>3. QED
    BY <1>5, <2>1, <2>2
<1>9. QED
  BY <1>1, <1>5, <1>6, <1>7, <1>8 DEF before

\* The orders the rows may be read in: the same rows, of the same createdAt at each place.
LEMMA OrderRead ==
    ASSUME db \in Seq(Row), NEW order \in Orders
    PROVE  /\ order \in Seq(Row) /\ Len(order) = Len(db)
           /\ \A k \in DOMAIN db : \E l \in DOMAIN db : order[k] = db[l]
           /\ \A k \in DOMAIN db : createdAt[order[k].id] = createdAt[db[k].id]
<1>1. PICK q \in [DOMAIN db -> DOMAIN db] :
         /\ \A k \in DOMAIN db : createdAt[db[q[k]].id] = createdAt[db[k].id]
         /\ order = [k \in DOMAIN db |-> db[q[k]]]
  BY DEF Orders
<1>2. DOMAIN db = 1..Len(db) /\ Len(db) \in Nat /\ \A k \in DOMAIN db : db[k] \in Row
  OBVIOUS
<1>3. \A k \in DOMAIN db : order[k] = db[q[k]] /\ q[k] \in DOMAIN db
  BY <1>1
<1>4. order \in [1..Len(db) -> Row]
  BY <1>1, <1>2, <1>3
<1>5. order \in Seq(Row) /\ Len(order) = Len(db)
  BY <1>2, <1>4
<1>6. QED
  BY <1>1, <1>3, <1>5

\* A page joins the others once both of its queries have answered.
LEMMA AnsweredTyped ==
    ASSUME NEW f \in Fetches, Len(f.got) < f.upto
    PROVE  /\ Answered(f) \in Fetches /\ Len(Answered(f).got) <= Answered(f).upto
           /\ Answered(f).kind = f.kind /\ Answered(f).upto = f.upto
           /\ IF f.read = {"items", "total"}
              THEN /\ Answered(f).read = {}
                   /\ Answered(f).got = Append(f.got, [items |-> f.items, total |-> f.total])
              ELSE Answered(f) = f
<1>1. CASE f.read = {"items", "total"}
  <2> DEFINE x == [items |-> f.items, total |-> f.total]
             a == Fetch(f.kind, Append(f.got, x), f.upto)
  <2>1. f.got \in Seq(Page) /\ x \in Page
    BY DEF Fetches, Page
  <2>2. Append(f.got, x) \in Seq(Page) /\ Len(Append(f.got, x)) = Len(f.got) + 1
    BY <2>1, AppendProperties
  <2>3. Len(f.got) \in Nat /\ f.upto \in Nat
    BY <2>1, PageAssumption DEF Fetches, PageAssumption
  <2>4. Answered(f) = a
    BY <1>1 DEF Answered
  <2> HIDE DEF x
  <2>5. a \in Fetches /\ a.kind = f.kind /\ a.upto = f.upto /\ a.read = {}
        /\ a.got = Append(f.got, x)
    BY <2>2, PageAssumption DEF Fetches, Fetch, PageAssumption
  <2>6. QED
    BY <1>1, <2>2, <2>3, <2>4, <2>5 DEF x
<1>2. CASE f.read # {"items", "total"}
  <2>1. Answered(f) = f
    BY <1>2 DEF Answered
  <2>2. Len(f.got) <= f.upto
    BY PageAssumption DEF Fetches, PageAssumption
  <2>3. QED
    BY <1>2, <2>1, <2>2
<1>3. QED
  BY <1>1, <1>2

LEMMA RefetchTyped ==
    ASSUME PageType
    PROVE  /\ RefetchLinks(pages) \in Fetches
           /\ Len(RefetchLinks(pages).got) <= RefetchLinks(pages).upto
           /\ RefetchProject \in [at : {"none", "asked", "read"}, value : BOOLEAN]
<1> DEFINE m == Max({1, Len(pages)})
           new == Fetch("all", <<>>, m)
<1>1. Len(pages) \in Nat
  BY DEF PageType
<1>2. m = IF 1 >= Len(pages) THEN 1 ELSE Len(pages)
  BY <1>1, Greater
<1>3. m \in 0..MaxPages
  BY <1>1, <1>2, PageAssumption DEF PageAssumption, PageType
<1> HIDE DEF m
<1>4. new \in Fetches /\ Len(new.got) <= new.upto
  BY <1>3, PageAssumption DEF Fetches, Fetch, PageAssumption
<1>5. RefetchLinks(pages) = linksFetch \/ RefetchLinks(pages) = new
  BY DEF RefetchLinks, m
<1> HIDE DEF new
<1>6. RefetchProject \in [at : {"none", "asked", "read"}, value : BOOLEAN]
  BY DEF RefetchProject, PageType
<1>7. QED
  BY <1>4, <1>5, <1>6 DEF PageType

LEMMA PublishTyped ==
    ASSUME stream \in Streams, unheard \in BOOLEAN, NEW e \in Events, Publish(e)
    PROVE  stream' \in Streams /\ unheard' \in BOOLEAN
<1>1. CASE stream.state = "open"
  BY <1>1 DEF Publish, Streams
<1>2. CASE stream.state # "open"
  BY <1>2 DEF Publish
<1>3. QED
  BY <1>1, <1>2

LEMMA EventsTyped ==
    /\ \A i \in Ids, s \in Statuses : LinkUpdated(i, s) \in Events
    /\ \A on \in BOOLEAN : LockChanged(on) \in Events
BY DEF LinkUpdated, LockChanged, Events

\* What a write of the worker leaves of the list.
LEMMA WritesTyped ==
    ASSUME db \in Seq(Row)
    PROVE  /\ \A ids \in SUBSET Ids, s \in Statuses :
                 /\ Marked(ids, s) \in Seq(Row) /\ Len(Marked(ids, s)) = Len(db)
                 /\ \A k \in 1..Len(db) : Marked(ids, s)[k].id = db[k].id
           /\ \A i \in Ids, o \in Outcomes :
                 /\ Saved(i, o) \in Seq(Row) /\ Len(Saved(i, o)) = Len(db)
                 /\ \A k \in 1..Len(db) : Saved(i, o)[k].id = db[k].id
<1>1. ASSUME NEW r \in Row, NEW s \in Statuses
      PROVE  [r EXCEPT !.status = s] \in Row /\ [r EXCEPT !.status = s].id = r.id
  BY DEF Row
<1>2. ASSUME NEW r \in Row, NEW o \in Outcomes
      PROVE  LET n == [r EXCEPT !.status = o.status, !.indexable = o.indexable]
             IN n \in Row /\ n.id = r.id
  BY PageAssumption DEF Row, Statuses, PageAssumption
<1>3. DOMAIN db = 1..Len(db) /\ Len(db) \in Nat /\ \A k \in 1..Len(db) : db[k] \in Row
  OBVIOUS
<1>4. ASSUME NEW ids \in SUBSET Ids, NEW s \in Statuses
      PROVE  /\ Marked(ids, s) \in Seq(Row) /\ Len(Marked(ids, s)) = Len(db)
             /\ \A k \in 1..Len(db) : Marked(ids, s)[k].id = db[k].id
  <2> DEFINE w(k) == IF db[k].id \in ids THEN [db[k] EXCEPT !.status = s] ELSE db[k]
             m == [k \in 1..Len(db) |-> w(k)]
  <2>1. \A k \in 1..Len(db) : w(k) \in Row /\ w(k).id = db[k].id
    BY <1>1, <1>3
  <2>2. Marked(ids, s) = m
    BY <1>3 DEF Marked
  <2> HIDE DEF w
  <2>3. m \in Seq(Row) /\ Len(m) = Len(db) /\ \A k \in 1..Len(db) : m[k] = w(k)
    BY <1>3, <2>1
  <2> HIDE DEF m
  <2>4. QED
    BY <2>1, <2>2, <2>3
<1>5. ASSUME NEW i \in Ids, NEW o \in Outcomes
      PROVE  /\ Saved(i, o) \in Seq(Row) /\ Len(Saved(i, o)) = Len(db)
             /\ \A k \in 1..Len(db) : Saved(i, o)[k].id = db[k].id
  <2> DEFINE w(k) == IF db[k].id = i
                     THEN [db[k] EXCEPT !.status = o.status, !.indexable = o.indexable]
                     ELSE db[k]
             m == [k \in 1..Len(db) |-> w(k)]
  <2>1. \A k \in 1..Len(db) : w(k) \in Row /\ w(k).id = db[k].id
    BY <1>2, <1>3
  <2>2. Saved(i, o) = m
    BY <1>3 DEF Saved
  <2> HIDE DEF w
  <2>3. m \in Seq(Row) /\ Len(m) = Len(db) /\ \A k \in 1..Len(db) : m[k] = w(k)
    BY <1>3, <2>1
  <2> HIDE DEF m
  <2>4. QED
    BY <2>1, <2>2, <2>3
<1>6. QED
  BY <1>4, <1>5

(***************************************************************************)
(* FlattenSeq, which its module defines by a recursion along the pages.    *)
(***************************************************************************)

IsFlat(g, ss, X) ==
    /\ g \in [0..Len(ss) -> Seq(X)]
    /\ g[0] = <<>>
    /\ \A n \in 1..Len(ss) : g[n] = g[n - 1] \o ss[n]
    /\ FlattenSeq(ss) = g[Len(ss)]

LEMMA FlatFunction ==
    ASSUME NEW X, NEW ss \in Seq(Seq(X))
    PROVE  \E g : IsFlat(g, ss, X)
<1> DEFINE Y == Seq(X)
           L == Len(ss)
           N == [p \in (1..L) \X Y |-> p[2] \o ss[p[1]]]
           f == CHOOSE h : h = [i \in 1..L |-> IF i = 1 THEN ss[i] ELSE h[i - 1] \o ss[i]]
<1>1. L \in Nat /\ \A n \in 1..L : ss[n] \in Y
  OBVIOUS
<1>2. FlattenSeq(ss) = IF L = 0 THEN ss ELSE f[L]
  BY DEF FlattenSeq
<1> HIDE DEF L
<1>3. \A y, z \in Y : y \o z \in Y
  OBVIOUS
<1>4. N \in [(1..L) \X Y -> Y] /\ <<>> \in Y
  BY <1>1, <1>3
<1>5. \A n \in 1..L, y \in Y : N[<<n, y>>] = y \o ss[n]
  OBVIOUS
<1> HIDE DEF N
<1>6. PICK g \in [0..L -> Y] : g[0] = <<>> /\ \A n \in 1..L : g[n] = N[<<n, g[n - 1]>>]
  <2> HIDE DEF Y, f
  <2>1. \E g : IsRecursion(g, L, Y, <<>>, N)
    BY <1>1, <1>4, RecursionExists
  <2>2. QED
    BY <2>1 DEF IsRecursion
<1>7. \A n \in 1..L : g[n - 1] \in Y /\ g[n] = g[n - 1] \o ss[n]
  <2> HIDE DEF Y
  <2>1. ASSUME NEW n \in 1..L PROVE g[n - 1] \in Y
    <3>1. n - 1 \in 0..L
      BY <1>1
    <3>2. QED
      BY <1>6, <3>1
  <2>2. QED
    BY <1>5, <1>6, <2>1
<1>0. 1 \in 1..L => g[1] = ss[1]
  <2> SUFFICES ASSUME 1 \in 1..L PROVE g[1] = ss[1]
    OBVIOUS
  <2>1. 1 - 1 = 0
    OBVIOUS
  <2>2. g[1] = g[0] \o ss[1]
    BY <1>7, <2>1
  <2>3. ss[1] \in Seq(X)
    BY <1>1
  <2>4. QED
    BY <1>6, <2>2, <2>3, ConcatEmptySeq
<1> DEFINE h == [i \in 1..L |-> g[i]]
<1>8. h = [i \in 1..L |-> IF i = 1 THEN ss[i] ELSE h[i - 1] \o ss[i]]
  <2>1. ASSUME NEW i \in 1..L PROVE h[i] = IF i = 1 THEN ss[i] ELSE h[i - 1] \o ss[i]
    <3>1. CASE i = 1
      BY <1>0, <3>1
    <3>2. CASE i # 1
      <4>1. i - 1 \in 1..L
        BY <1>1, <3>2
      <4>2. QED
        BY <1>7, <3>2, <4>1
    <3>3. QED
      BY <3>1, <3>2
  <2> DEFINE hh == [i \in 1..L |-> IF i = 1 THEN ss[i] ELSE h[i - 1] \o ss[i]]
  <2>2. h = [i \in 1..L |-> h[i]] /\ \A i \in 1..L : hh[i] = h[i]
    BY <2>1
  <2>3. hh = [i \in 1..L |-> hh[i]]
    OBVIOUS
  <2> HIDE DEF h, hh
  <2>4. h = hh
    BY <2>2, <2>3
  <2>5. QED
    BY <2>4 DEF hh
<1>9. f = [i \in 1..L |-> IF i = 1 THEN ss[i] ELSE f[i - 1] \o ss[i]]
  <2> HIDE DEF h
  <2>1. QED
    BY <1>8
<1> HIDE DEF f
<1>10. \A i \in 1..L : f[i] = IF i = 1 THEN ss[i] ELSE f[i - 1] \o ss[i]
  BY <1>9
<1>11. \A n \in 0..L : n \in 1..L => f[n] = g[n]
  <2> DEFINE T == {n \in 0..L : n \in 1..L => f[n] = g[n]}
  <2>1. 0 \in T
    BY <1>1
  <2>2. ASSUME NEW n \in 1..L, n - 1 \in T PROVE n \in T
    <3>1. CASE n = 1
      <4>1. f[n] = g[n]
        BY <1>0, <1>10, <3>1
      <4>2. QED
        BY <1>1, <4>1
    <3>2. CASE n # 1
      <4>1. n - 1 \in 1..L /\ n \in 0..L
        BY <1>1, <3>2
      <4>2. f[n - 1] = g[n - 1]
        BY <2>2, <4>1
      <4>3. f[n] = g[n]
        BY <1>7, <1>10, <3>2, <4>2
      <4>4. QED
        BY <4>1, <4>3
    <3>3. QED
      BY <3>1, <3>2
  <2>3. 0..L \subseteq T
    <3> HIDE DEF T
    <3>1. QED
      BY <1>1, <2>1, <2>2, IntervalByInduction
  <2>4. QED
    BY <2>3
<1>12. FlattenSeq(ss) = g[L]
  <2>1. CASE L = 0
    <3>1. ss = <<>>
      BY <2>1 DEF L
    <3>2. QED
      BY <1>2, <1>6, <2>1, <3>1
  <2>2. CASE L # 0
    <3>1. L \in 1..L /\ L \in 0..L
      BY <1>1, <2>2
    <3>2. QED
      BY <1>2, <1>11, <2>2, <3>1
  <2>3. QED
    BY <2>1, <2>2
<1>13. IsFlat(g, ss, X)
  BY <1>6, <1>7, <1>12 DEF IsFlat, L
<1>14. QED
  BY <1>13

Items(ps) == [k \in DOMAIN ps |-> ps[k].items]

LEMMA ItemsTyped ==
    ASSUME NEW ps \in Seq(Page)
    PROVE  /\ Items(ps) \in Seq(Seq(Row)) /\ Len(Items(ps)) = Len(ps)
           /\ \A k \in 1..Len(ps) : Items(ps)[k] = ps[k].items /\ ps[k].items \in Seq(Row)
           /\ Loaded(ps) = FlattenSeq(Items(ps))
<1>1. DOMAIN ps = 1..Len(ps) /\ Len(ps) \in Nat /\ \A k \in 1..Len(ps) : ps[k] \in Page
  OBVIOUS
<1>2. \A k \in 1..Len(ps) : ps[k].items \in Seq(Row)
  BY <1>1 DEF Page
<1> DEFINE m == [k \in 1..Len(ps) |-> ps[k].items]
<1>3. m \in Seq(Seq(Row)) /\ Len(m) = Len(ps) /\ \A k \in 1..Len(ps) : m[k] = ps[k].items
  BY <1>1, <1>2
<1>4. Items(ps) = m
  BY <1>1 DEF Items
<1>5. Loaded(ps) = FlattenSeq(Items(ps))
  BY DEF Loaded, Items
<1> HIDE DEF m
<1>6. QED
  BY <1>2, <1>3, <1>4, <1>5

LEMMA LoadedTyped ==
    ASSUME NEW ps \in Seq(Page)
    PROVE  Loaded(ps) \in Seq(Row)
<1>1. PICK g : IsFlat(g, Items(ps), Row)
  BY ItemsTyped, FlatFunction
<1>2. Len(Items(ps)) \in 0..Len(Items(ps))
  BY ItemsTyped
<1>3. QED
  BY <1>1, <1>2, ItemsTyped DEF IsFlat

LEMMA SequencesGrow ==
    /\ \A X : \A s \in Seq(X), x \in X :
          Append(s, x) \in Seq(X) /\ Len(Append(s, x)) = Len(s) + 1
    /\ \A X : \A s \in Seq(X) : s # <<>> =>
          Head(s) \in X /\ Tail(s) \in Seq(X) /\ Len(Tail(s)) = Len(s) - 1
<1>1. ASSUME NEW X, NEW s \in Seq(X), NEW x \in X
      PROVE  Append(s, x) \in Seq(X) /\ Len(Append(s, x)) = Len(s) + 1
  BY AppendProperties
<1>2. ASSUME NEW X, NEW s \in Seq(X), s # <<>>
      PROVE  Head(s) \in X /\ Tail(s) \in Seq(X) /\ Len(Tail(s)) = Len(s) - 1
  BY <1>2, HeadTailProperties
<1>3. QED
  BY <1>1, <1>2

LEMMA TypeStarts == Init => TypeInv
<1> SUFFICES ASSUME Init PROVE TypeInv
  OBVIOUS
<1>1. born \in 0..MaxLinks /\ born \in Nat /\ MaxLinks \in Nat
  BY PageAssumption DEF Init, PageAssumption
<1>2. \A k \in 1..born : NewRow(k) \in Row
  BY <1>1 DEF NewRow, Row, Ids, Statuses
<1>3. db \in Seq(Row) /\ Len(db) = born
  <2>1. db = [k \in 1..born |-> NewRow(k)]
    BY DEF Init
  <2>2. QED
    BY <1>1, <1>2, <2>1
<1>4. ServerType
  <2>1. Len(db) <= born
    BY <1>1, <1>3
  <2>2. flag \in BOOLEAN /\ createdAt \in [Ids -> 0..MaxLinks]
    BY DEF Init
  <2>3. QED
    BY <1>1, <1>3, <2>1, <2>2 DEF ServerType
<1>5. queue \in Seq(SUBSET Ids)
  <2>1. CASE queue = <<>>
    BY <2>1
  <2>2. ASSUME NEW S \in SUBSET (1..born), queue = <<S>> PROVE queue \in Seq(SUBSET Ids)
    <3>1. S \in SUBSET Ids
      BY <1>1 DEF Ids
    <3>2. QED
      BY <2>2, <3>1
  <2>3. queue = <<>> \/ \E S \in SUBSET (1..born) : queue = <<S>>
    BY DEF Init
  <2>4. QED
    BY <2>1, <2>2, <2>3
<1>6. WorkType
  BY <1>5 DEF Init, WorkType, NoRun, Runs
<1>7. PageType
  BY PageAssumption DEF Init, PageType, Fetches, Fetch, PageAssumption
<1>8. RestType
  <2>1. stream \in Streams
    BY DEF Init, Streams
  <2>2. acts \in 0..MaxActs /\ incidents \in 0..MaxIncidents
    BY PageAssumption DEF Init, PageAssumption
  <2>3. unheard \in BOOLEAN /\ settled \in BOOLEAN /\ requests \subseteq Requests
    BY DEF Init
  <2>4. QED
    BY <2>1, <2>2, <2>3 DEF RestType
<1>9. QED
  BY <1>4, <1>6, <1>7, <1>8 DEF TypeInv

LEMMA Counted ==
    /\ \A n \in 0..MaxActs : n < MaxActs => n + 1 \in 0..MaxActs
    /\ \A n \in 0..MaxIncidents : n < MaxIncidents => n + 1 \in 0..MaxIncidents
BY PageAssumption DEF PageAssumption

\* The queries.
LEMMA ReadsType ==
    ASSUME TypeInv, NEW f \in Fetches, f.got = linksFetch.got, f.upto = linksFetch.upto,
           MorePages(linksFetch), linksFetch' = Answered(f),
           UNCHANGED <<serverVars, workVars, stream, pages, project, projectFetch, requests,
                       bounds, history>>
    PROVE  TypeInv'
<1>1. Len(f.got) < f.upto
  BY DEF MorePages
<1>2. linksFetch' \in Fetches /\ Len(linksFetch'.got) <= linksFetch'.upto
  BY <1>1, AnsweredTyped
<1>3. QED
  BY <1>2 DEF TypeInv, ServerType, WorkType, PageType, RestType, serverVars, workVars, bounds,
              history

\* What a query has read of the next page.
LEMMA ItemsRead ==
    ASSUME TypeInv, NEW order \in Orders
    PROVE  LET f == [linksFetch EXCEPT !.items = PageOf(order, NextParam(linksFetch.got)),
                                       !.read = @ \cup {"items"}]
           IN /\ f \in Fetches /\ f.got = linksFetch.got /\ f.upto = linksFetch.upto
              /\ f.kind = linksFetch.kind /\ f.read = linksFetch.read \cup {"items"}
              /\ f.items = PageOf(order, Len(linksFetch.got) + 1) /\ f.total = linksFetch.total
              /\ PageOf(order, Len(linksFetch.got) + 1) \in Seq(Row)
<1> DEFINE n == Len(linksFetch.got) + 1
<1>1. linksFetch \in Fetches /\ db \in Seq(Row) /\ Len(db) <= MaxLinks
  BY PageAssumption DEF TypeInv, PageType, ServerType, PageAssumption
<1>2. order \in Seq(Row) /\ Len(order) <= MaxLinks
  BY <1>1, OrderRead
<1>3. n \in Nat \ {0}
  BY <1>1 DEF Fetches
<1> HIDE DEF n
<1>4. PageOf(order, n) \in Seq(Row)
  BY <1>2, <1>3, PageOfRows
<1>5. NextParam(linksFetch.got) = n
  BY DEF NextParam, n
<1>6. QED
  BY <1>1, <1>4, <1>5 DEF Fetches, n

LEMMA TotalRead ==
    ASSUME TypeInv
    PROVE  LET f == [linksFetch EXCEPT !.total = Len(db), !.read = @ \cup {"total"}]
           IN /\ f \in Fetches /\ f.got = linksFetch.got /\ f.upto = linksFetch.upto
              /\ f.kind = linksFetch.kind /\ f.read = linksFetch.read \cup {"total"}
              /\ f.items = linksFetch.items /\ f.total = Len(db)
<1>1. linksFetch \in Fetches /\ db \in Seq(Row) /\ Len(db) <= MaxLinks
  BY PageAssumption DEF TypeInv, PageType, ServerType, PageAssumption
<1>2. Len(db) \in 0..MaxLinks
  BY <1>1, PageAssumption DEF PageAssumption
<1>3. QED
  BY <1>1, <1>2 DEF Fetches

LEMMA QueriesType ==
    ASSUME TypeInv,
           \/ (\E order \in Orders : ReadItems(order)) \/ ReadTotal \/ LandLinks
           \/ ReadProject \/ LandProject \/ FetchFails \/ FetchNext
    PROVE  TypeInv'
<1> USE DEF serverVars, workVars, bounds, history
<1>0. linksFetch \in Fetches /\ Len(linksFetch.got) <= linksFetch.upto
      /\ pages \in Seq(Page) /\ Len(pages) <= MaxPages
  BY DEF TypeInv, PageType
<1>1. NotFetching \in Fetches /\ Len(NotFetching.got) <= NotFetching.upto
  BY PageAssumption DEF NotFetching, Fetch, Fetches, PageAssumption
<1>9. ASSUME NEW order \in Orders, ReadItems(order) PROVE TypeInv'
  BY <1>9, ItemsRead, ReadsType DEF ReadItems
<1>2. CASE ReadTotal
  BY <1>2, TotalRead, ReadsType DEF ReadTotal
<1>3. CASE LandLinks
  <2>1. linksFetch.got \in Seq(Page) /\ Len(linksFetch.got) <= MaxPages
    BY <1>0, PageAssumption DEF Fetches, PageAssumption
  <2>2. QED
    BY <1>1, <1>3, <2>1 DEF LandLinks, TypeInv, ServerType, WorkType, PageType, RestType
<1>4. CASE ReadProject
  BY <1>4 DEF ReadProject, TypeInv, ServerType, WorkType, PageType, RestType
<1>5. CASE LandProject
  BY <1>5 DEF LandProject, NotAsking, TypeInv, ServerType, WorkType, PageType, RestType
<1>6. CASE FetchFails
  <2>1. incidents' \in 0..MaxIncidents /\ settled' \in BOOLEAN
    BY <1>6, Counted DEF FetchFails, TypeInv, RestType
  <2>2. linksFetch' \in Fetches /\ Len(linksFetch'.got) <= linksFetch'.upto
    BY <1>0, <1>1, <1>6 DEF FetchFails
  <2>3. projectFetch' \in [at : {"none", "asked", "read"}, value : BOOLEAN]
    <3>1. NotAsking \in [at : {"none", "asked", "read"}, value : BOOLEAN]
      BY DEF NotAsking
    <3>2. projectFetch' = NotAsking \/ projectFetch' = projectFetch
      BY <1>6 DEF FetchFails
    <3>3. QED
      BY <3>1, <3>2 DEF TypeInv, PageType
  <2>4. QED
    BY <1>6, <2>1, <2>2, <2>3
       DEF FetchFails, TypeInv, ServerType, WorkType, PageType, RestType
<1>7. CASE FetchNext
  <2> DEFINE f == Fetch("next", pages, Len(pages) + 1)
  <2>1. f \in Fetches /\ Len(f.got) <= f.upto
    <3>1. Len(pages) \in Nat /\ Len(pages) < MaxPages
      BY <1>0, <1>7 DEF FetchNext
    <3>2. Len(pages) + 1 \in 0..MaxPages
      BY <3>1, PageAssumption DEF PageAssumption
    <3>3. QED
      BY <1>0, <3>1, <3>2, PageAssumption DEF Fetches, Fetch, PageAssumption
  <2> HIDE DEF f
  <2>2. linksFetch' = f /\ settled' \in BOOLEAN
    BY <1>7 DEF FetchNext, f, TypeInv, RestType
  <2>3. QED
    BY <1>7, <2>1, <2>2 DEF FetchNext, TypeInv, ServerType, WorkType, PageType, RestType
<1>8. QED
  BY <1>2, <1>3, <1>4, <1>5, <1>6, <1>7, <1>9

LEMMA PatchTyped ==
    ASSUME NEW ps \in Seq(Page), NEW e, e.status \in Statuses
    PROVE  /\ Patched(ps, e) \in Seq(Page) /\ Len(Patched(ps, e)) = Len(ps)
           /\ \A p \in 1..Len(ps) :
                 /\ Len(Patched(ps, e)[p].items) = Len(ps[p].items)
                 /\ \A k \in 1..Len(ps[p].items) :
                       Patched(ps, e)[p].items[k].id = ps[p].items[k].id
<1>1. DOMAIN ps = 1..Len(ps) /\ Len(ps) \in Nat /\ \A p \in 1..Len(ps) : ps[p] \in Page
  OBVIOUS
<1> DEFINE w(p) == [ps[p] EXCEPT !.items =
                       [k \in DOMAIN @ |-> IF @[k].id = e.id THEN [@[k] EXCEPT !.status = e.status]
                                           ELSE @[k]]]
           m == [p \in 1..Len(ps) |-> w(p)]
<1>2. ASSUME NEW p \in 1..Len(ps)
      PROVE  /\ w(p) \in Page /\ Len(w(p).items) = Len(ps[p].items)
             /\ \A k \in 1..Len(ps[p].items) : w(p).items[k].id = ps[p].items[k].id
  <2> DEFINE s == ps[p].items
             v(k) == IF s[k].id = e.id THEN [s[k] EXCEPT !.status = e.status] ELSE s[k]
             t == [k \in 1..Len(s) |-> v(k)]
  <2>1. ps[p] \in Page /\ s \in Seq(Row) /\ DOMAIN s = 1..Len(s) /\ Len(s) \in Nat
    BY <1>1 DEF Page
  <2>2. \A k \in 1..Len(s) : s[k] \in Row
    BY <2>1
  <2>3. \A k \in 1..Len(s) : v(k) \in Row /\ v(k).id = s[k].id
    BY <2>2 DEF Row
  <2>4. w(p) = [ps[p] EXCEPT !.items = t]
    BY <2>1
  <2> HIDE DEF v, w
  <2>5. t \in Seq(Row) /\ Len(t) = Len(s) /\ \A k \in 1..Len(s) : t[k] = v(k)
    BY <2>1, <2>3
  <2> HIDE DEF t
  <2>6. w(p) \in Page /\ w(p).items = t
    BY <2>1, <2>4, <2>5 DEF Page
  <2>7. QED
    BY <2>3, <2>5, <2>6
<1>3. Patched(ps, e) = m
  BY <1>1 DEF Patched
<1> HIDE DEF w
<1>4. m \in Seq(Page) /\ Len(m) = Len(ps) /\ \A p \in 1..Len(ps) : m[p] = w(p)
  BY <1>1, <1>2
<1> HIDE DEF m
<1>5. QED
  BY <1>2, <1>3, <1>4

LEMMA WithoutTyped ==
    ASSUME NEW ps \in Seq(Page), NEW i
    PROVE  /\ Without(ps, i) \in Seq(Page) /\ Len(Without(ps, i)) = Len(ps)
           /\ \A p \in 1..Len(ps) : /\ ps[p].items \in Seq(Row)
                                    /\ Without(ps, i)[p].items = Kept(ps[p].items, Others(i))
<1>1. DOMAIN ps = 1..Len(ps) /\ Len(ps) \in Nat /\ \A p \in 1..Len(ps) : ps[p] \in Page
  OBVIOUS
<1> DEFINE w(p) == [items |-> Kept(ps[p].items, Others(i)),
                    total |-> IF ps[p].total = 0 THEN 0 ELSE ps[p].total - 1]
           m == [p \in 1..Len(ps) |-> w(p)]
<1>2. ASSUME NEW p \in 1..Len(ps) PROVE w(p) \in Page
  <2>1. ps[p].items \in Seq(Row) /\ ps[p].total \in 0..MaxLinks
    BY <1>1 DEF Page
  <2>2. Kept(ps[p].items, Others(i)) \in Seq(Row \cap Others(i))
    BY <2>1, KeptType
  <2>3. Row \cap Others(i) \subseteq Row
    OBVIOUS
  <2>4. Kept(ps[p].items, Others(i)) \in Seq(Row)
    BY <2>2, <2>3, SeqMonotonic
  <2>5. (IF ps[p].total = 0 THEN 0 ELSE ps[p].total - 1) \in 0..MaxLinks
    BY <2>1, PageAssumption DEF PageAssumption
  <2>6. QED
    BY <2>4, <2>5 DEF Page
<1>3. Without(ps, i) = m
  BY <1>1 DEF Without
<1>4. \A p \in 1..Len(ps) : w(p).items = Kept(ps[p].items, Others(i))
  OBVIOUS
<1> HIDE DEF w
<1>5. m \in Seq(Page) /\ Len(m) = Len(ps) /\ \A p \in 1..Len(ps) : m[p] = w(p)
  BY <1>1, <1>2
<1> HIDE DEF m
<1>6. \A p \in 1..Len(ps) : ps[p].items \in Seq(Row)
  BY <1>1 DEF Page
<1>7. QED
  BY <1>3, <1>4, <1>5, <1>6

\* The stream.
LEMMA StreamType ==
    ASSUME TypeInv,
           Connect \/ Deliver \/ \E next \in {"connecting", "dead"} : Drop(next)
    PROVE  TypeInv'
<1> USE DEF serverVars, workVars, pageVars, bounds, history
<1>1. stream.queue \in Seq(Events) /\ stream \in Streams
  BY DEF TypeInv, RestType, Streams
<1>2. CASE Connect
  <2>1. stream' \in Streams
    BY <1>1, <1>2 DEF Connect, Streams
  <2>2. QED
    BY <1>2, <2>1 DEF Connect, TypeInv, ServerType, WorkType, PageType, RestType
<1>3. ASSUME NEW next \in {"connecting", "dead"}, Drop(next) PROVE TypeInv'
  <2>1. stream' \in Streams
    BY <1>3 DEF Drop, Streams
  <2>2. incidents' \in 0..MaxIncidents
    BY <1>3, Counted DEF Drop, TypeInv, RestType
  <2>3. unheard' \in BOOLEAN /\ settled' \in BOOLEAN
    BY <1>3 DEF Drop, TypeInv, RestType
  <2>4. QED
    BY <1>3, <2>1, <2>2, <2>3 DEF Drop, TypeInv, ServerType, WorkType, PageType, RestType
<1>4. CASE Deliver
  <2> DEFINE e == Head(stream.queue)
  <2>1. e \in Events /\ Tail(stream.queue) \in Seq(Events)
    BY <1>1, <1>4, SequencesGrow DEF Deliver
  <2>2. stream' \in Streams
    BY <1>1, <1>4, <2>1 DEF Deliver, Streams
  <2>3. UNCHANGED <<serverVars, workVars, requests, bounds>>
    BY <1>4 DEF Deliver
  <2>4. ServerType' /\ WorkType' /\ requests' \subseteq Requests
        /\ acts' \in 0..MaxActs /\ incidents' \in 0..MaxIncidents
    BY <2>3 DEF TypeInv, ServerType, WorkType, RestType
  <2>5. CASE ApplyLinkUpdated(e)
    <3>1. e.status \in Statuses
      BY <2>1, <2>5 DEF ApplyLinkUpdated, Events
    <3> HIDE DEF e
    <3>2. Patched(pages, e) \in Seq(Page) /\ Len(Patched(pages, e)) = Len(pages)
      BY <3>1, PatchTyped DEF TypeInv, PageType
    <3>3. PageType'
      BY <2>5, <3>2 DEF ApplyLinkUpdated, TypeInv, PageType
    <3>4. unheard' \in BOOLEAN /\ settled' \in BOOLEAN
      BY <2>5 DEF ApplyLinkUpdated, TypeInv, RestType
    <3>5. QED
      BY <2>2, <2>4, <3>3, <3>4 DEF TypeInv, RestType
  <2>6. CASE ApplyLockChanged(e)
    <3>1. e.on \in BOOLEAN
      BY <2>1, <2>6 DEF ApplyLockChanged, Events
    <3> HIDE DEF e
    <3>2. project' \in BOOLEAN \cup {None}
      BY <2>6, <3>1 DEF ApplyLockChanged
    <3>3. unheard' \in BOOLEAN
      BY <2>6 DEF ApplyLockChanged
    <3>4. /\ linksFetch' \in Fetches /\ Len(linksFetch'.got) <= linksFetch'.upto
          /\ projectFetch' \in [at : {"none", "asked", "read"}, value : BOOLEAN]
          /\ settled' \in BOOLEAN
      <4>1. PageType
        BY DEF TypeInv
      <4>2. CASE e.on
        BY <2>6, <4>1, <4>2 DEF ApplyLockChanged, PageType, TypeInv, RestType
      <4>3. CASE ~e.on
        <5>1. /\ linksFetch' = RefetchLinks(pages) /\ projectFetch' = RefetchProject
              /\ settled' = Anew
          BY <2>6, <4>3 DEF ApplyLockChanged
        <5>2. settled' \in BOOLEAN
          BY <5>1 DEF Anew
        <5>3. QED
          BY <4>1, <5>1, <5>2, RefetchTyped
      <4>4. QED
        BY <4>2, <4>3
    <3>5. pages' = pages
      BY <2>6 DEF ApplyLockChanged
    <3>6. QED
      BY <2>2, <2>4, <3>2, <3>3, <3>4, <3>5 DEF TypeInv, PageType, RestType
  <2>7. QED
    BY <1>4, <2>5, <2>6 DEF Deliver
<1>5. QED
  BY <1>2, <1>3, <1>4

LEMMA ShownTyped ==
    ASSUME pages \in Seq(Page)
    PROVE  ShownIds \subseteq Ids
<1>1. Shown \in Seq(Row)
  BY LoadedTyped DEF Shown
<1>2. \A k \in DOMAIN Shown : Shown[k] \in Row
  BY <1>1
<1>3. QED
  BY <1>2 DEF ShownIds, Row

LEMMA AskType ==
    ASSUME TypeInv, NEW kind \in {"delete", "deleteAll", "add"}, NEW i \in Ids \cup {0},
           Ask(kind, i)
    PROVE  TypeInv'
<1>1. [kind |-> kind, id |-> i, at |-> "sent"] \in Requests
  BY DEF Requests
<1>2. requests' \subseteq Requests
  BY <1>1 DEF Ask, TypeInv, RestType
<1>3. acts' \in 0..MaxActs
  BY Counted DEF Ask, TypeInv, RestType
<1>4. QED
  BY <1>2, <1>3 DEF Ask, TypeInv, ServerType, WorkType, PageType, RestType, serverVars,
                    workVars, pageVars, history

\* The buttons.
LEMMA UserType == TypeInv /\ User => TypeInv'
<1> SUFFICES ASSUME TypeInv, User PROVE TypeInv'
  OBVIOUS
<1> USE DEF serverVars, workVars, pageVars, bounds, history
<1>1. ShownIds \subseteq Ids
  BY ShownTyped DEF TypeInv, PageType
<1>2. CASE ClickDeleteAll
  BY <1>2, AskType DEF ClickDeleteAll
<1>3. CASE SubmitLinks
  BY <1>3, AskType DEF SubmitLinks
<1>4. ASSUME NEW i \in ShownIds, ClickDelete(i) PROVE TypeInv'
  BY <1>1, <1>4, AskType DEF ClickDelete
<1>5. CASE ClickStart
  <2>1. db \in Seq(Row)
    BY DEF TypeInv, ServerType
  <2>2. \A k \in DOMAIN db : db[k] \in Row
    BY <2>1
  <2>3. Eligible \in SUBSET Ids
    BY <2>2 DEF Eligible, Row
  <2>4. queue' \in Seq(SUBSET Ids)
    BY <1>5, <2>3, SequencesGrow DEF ClickStart, TypeInv, WorkType
  <2>5. acts' \in 0..MaxActs
    BY <1>5, Counted DEF ClickStart, TypeInv, RestType
  <2>6. QED
    BY <1>5, <2>4, <2>5 DEF ClickStart, TypeInv, ServerType, WorkType, PageType, RestType
<1>6. ASSUME NEW i \in ShownIds, ClickRecheck(i) PROVE TypeInv'
  <2>1. [id |-> i, by |-> "job", at |-> "waiting"] \in Checks
    BY <1>1 DEF Checks
  <2>2. checks' \subseteq Checks
    BY <1>6, <2>1 DEF ClickRecheck, TypeInv, WorkType
  <2>3. acts' \in 0..MaxActs
    BY <1>6, Counted DEF ClickRecheck, TypeInv, RestType
  <2>4. QED
    BY <1>6, <2>2, <2>3 DEF ClickRecheck, TypeInv, ServerType, WorkType, PageType, RestType
<1>7. QED
  BY <1>2, <1>3, <1>4, <1>5, <1>6 DEF User

\* The rows a request may leave: those it kept, none, or one more, with a new id.
\* A batch joins the table at its end.
LEMMA Created ==
    ASSUME ServerType, NEW n \in 1..(MaxLinks - born), Create(n)
    PROVE  /\ n \in Nat \ {0} /\ born \in Nat /\ born' = born + n /\ born' \in 0..MaxLinks
           /\ db' \in Seq(Row) /\ Len(db) \in Nat /\ Len(db') = Len(db) + n
           /\ \A i \in 1..Len(db) : db'[i] = db[i]
           /\ \A i \in 1..Len(db') : i \in 1..Len(db) \/ (i > Len(db) /\ db'[i].id = born + (i - Len(db)))
           /\ createdAt' \in [Ids -> 0..MaxLinks]
           /\ \A i \in Ids : createdAt'[i] = IF i \in (born + 1)..(born + n) THEN born + 1
                                           ELSE createdAt[i]
<1> DEFINE w == [k \in 1..n |-> NewRow(born + k)]
           L == Len(db)
<1>1. /\ n \in Nat \ {0} /\ born \in Nat /\ MaxLinks \in Nat /\ born + n <= MaxLinks
      /\ db \in Seq(Row) /\ L \in Nat
  BY PageAssumption DEF ServerType, PageAssumption
<1>2. /\ db' = db \o w /\ born' = born + n
      /\ createdAt' = [i \in Ids |-> IF i \in (born + 1)..(born + n) THEN born + 1
                                    ELSE createdAt[i]]
  BY DEF Create
<1>3. ASSUME NEW k \in 1..n PROVE NewRow(born + k) \in Row /\ NewRow(born + k).id = born + k
  <2>1. born + k \in Ids
    BY <1>1 DEF Ids
  <2>2. QED
    BY <2>1 DEF NewRow, Row, Statuses
<1>4. w \in Seq(Row) /\ Len(w) = n /\ \A k \in 1..n : w[k].id = born + k
  <2> DEFINE v(k) == NewRow(born + k)
  <2>1. w = [k \in 1..n |-> v(k)] /\ \A k \in 1..n : v(k) \in Row /\ v(k).id = born + k
    BY <1>3
  <2> HIDE DEF v, w
  <2>2. QED
    BY <1>1, <2>1
<1> HIDE DEF w, L
<1>5. /\ db' \in Seq(Row) /\ Len(db') = L + n
      /\ \A i \in 1 .. L + n : db'[i] = IF i <= L THEN db[i] ELSE w[i - L]
  BY <1>1, <1>2, <1>4, ConcatProperties DEF L
<1>6. \A i \in 1..L : db'[i] = db[i]
  BY <1>1, <1>5
<1>7. ASSUME NEW i \in 1..(L + n), ~(i \in 1..L)
      PROVE  i > L /\ db'[i].id = born + (i - L)
  <2>1. i > L /\ i - L \in 1..n
    BY <1>1, <1>7
  <2>2. QED
    BY <1>1, <1>4, <1>5, <2>1
<1>8. createdAt' \in [Ids -> 0..MaxLinks]
  <2>1. born + 1 \in 0..MaxLinks
    BY <1>1
  <2>2. QED
    BY <1>2, <2>1 DEF ServerType
<1>9. born' \in 0..MaxLinks
  BY <1>1, <1>2
<1>10. QED
  BY <1>1, <1>2, <1>5, <1>6, <1>7, <1>8, <1>9 DEF L

LEMMA ServedRows ==
    ASSUME ServerType, NEW r \in Requests, ServeWrite(r)
    PROVE  ServerType'
<1>1. flag' = flag
  BY DEF ServeWrite
<1>2. db \in Seq(Row) /\ Len(db) \in Nat /\ Len(db) <= born /\ born \in 0..MaxLinks
      /\ flag \in BOOLEAN /\ createdAt \in [Ids -> 0..MaxLinks]
  BY DEF ServerType
<1>3. CASE r.kind = "delete" /\ db' = Kept(db, Others(r.id)) /\ UNCHANGED <<born, createdAt>>
  <2>1. Kept(db, Others(r.id)) \in Seq(Row \cap Others(r.id))
    BY <1>2, KeptType
  <2>2. Row \cap Others(r.id) \subseteq Row
    OBVIOUS
  <2>3. db' \in Seq(Row) /\ Len(db') \in Nat
    BY <1>3, <2>1, <2>2, SeqMonotonic
  <2>4. Len(db') <= Len(db)
    BY <1>2, <1>3, KeptShorter
  <2>5. QED
    BY <1>1, <1>2, <1>3, <2>3, <2>4 DEF ServerType
<1>4. CASE db' = <<>> /\ UNCHANGED <<born, createdAt>>
  BY <1>1, <1>2, <1>4 DEF ServerType
<1>5. ASSUME NEW n \in 1..(MaxLinks - born), Create(n) PROVE ServerType'
  <2>1. /\ n \in Nat /\ born \in Nat /\ born' = born + n /\ born' \in 0..MaxLinks
        /\ db' \in Seq(Row) /\ Len(db') = Len(db) + n /\ createdAt' \in [Ids -> 0..MaxLinks]
    BY <1>5, Created
  <2>2. Len(db') <= born'
    BY <1>2, <2>1
  <2>3. QED
    BY <1>1, <1>2, <2>1, <2>2 DEF ServerType
<1>6. QED
  BY <1>3, <1>4, <1>5 DEF ServeWrite

\* The requests.
LEMMA RequestsType ==
    ASSUME TypeInv, NEW r \in requests,
           ServeWrite(r) \/ DeleteAnswered(r) \/ WriteAnswered(r) \/ AnswerLost(r)
    PROVE  TypeInv'
<1> USE DEF serverVars, workVars, pageVars, bounds, history
<1>0. r \in Requests /\ requests \subseteq Requests /\ PageType
  BY DEF TypeInv, RestType
<1>1. CASE ServeWrite(r)
  <2>1. ServerType'
    BY <1>0, <1>1, ServedRows DEF TypeInv
  <2>2. [r EXCEPT !.at = "done"] \in Requests
    BY <1>0 DEF Requests
  <2>3. requests' \subseteq Requests
    BY <1>0, <1>1, <2>2 DEF ServeWrite
  <2>4. QED
    BY <1>1, <2>1, <2>3 DEF ServeWrite, TypeInv, WorkType, PageType, RestType
<1>2. CASE DeleteAnswered(r)
  <2>1. pages' \in Seq(Page) /\ Len(pages') = Len(pages)
    BY <1>0, <1>2, WithoutTyped DEF DeleteAnswered, PageType
  <2>2. projectFetch' \in [at : {"none", "asked", "read"}, value : BOOLEAN]
    BY <1>0, <1>2, RefetchTyped DEF DeleteAnswered
  <2>3. QED
    BY <1>0, <1>2, <2>1, <2>2 DEF DeleteAnswered, TypeInv, ServerType, WorkType, PageType, RestType
<1>3. CASE WriteAnswered(r)
  <2>1. /\ linksFetch' \in Fetches /\ Len(linksFetch'.got) <= linksFetch'.upto
        /\ projectFetch' \in [at : {"none", "asked", "read"}, value : BOOLEAN]
    BY <1>0, <1>3, RefetchTyped DEF WriteAnswered
  <2>2. settled' \in BOOLEAN
    BY <1>3 DEF WriteAnswered, Anew
  <2>3. QED
    BY <1>0, <1>3, <2>1, <2>2 DEF WriteAnswered, TypeInv, ServerType, WorkType, PageType, RestType
<1>4. CASE AnswerLost(r)
  <2>1. incidents' \in 0..MaxIncidents
    BY <1>4, Counted DEF AnswerLost, TypeInv, RestType
  <2>2. QED
    BY <1>0, <1>4, <2>1 DEF AnswerLost, TypeInv, ServerType, WorkType, PageType, RestType
<1>5. QED
  BY <1>1, <1>2, <1>3, <1>4

\* The worker.
LEMMA RunType ==
    ASSUME TypeInv,
           RunLocks \/ RunSkips \/ RunMarks \/ RunTells
           \/ \E written \in BOOLEAN : RunClears(written)
    PROVE  TypeInv'
<1> USE DEF serverVars, workVars, pageVars, bounds, history
<1>0. queue \in Seq(SUBSET Ids) /\ run \in Runs /\ stream \in Streams /\ unheard \in BOOLEAN
      /\ db \in Seq(Row)
  BY DEF TypeInv, WorkType, RestType, ServerType
<1>1. CASE RunLocks
  <2>1. Head(queue) \in SUBSET Ids /\ queue' \in Seq(SUBSET Ids)
    BY <1>0, <1>1, SequencesGrow DEF RunLocks
  <2>2. run' \in Runs
    BY <1>1, <2>1 DEF RunLocks, Runs
  <2>3. stream' \in Streams /\ unheard' \in BOOLEAN
    BY <1>0, <1>1, EventsTyped, PublishTyped DEF RunLocks
  <2>4. flag' \in BOOLEAN /\ settled' \in BOOLEAN
    BY <1>1 DEF RunLocks
  <2>5. QED
    BY <1>1, <2>1, <2>2, <2>3, <2>4
       DEF RunLocks, TypeInv, ServerType, WorkType, PageType, RestType
<1>2. CASE RunSkips
  <2>1. queue' \in Seq(SUBSET Ids)
    BY <1>0, <1>2, SequencesGrow DEF RunSkips
  <2>2. QED
    BY <1>2, <2>1 DEF RunSkips, TypeInv, ServerType, WorkType, PageType, RestType
<1>3. CASE RunMarks
  <2>1. run' \in Runs
    BY <1>0, <1>3 DEF RunMarks, Runs
  <2>2. run.links \in SUBSET Ids /\ "QUEUED" \in Statuses
    BY <1>0 DEF Runs, Statuses
  <2>3. db' \in Seq(Row) /\ Len(db') = Len(db)
    BY <1>0, <1>3, <2>2, WritesTyped DEF RunMarks
  <2>4. \A i \in run.links : [id |-> i, by |-> "run", at |-> "waiting"] \in Checks
    BY <2>2 DEF Checks
  <2>5. checks' \subseteq Checks
    BY <1>3, <2>4 DEF RunMarks, TypeInv, WorkType
  <2>6. settled' \in BOOLEAN
    BY <1>3 DEF RunMarks
  <2>7. QED
    BY <1>3, <2>1, <2>3, <2>5, <2>6
       DEF RunMarks, TypeInv, ServerType, WorkType, PageType, RestType
<1>4. CASE RunTells
  <2>1. run' \in Runs
    BY <1>4 DEF RunTells, NoRun, Runs
  <2>2. stream' \in Streams /\ unheard' \in BOOLEAN
    BY <1>0, <1>4, EventsTyped, PublishTyped DEF RunTells
  <2>3. settled' \in BOOLEAN
    BY <1>4 DEF RunTells, TypeInv, RestType
  <2>4. QED
    BY <1>4, <2>1, <2>2, <2>3 DEF RunTells, TypeInv, ServerType, WorkType, PageType, RestType
<1>5. ASSUME NEW written \in BOOLEAN, RunClears(written) PROVE TypeInv'
  <2>1. run' \in Runs
    BY <1>0, <1>5 DEF RunClears, Runs
  <2>2. flag' \in BOOLEAN /\ settled' \in BOOLEAN
    BY <1>5 DEF RunClears, TypeInv, ServerType
  <2>3. incidents' \in 0..MaxIncidents
    BY <1>5, Counted DEF RunClears, TypeInv, RestType
  <2>4. QED
    BY <1>5, <2>1, <2>2, <2>3 DEF RunClears, TypeInv, ServerType, WorkType, PageType, RestType
<1>6. QED
  BY <1>1, <1>2, <1>3, <1>4, <1>5

LEMMA CheckType ==
    ASSUME TypeInv, NEW c \in checks,
           CheckBegins(c) \/ CheckThrows(c) \/ \E o \in Outcomes : CheckEnds(c, o)
    PROVE  TypeInv'
<1> USE DEF serverVars, workVars, pageVars, bounds, history
<1>0. /\ c \in Checks /\ checks \subseteq Checks /\ run \in Runs /\ stream \in Streams
      /\ unheard \in BOOLEAN /\ settled \in BOOLEAN /\ db \in Seq(Row)
  BY DEF TypeInv, WorkType, RestType, ServerType
<1>1. c.id \in Ids /\ {c.id} \in SUBSET Ids /\ "CHECKING" \in Statuses
  BY <1>0 DEF Checks, Statuses
<1>2. CASE CheckBegins(c)
  <2>1. [c EXCEPT !.at = "crawling"] \in Checks
    BY <1>0 DEF Checks
  <2>2. checks' \subseteq Checks
    BY <1>0, <1>2, <2>1 DEF CheckBegins
  <2>3. CASE Exists(c.id)
    <3>1. db' \in Seq(Row) /\ Len(db') = Len(db)
      BY <1>0, <1>1, <1>2, <2>3, WritesTyped DEF CheckBegins
    <3>2. stream' \in Streams /\ unheard' \in BOOLEAN
      BY <1>0, <1>1, <1>2, <2>3, EventsTyped, PublishTyped DEF CheckBegins
    <3>3. settled' \in BOOLEAN
      BY <1>2, <2>3 DEF CheckBegins
    <3>4. QED
      BY <1>2, <2>2, <3>1, <3>2, <3>3
         DEF CheckBegins, TypeInv, ServerType, WorkType, PageType, RestType
  <2>4. CASE ~Exists(c.id)
    BY <1>2, <2>2, <2>4 DEF CheckBegins, TypeInv, ServerType, WorkType, PageType, RestType
  <2>5. QED
    BY <2>3, <2>4
<1>3. CASE CheckThrows(c)
  <2>1. checks' \subseteq Checks
    BY <1>0, <1>3 DEF CheckThrows
  <2>2. run' \in Runs
    BY <1>0, <1>3 DEF CheckThrows, Runs
  <2>3. QED
    BY <1>3, <2>1, <2>2 DEF CheckThrows, TypeInv, ServerType, WorkType, PageType, RestType
<1>4. ASSUME NEW o \in Outcomes, CheckEnds(c, o) PROVE TypeInv'
  <2>1. checks' \subseteq Checks
    BY <1>0, <1>4 DEF CheckEnds
  <2>2. db' \in Seq(Row) /\ Len(db') = Len(db)
    BY <1>0, <1>1, <1>4, WritesTyped DEF CheckEnds
  <2>3. o.status \in Statuses
    BY PageAssumption DEF PageAssumption, Statuses
  <2>4. LinkUpdated(c.id, o.status) \in Events
    BY <1>1, <2>3, EventsTyped
  <2>5. stream' \in Streams /\ unheard' \in BOOLEAN
    BY <1>0, <1>4, <2>4, PublishTyped DEF CheckEnds
  <2>6. settled' \in BOOLEAN
    BY <1>4 DEF CheckEnds
  <2>7. QED
    BY <1>4, <2>1, <2>2, <2>5, <2>6
       DEF CheckEnds, TypeInv, ServerType, WorkType, PageType, RestType
<1>5. QED
  BY <1>2, <1>3, <1>4

LEMMA TypeNext == TypeInv /\ [Next]_vars => TypeInv'
<1> SUFFICES ASSUME TypeInv, [Next]_vars PROVE TypeInv'
  OBVIOUS
<1>1. CASE UNCHANGED vars
  BY <1>1 DEF vars, TypeInv, ServerType, WorkType, PageType, RestType
<1>2. CASE System
  BY <1>2, QueriesType, StreamType, RequestsType, RunType, CheckType DEF System
<1>3. CASE FetchNext
  BY <1>3, QueriesType
<1>4. CASE User
  BY <1>4, UserType
<1>5. CASE Faults
  BY <1>5, QueriesType, StreamType, RequestsType, RunType DEF Faults
<1>6. QED
  BY <1>1, <1>2, <1>3, <1>4, <1>5 DEF Next

LEMMA TypeAlways == Spec => []TypeInv
BY TypeStarts, TypeNext, PTL DEF Spec

\* Type correctness of the page and of what it sees of the rest: no fetch brings more pages
\* than it asked for, and no page counts fewer links than none, however late the answer to
\* a deletion comes (LinksTable.tsx:190).
THEOREM PagesTyped == Spec => []TypeOK
BY TypeAlways, TypesAreRight, PTL

(***************************************************************************)
(* No row twice.  The table is in the order of createdAt, for it grows at  *)
(* its end; a deletion moves rows towards the front only.  So what stands  *)
(* behind the pages that are loaded is newer than all they hold, or of the *)
(* same batch, whenever each of them was read, and in whatever order the   *)
(* rows of a batch were.                                                   *)
(***************************************************************************)

\* c is createdAt: link i shares it with another; it comes before that of j, or is the same
\* and shared.
Shared(c, i) == \E j \in Ids : j # i /\ c[j] = c[i]
Older(c, i, j) == c[i] < c[j] \/ (c[i] = c[j] /\ Shared(c, i))

\* The m links there ever were have theirs, those to come have none.
Ages(c, m) ==
    /\ c \in [Ids -> 0..MaxLinks]
    /\ \A i \in Ids : IF i <= m THEN c[i] \in 1..m ELSE c[i] = 0

Sorted(c, s) == \A i, j \in DOMAIN s : i < j => Older(c, s[i].id, s[j].id)
Ordered(c, rows, m) == Sorted(c, rows) /\ \A k \in DOMAIN rows : rows[k].id <= m

\* The pages hold ever newer rows, from page to page and within each.
Rising(c, ps) ==
    \A p, q \in DOMAIN ps : \A k \in DOMAIN ps[p].items, l \in DOMAIN ps[q].items :
        p < q \/ (p = q /\ k < l) => Older(c, ps[p].items[k].id, ps[q].items[l].id)

\* The rows behind as many pages are newer, and there are others still to be created.
Ahead(c, ps, rows, m) ==
    \A p \in DOMAIN ps : \A k \in DOMAIN ps[p].items :
        /\ ps[p].items[k].id <= m
        /\ \A j \in DOMAIN rows :
              j > Len(ps) * PageSize => Older(c, ps[p].items[k].id, rows[j].id)

InOrder(c, ps, rows, m) == Rising(c, ps) /\ Ahead(c, ps, rows, m)

\* The pages that a fetch has, and those it has once the other query answers.
Next1(f) == Append(f.got, [items |-> f.items, total |-> f.total])
Held(f) == {f.got} \cup {ps \in {Next1(f)} : "items" \in f.read}

OrderInv ==
    /\ Ages(createdAt, born) /\ Ordered(createdAt, db, born)
    /\ \A ps \in {pages} \cup Held(linksFetch) : InOrder(createdAt, ps, db, born)

\* What may happen to the table: rows leave, others are rewritten, some join at the end.
Moves(rows, m, next, n) ==
    /\ m <= n
    /\ \A j \in DOMAIN next :
          (\E i \in DOMAIN rows : j <= i /\ next[j].id = rows[i].id) \/ next[j].id > m

\* Those that join are newer than all there were.
Grown(c, m, d, n) ==
    /\ m <= n /\ d \in [Ids -> Nat]
    /\ \A i \in Ids : IF i <= m THEN d[i] = c[i] ELSE i <= n => d[i] > m

LEMMA OlderStays ==
    ASSUME NEW c, NEW d, NEW m \in Nat, NEW n \in Nat, Ages(c, m), Grown(c, m, d, n)
    PROVE  /\ \A i, j \in Ids : i <= m /\ j <= m /\ Older(c, i, j) => Older(d, i, j)
           /\ \A i, j \in Ids : i <= m /\ j > m /\ j <= n => Older(d, i, j)
<1>1. \A i \in Ids : c[i] \in Nat /\ (i <= m => d[i] = c[i] /\ c[i] <= m /\ c[i] > 0)
                     /\ (i > m => c[i] = 0) /\ (i > m /\ i <= n => d[i] > m) /\ i \in Nat
  BY PageAssumption DEF Ages, Grown, Ids, PageAssumption
<1>2. ASSUME NEW i \in Ids, i <= m, Shared(c, i) PROVE Shared(d, i)
  <2>1. PICK j \in Ids : j # i /\ c[j] = c[i]
    BY <1>2 DEF Shared
  <2>2. j <= m
    BY <1>1, <1>2, <2>1
  <2>3. d[j] = d[i]
    BY <1>1, <1>2, <2>1, <2>2
  <2>4. QED
    BY <2>1, <2>3 DEF Shared
<1>3. ASSUME NEW i \in Ids, NEW j \in Ids, i <= m, j <= m, Older(c, i, j) PROVE Older(d, i, j)
  BY <1>1, <1>2, <1>3 DEF Older
<1>4. ASSUME NEW i \in Ids, NEW j \in Ids, i <= m, j > m, j <= n PROVE Older(d, i, j)
  <2>1. d[i] <= m /\ d[i] \in Nat /\ d[j] > m /\ d[j] \in Nat
    BY <1>1, <1>4 DEF Grown
  <2>2. QED
    BY <2>1 DEF Older
<1>5. QED
  BY <1>3, <1>4

\* Rows have ids.
LEMMA RowIds ==
    /\ \A rows \in Seq(Row) : \A j \in DOMAIN rows : j \in Nat /\ rows[j].id \in Ids
    /\ \A ps \in Seq(Page) : \A p \in DOMAIN ps : \A k \in DOMAIN ps[p].items :
          ps[p].items \in Seq(Row) /\ ps[p].items[k].id \in Ids
    /\ \A i \in Ids : i \in Nat /\ i > 0
<1>1. \A r \in Row : r.id \in Ids
  BY DEF Row
<1>2. ASSUME NEW rows \in Seq(Row), NEW j \in DOMAIN rows PROVE j \in Nat /\ rows[j].id \in Ids
  <2>1. rows[j] \in Row /\ j \in Nat
    OBVIOUS
  <2>2. QED
    BY <1>1, <2>1
<1>3. ASSUME NEW ps \in Seq(Page), NEW p \in DOMAIN ps, NEW k \in DOMAIN ps[p].items
      PROVE  ps[p].items \in Seq(Row) /\ ps[p].items[k].id \in Ids
  <2>1. ps[p] \in Page
    OBVIOUS
  <2>2. ps[p].items \in Seq(Row)
    BY <2>1 DEF Page
  <2>3. QED
    BY <1>2, <2>2
<1>4. \A i \in Ids : i \in Nat /\ i > 0
  BY DEF Ids
<1>5. QED
  BY <1>2, <1>3, <1>4

LEMMA InOrderStays ==
    ASSUME NEW rows \in Seq(Row), NEW next \in Seq(Row), NEW m \in Nat, NEW n \in Nat,
           Moves(rows, m, next, n), NEW c, NEW d, Ages(c, m), Grown(c, m, d, n),
           \A j \in DOMAIN rows : rows[j].id <= m, \A j \in DOMAIN next : next[j].id <= n,
           NEW ps \in Seq(Page), InOrder(c, ps, rows, m)
    PROVE  InOrder(d, ps, next, n)
<1>1. \A p \in DOMAIN ps : \A k \in DOMAIN ps[p].items :
         ps[p].items[k].id \in Ids /\ ps[p].items[k].id <= m
  BY RowIds DEF InOrder, Ahead
<1>2. Rising(d, ps)
  <2> SUFFICES ASSUME NEW p \in DOMAIN ps, NEW q \in DOMAIN ps,
                      NEW k \in DOMAIN ps[p].items, NEW l \in DOMAIN ps[q].items,
                      p < q \/ (p = q /\ k < l)
               PROVE  Older(d, ps[p].items[k].id, ps[q].items[l].id)
    BY DEF Rising
  <2>1. Older(c, ps[p].items[k].id, ps[q].items[l].id)
    BY DEF InOrder, Rising
  <2>2. QED
    BY <1>1, <2>1, OlderStays
<1>3. Ahead(d, ps, next, n)
  <2> SUFFICES ASSUME NEW p \in DOMAIN ps, NEW k \in DOMAIN ps[p].items
               PROVE  /\ ps[p].items[k].id <= n
                      /\ \A j \in DOMAIN next :
                            j > Len(ps) * PageSize => Older(d, ps[p].items[k].id, next[j].id)
    BY DEF Ahead
  <2> DEFINE x == ps[p].items[k].id
             z == Len(ps) * PageSize
  <2>1. x \in Ids /\ x \in Nat /\ x <= m
    BY <1>1, RowIds
  <2>2. \A j \in DOMAIN rows : j > z => Older(c, x, rows[j].id)
    BY DEF InOrder, Ahead
  <2>3. z \in Nat
    BY PageAssumption DEF PageAssumption
  <2> HIDE DEF x, z
  <2>4. x <= n
    BY <2>1 DEF Moves
  <2>5. ASSUME NEW j \in DOMAIN next, j > z PROVE Older(d, x, next[j].id)
    <3>1. next[j].id \in Ids /\ next[j].id <= n /\ j \in Nat
      BY RowIds
    <3>2. CASE next[j].id > m
      BY <2>1, <3>1, <3>2, OlderStays
    <3>3. ASSUME NEW i \in DOMAIN rows, j <= i, next[j].id = rows[i].id
          PROVE  Older(d, x, next[j].id)
      <4>1. i \in Nat /\ rows[i].id \in Ids /\ rows[i].id <= m
        BY RowIds
      <4>2. i > z
        BY <2>3, <2>5, <3>1, <3>3, <4>1
      <4>3. Older(c, x, rows[i].id)
        BY <2>2, <4>2
      <4>4. QED
        BY <2>1, <3>3, <4>1, <4>3, OlderStays
    <3>4. QED
      BY <3>2, <3>3 DEF Moves
  <2>6. QED
    BY <2>4, <2>5 DEF x, z
<1>4. QED
  BY <1>2, <1>3 DEF InOrder

\* A write that leaves the ids alone.
LEMMA SameIdsMove ==
    ASSUME NEW rows \in Seq(Row), NEW next \in Seq(Row), NEW m \in Nat, NEW c, Ordered(c, rows, m),
           Len(next) = Len(rows), \A k \in 1..Len(rows) : next[k].id = rows[k].id
    PROVE  Moves(rows, m, next, m) /\ Ordered(c, next, m)
<1>1. DOMAIN rows = 1..Len(rows) /\ DOMAIN next = 1..Len(rows) /\ Len(rows) \in Nat
  OBVIOUS
<1>2. \A j \in DOMAIN next : j <= j /\ next[j].id = rows[j].id /\ j \in DOMAIN rows
  BY <1>1
<1>3. QED
  BY <1>1, <1>2 DEF Moves, Ordered, Sorted

LEMMA KeptMoves ==
    ASSUME NEW rows \in Seq(Row), NEW m \in Nat, NEW c, Ordered(c, rows, m), NEW S
    PROVE  Moves(rows, m, Kept(rows, S), m) /\ Ordered(c, Kept(rows, S), m)
<1> DEFINE s == Kept(rows, S)
<1>1. PICK f : IsSpread(f, s, rows, Len(rows))
  BY KeptInOrder
<1>2. s \in Seq(Row \cap S)
  BY KeptType
<1>3. DOMAIN s = 1..Len(s) /\ DOMAIN rows = 1..Len(rows) /\ Len(s) \in Nat /\ Len(rows) \in Nat
  BY <1>2
<1> HIDE DEF s
<1>4. /\ \A i \in 1..Len(s) : f[i] \in 1..Len(rows) /\ s[i] = rows[f[i]] /\ i <= f[i]
      /\ \A i, j \in 1..Len(s) : i < j => f[i] < f[j]
  BY <1>1 DEF IsSpread
<1>5. Moves(rows, m, s, m)
  BY <1>3, <1>4 DEF Moves
<1>6. \A i, j \in DOMAIN s : i < j => Older(c, s[i].id, s[j].id)
  BY <1>3, <1>4 DEF Ordered, Sorted
<1>7. \A k \in DOMAIN s : s[k].id <= m
  BY <1>3, <1>4 DEF Ordered
<1>8. QED
  BY <1>5, <1>6, <1>7 DEF Ordered, Sorted, s

LEMMA BatchMoves ==
    ASSUME ServerType, Ages(createdAt, born), Ordered(createdAt, db, born),
           NEW n \in 1..(MaxLinks - born), Create(n)
    PROVE  /\ Moves(db, born, db', born') /\ Ordered(createdAt', db', born')
           /\ Ages(createdAt', born') /\ Grown(createdAt, born, createdAt', born')
<1> DEFINE b == born
           c == createdAt
           d == createdAt'
           s == db'
           L == Len(db)
<1>1. /\ n \in Nat \ {0} /\ b \in Nat /\ born' = b + n /\ b + n <= MaxLinks /\ MaxLinks \in Nat
      /\ s \in Seq(Row) /\ L \in Nat /\ Len(s) = L + n /\ db \in Seq(Row)
      /\ \A i \in 1..L : s[i] = db[i]
      /\ \A i \in 1..(L + n) : i \in 1..L \/ (i > L /\ s[i].id = b + (i - L))
      /\ d \in [Ids -> 0..MaxLinks]
      /\ \A i \in Ids : d[i] = IF i \in (b + 1)..(b + n) THEN b + 1 ELSE c[i]
  BY Created, PageAssumption DEF ServerType, PageAssumption
<1>2. DOMAIN db = 1..L /\ DOMAIN s = 1..(L + n)
  BY <1>1
<1>3. /\ \A i \in Ids : IF i <= b THEN c[i] \in 1..b ELSE c[i] = 0
      /\ \A i \in 1..L : db[i].id \in Ids /\ db[i].id <= b
      /\ \A i, j \in 1..L : i < j => Older(c, db[i].id, db[j].id)
  BY <1>1, <1>2, RowIds DEF Ages, Ordered, Sorted
<1>4. Ages(c, b)
  OBVIOUS
<1> HIDE DEF b, c, d, s, L
<1>5. \A i \in 1..(L + n) : i \in 1..L \/ (s[i].id \in Ids /\ s[i].id > b /\ s[i].id <= b + n)
  <2> SUFFICES ASSUME NEW i \in 1..(L + n), ~(i \in 1..L)
               PROVE  s[i].id \in Ids /\ s[i].id > b /\ s[i].id <= b + n
    OBVIOUS
  <2>1. i \in Nat /\ i > L /\ s[i].id = b + (i - L) /\ i - L \in 1..n
    BY <1>1
  <2>2. b + (i - L) \in 1..MaxLinks /\ b + (i - L) > b /\ b + (i - L) <= b + n
    BY <1>1, <2>1
  <2>3. QED
    BY <2>1, <2>2 DEF Ids
<1>6. Ages(d, b + n)
  <2>1. ASSUME NEW i \in Ids PROVE IF i <= b + n THEN d[i] \in 1..(b + n) ELSE d[i] = 0
    <3>1. i \in Nat /\ i > 0
      BY RowIds
    <3>2. CASE i <= b
      BY <1>1, <1>3, <3>1, <3>2
    <3>3. CASE i > b
      BY <1>1, <1>3, <3>1, <3>3
    <3>4. QED
      BY <1>1, <3>1, <3>2, <3>3
  <2>2. QED
    BY <1>1, <2>1 DEF Ages
<1>7. Grown(c, b, d, b + n)
  <2>1. ASSUME NEW i \in Ids PROVE IF i <= b THEN d[i] = c[i] ELSE i <= b + n => d[i] > b
    <3>1. i \in Nat /\ i > 0
      BY RowIds
    <3>2. CASE i <= b
      BY <1>1, <3>1, <3>2
    <3>3. CASE i > b
      BY <1>1, <3>1, <3>3
    <3>4. QED
      BY <1>1, <3>1, <3>2, <3>3
  <2>2. d \in [Ids -> Nat]
    BY <1>1
  <2>3. QED
    BY <1>1, <2>1, <2>2 DEF Grown
<1>8. Moves(db, b, s, b + n)
  <2>1. \A j \in 1..(L + n) : (\E i \in DOMAIN db : j <= i /\ s[j].id = db[i].id) \/ s[j].id > b
    <3> SUFFICES ASSUME NEW j \in 1..(L + n)
                 PROVE  (\E i \in DOMAIN db : j <= i /\ s[j].id = db[i].id) \/ s[j].id > b
      OBVIOUS
    <3>1. CASE j \in 1..L
      <4>1. j <= j /\ s[j].id = db[j].id /\ j \in DOMAIN db
        BY <1>1, <1>2, <3>1
      <4>2. QED
        BY <4>1
    <3>2. QED
      BY <1>5, <3>1
  <2>2. QED
    BY <1>1, <1>2, <2>1 DEF Moves
<1>9. ASSUME NEW i \in 1..(L + n), NEW j \in 1..(L + n), i < j
      PROVE  Older(d, s[i].id, s[j].id)
  <2>1. b + n \in Nat
    BY <1>1
  <2>2. CASE j \in 1..L
    <3>1. i \in 1..L
      BY <1>1, <1>9, <2>2
    <3>2. Older(c, db[i].id, db[j].id)
      BY <1>3, <1>9, <2>2, <3>1
    <3>3. Older(d, db[i].id, db[j].id)
      BY <1>1, <1>3, <1>4, <1>7, <2>1, <2>2, <3>1, <3>2, OlderStays
    <3>4. QED
      BY <1>1, <2>2, <3>1, <3>3
  <2>3. CASE i \in 1..L /\ ~(j \in 1..L)
    <3>1. db[i].id \in Ids /\ db[i].id <= b /\ s[i] = db[i]
      BY <1>1, <1>3, <2>3
    <3>2. s[j].id \in Ids /\ s[j].id > b /\ s[j].id <= b + n
      BY <1>5, <2>3
    <3>3. QED
      BY <1>1, <1>4, <1>7, <2>1, <3>1, <3>2, OlderStays
  <2>4. CASE ~(i \in 1..L) /\ ~(j \in 1..L)
    <3>1. /\ s[i].id \in Ids /\ s[i].id > b /\ s[i].id <= b + n
          /\ s[j].id \in Ids /\ s[j].id > b /\ s[j].id <= b + n
      BY <1>5, <2>4
    <3>2. d[s[i].id] = b + 1 /\ d[s[j].id] = b + 1
      BY <1>1, <3>1, RowIds
    <3>3. s[i].id # s[j].id
      BY <1>1, <1>9, <2>4
    <3>4. QED
      BY <3>1, <3>2, <3>3 DEF Older, Shared
  <2>5. QED
    BY <1>1, <1>9, <2>2, <2>3, <2>4
<1>10. \A k \in 1..(L + n) : s[k].id <= b + n
  <2> SUFFICES ASSUME NEW k \in 1..(L + n), k \in 1..L PROVE s[k].id <= b + n
    BY <1>5
  <2>1. s[k].id \in Ids /\ s[k].id <= b
    BY <1>1, <1>3
  <2>2. QED
    BY <1>1, <2>1, RowIds
<1>11. Ordered(d, s, b + n)
  BY <1>2, <1>9, <1>10 DEF Ordered, Sorted
<1>12. QED
  BY <1>1, <1>6, <1>7, <1>8, <1>11 DEF b, c, d, s

LEMMA TableMoves ==
    ASSUME TypeInv, TypeInv', Ages(createdAt, born), Ordered(createdAt, db, born), [Next]_vars
    PROVE  /\ Moves(db, born, db', born') /\ Ordered(createdAt', db', born')
           /\ Ages(createdAt', born') /\ Grown(createdAt, born, createdAt', born')
<1> USE DEF serverVars
<1> DEFINE Moved == /\ Moves(db, born, db', born') /\ Ordered(createdAt', db', born')
                    /\ Ages(createdAt', born') /\ Grown(createdAt, born, createdAt', born')
<1>1. db \in Seq(Row) /\ db' \in Seq(Row) /\ born \in Nat /\ born' \in Nat
      /\ run \in Runs /\ checks \subseteq Checks /\ requests \subseteq Requests
      /\ ServerType
  BY DEF TypeInv, ServerType, WorkType, RestType
<1>0. ASSUME UNCHANGED <<born, createdAt>>, Moves(db, born, db', born'),
             Ordered(createdAt, db', born)
      PROVE  Moved
  <2>1. Grown(createdAt, born, createdAt, born)
    BY <1>1, PageAssumption DEF ServerType, Grown, PageAssumption
  <2>2. QED
    BY <1>0, <2>1
<1> HIDE DEF Moved
<1>2. CASE UNCHANGED <<db, born, createdAt>>
  BY <1>0, <1>1, <1>2, SameIdsMove DEF Moved
<1>3. CASE RunMarks
  <2>1. run.links \in SUBSET Ids /\ "QUEUED" \in Statuses
    BY <1>1 DEF Runs, Statuses
  <2>2. Len(db') = Len(db) /\ \A k \in 1..Len(db) : db'[k].id = db[k].id
    BY <1>1, <1>3, <2>1, WritesTyped DEF RunMarks
  <2>3. UNCHANGED <<born, createdAt>>
    BY <1>3 DEF RunMarks
  <2>4. QED
    BY <1>0, <1>1, <2>2, <2>3, SameIdsMove DEF Moved
<1>4. ASSUME NEW c \in checks, CheckBegins(c)
      PROVE  Moved
  <2>1. {c.id} \in SUBSET Ids /\ "CHECKING" \in Statuses
    BY <1>1 DEF Checks, Statuses
  <2>2. UNCHANGED <<born, createdAt>> /\ (db' = db \/ db' = Marked({c.id}, "CHECKING"))
    BY <1>4 DEF CheckBegins
  <2>3. Len(db') = Len(db) /\ \A k \in 1..Len(db) : db'[k].id = db[k].id
    BY <1>1, <2>1, <2>2, WritesTyped
  <2>4. QED
    BY <1>0, <1>1, <2>2, <2>3, SameIdsMove
<1>5. ASSUME NEW c \in checks, NEW o \in Outcomes, CheckEnds(c, o)
      PROVE  Moved
  <2>1. c.id \in Ids
    BY <1>1 DEF Checks
  <2>2. UNCHANGED <<born, createdAt>> /\ db' = Saved(c.id, o)
    BY <1>5 DEF CheckEnds
  <2>3. Len(db') = Len(db) /\ \A k \in 1..Len(db) : db'[k].id = db[k].id
    BY <1>1, <2>1, <2>2, WritesTyped
  <2>4. QED
    BY <1>0, <1>1, <2>2, <2>3, SameIdsMove
<1>6. ASSUME NEW r \in requests, ServeWrite(r)
      PROVE  Moved
  <2>1. CASE db' = Kept(db, Others(r.id)) /\ UNCHANGED <<born, createdAt>>
    BY <1>0, <1>1, <2>1, KeptMoves
  <2>2. CASE db' = <<>> /\ UNCHANGED <<born, createdAt>>
    BY <1>0, <1>1, <2>2 DEF Moves, Ordered, Sorted
  <2>3. ASSUME NEW n \in 1..(MaxLinks - born), Create(n) PROVE Moved
    BY <1>1, <2>3, BatchMoves DEF Moved
  <2>4. QED
    BY <1>6, <2>1, <2>2, <2>3 DEF ServeWrite
<1>7. \/ RunMarks \/ UNCHANGED <<db, born, createdAt>>
      \/ \E c \in checks : CheckBegins(c) \/ \E o \in Outcomes : CheckEnds(c, o)
      \/ \E r \in requests : ServeWrite(r)
  <2>1. User => UNCHANGED <<db, born, createdAt>>
    BY DEF User, ClickStart, ClickDeleteAll, SubmitLinks, ClickRecheck, ClickDelete, Ask
  <2>2. Faults => UNCHANGED <<db, born, createdAt>>
    BY DEF Faults, FetchFails, RunClears, Drop, AnswerLost
  <2>3. FetchNext => UNCHANGED <<db, born, createdAt>>
    BY DEF FetchNext
  <2>4. (\E order \in Orders : ReadItems(order)) \/ ReadTotal \/ LandLinks \/ ReadProject \/ LandProject \/ Connect \/ Deliver
        \/ RunLocks \/ RunSkips \/ RunTells \/ RunClears(TRUE) => UNCHANGED <<db, born, createdAt>>
    BY DEF ReadItems, ReadTotal, LandLinks, ReadProject, LandProject, Connect, Deliver, RunLocks,
           RunSkips, RunTells, RunClears
  <2>5. \A r : DeleteAnswered(r) \/ WriteAnswered(r) => UNCHANGED <<db, born, createdAt>>
    BY DEF DeleteAnswered, WriteAnswered
  <2>6. \A c : CheckThrows(c) => UNCHANGED <<db, born, createdAt>>
    BY DEF CheckThrows
  <2>7. UNCHANGED vars => UNCHANGED <<db, born, createdAt>>
    BY DEF vars
  <2>8. QED
    BY <2>1, <2>2, <2>3, <2>4, <2>5, <2>6, <2>7 DEF Next, System
<1>8. QED
  BY <1>2, <1>3, <1>4, <1>5, <1>6, <1>7 DEF Moved

\* What a step may do to a list of pages.
LEMMA PatchedInOrder ==
    ASSUME NEW ps \in Seq(Page), NEW e, e.status \in Statuses, NEW rows, NEW m, NEW c,
           Rising(c, ps), Ahead(c, ps, rows, m)
    PROVE  Rising(c, Patched(ps, e)) /\ Ahead(c, Patched(ps, e), rows, m)
<1> DEFINE q == Patched(ps, e)
<1>1. /\ q \in Seq(Page) /\ Len(q) = Len(ps)
      /\ \A p \in 1..Len(ps) : /\ Len(q[p].items) = Len(ps[p].items)
                               /\ \A k \in 1..Len(ps[p].items) : q[p].items[k].id = ps[p].items[k].id
  BY PatchTyped
<1>2. DOMAIN q = DOMAIN ps /\ DOMAIN ps = 1..Len(ps)
  BY <1>1
<1>3. \A p \in DOMAIN ps : q[p].items \in Seq(Row) /\ ps[p].items \in Seq(Row)
  <2>1. \A p \in DOMAIN ps : q[p] \in Page /\ ps[p] \in Page
    BY <1>1, <1>2
  <2>2. QED
    BY <2>1 DEF Page
<1>4. \A p \in DOMAIN ps : DOMAIN q[p].items = 1..Len(q[p].items)
                           /\ DOMAIN ps[p].items = 1..Len(ps[p].items)
  BY <1>3
<1> HIDE DEF q
<1>5. \A p \in DOMAIN ps : /\ DOMAIN q[p].items = DOMAIN ps[p].items
                           /\ \A k \in DOMAIN ps[p].items : q[p].items[k].id = ps[p].items[k].id
  BY <1>1, <1>2, <1>4
<1>6. Rising(c, q)
  BY <1>2, <1>5 DEF Rising
<1>7. Ahead(c, q, rows, m)
  BY <1>1, <1>2, <1>5 DEF Ahead
<1>8. QED
  BY <1>6, <1>7 DEF q

LEMMA WithoutInOrder ==
    ASSUME NEW ps \in Seq(Page), NEW i, NEW rows, NEW m, NEW c, Rising(c, ps), Ahead(c, ps, rows, m)
    PROVE  Rising(c, Without(ps, i)) /\ Ahead(c, Without(ps, i), rows, m)
<1> DEFINE q == Without(ps, i)
           S == Others(i)
<1>1. /\ q \in Seq(Page) /\ Len(q) = Len(ps)
      /\ \A p \in 1..Len(ps) : ps[p].items \in Seq(Row) /\ q[p].items = Kept(ps[p].items, S)
  BY WithoutTyped
<1>2. DOMAIN q = DOMAIN ps /\ DOMAIN ps = 1..Len(ps) /\ Len(ps) \in Nat
  BY <1>1
<1> HIDE DEF q, S
<1>3. ASSUME NEW p \in DOMAIN ps
      PROVE  \E f : /\ DOMAIN q[p].items = 1..Len(q[p].items)
                    /\ IsSpread(f, q[p].items, ps[p].items, Len(ps[p].items))
                    /\ DOMAIN ps[p].items = 1..Len(ps[p].items)
                    /\ Len(q[p].items) \in Nat
  <2>1. ps[p].items \in Seq(Row) /\ q[p].items = Kept(ps[p].items, S)
    BY <1>1, <1>2
  <2>2. Kept(ps[p].items, S) \in Seq(Row \cap S)
    BY <2>1, KeptType
  <2>3. PICK f : IsSpread(f, Kept(ps[p].items, S), ps[p].items, Len(ps[p].items))
    BY <2>1, KeptInOrder
  <2>4. /\ DOMAIN q[p].items = 1..Len(q[p].items) /\ Len(q[p].items) \in Nat
        /\ DOMAIN ps[p].items = 1..Len(ps[p].items)
    BY <2>1, <2>2
  <2>5. QED
    BY <2>1, <2>3, <2>4
<1>4. Rising(c, q)
  <2> SUFFICES ASSUME NEW p \in DOMAIN ps, NEW t \in DOMAIN ps,
                      NEW k \in DOMAIN q[p].items, NEW l \in DOMAIN q[t].items,
                      p < t \/ (p = t /\ k < l)
               PROVE  Older(c, q[p].items[k].id, q[t].items[l].id)
    BY <1>2 DEF Rising
  <2>1. CASE p = t /\ k < l
    <3>1. PICK f : /\ DOMAIN q[p].items = 1..Len(q[p].items)
                   /\ IsSpread(f, q[p].items, ps[p].items, Len(ps[p].items))
                   /\ DOMAIN ps[p].items = 1..Len(ps[p].items)
      BY <1>3
    <3>2. /\ f[k] \in DOMAIN ps[p].items /\ f[l] \in DOMAIN ps[p].items /\ f[k] < f[l]
          /\ q[p].items[k] = ps[p].items[f[k]] /\ q[p].items[l] = ps[p].items[f[l]]
      BY <2>1, <3>1 DEF IsSpread
    <3>3. QED
      BY <2>1, <3>2 DEF Rising
  <2>2. CASE p < t
    <3>1. PICK f : /\ DOMAIN q[p].items = 1..Len(q[p].items)
                   /\ IsSpread(f, q[p].items, ps[p].items, Len(ps[p].items))
                   /\ DOMAIN ps[p].items = 1..Len(ps[p].items)
      BY <1>3
    <3>2. PICK h : /\ DOMAIN q[t].items = 1..Len(q[t].items)
                   /\ IsSpread(h, q[t].items, ps[t].items, Len(ps[t].items))
                   /\ DOMAIN ps[t].items = 1..Len(ps[t].items)
      BY <1>3
    <3>3. f[k] \in DOMAIN ps[p].items /\ q[p].items[k] = ps[p].items[f[k]]
      BY <3>1 DEF IsSpread
    <3>4. h[l] \in DOMAIN ps[t].items /\ q[t].items[l] = ps[t].items[h[l]]
      BY <3>2 DEF IsSpread
    <3>5. QED
      BY <2>2, <3>3, <3>4 DEF Rising
  <2>3. QED
    BY <2>1, <2>2
<1>5. Ahead(c, q, rows, m)
  <2> SUFFICES ASSUME NEW p \in DOMAIN ps, NEW k \in DOMAIN q[p].items
               PROVE  /\ q[p].items[k].id <= m
                      /\ \A j \in DOMAIN rows :
                            j > Len(ps) * PageSize => Older(c, q[p].items[k].id, rows[j].id)
    BY <1>1, <1>2 DEF Ahead
  <2>1. PICK f : /\ DOMAIN q[p].items = 1..Len(q[p].items)
                 /\ IsSpread(f, q[p].items, ps[p].items, Len(ps[p].items))
                 /\ DOMAIN ps[p].items = 1..Len(ps[p].items)
    BY <1>3
  <2>2. f[k] \in DOMAIN ps[p].items /\ q[p].items[k] = ps[p].items[f[k]]
    BY <2>1 DEF IsSpread
  <2>3. QED
    BY <2>2 DEF Ahead
<1>6. QED
  BY <1>4, <1>5 DEF q

LEMMA NoLonger ==
    \A a, z, p \in Nat :
        (IF a <= z THEN 0 ELSE IF a <= z + p THEN a - z ELSE p) <= p
OBVIOUS

\* The next page of the table behind the pages.
LEMMA NextPageInOrder ==
    ASSUME NEW rows \in Seq(Row), Len(rows) <= MaxLinks, NEW m \in Nat, NEW c, Ordered(c, rows, m),
           NEW ps \in Seq(Page), Rising(c, ps), Ahead(c, ps, rows, m),
           NEW total \in 0..MaxLinks
    PROVE  LET q == Append(ps, [items |-> PageOf(rows, Len(ps) + 1), total |-> total])
           IN Rising(c, q) /\ Ahead(c, q, rows, m)
<1> DEFINE n == Len(ps) + 1
           it == PageOf(rows, n)
           new == [items |-> it, total |-> total]
           z == Len(ps) * PageSize
           q == Append(ps, new)
<1>1. n \in Nat \ {0} /\ Len(ps) \in Nat
  OBVIOUS
<1>2. /\ (n - 1) * PageSize \in Nat /\ n * PageSize = (n - 1) * PageSize + PageSize
      /\ it \in Seq(Row)
      /\ Len(it) = IF Len(rows) <= (n - 1) * PageSize THEN 0
                   ELSE IF Len(rows) <= (n - 1) * PageSize + PageSize
                        THEN Len(rows) - (n - 1) * PageSize ELSE PageSize
      /\ \A k \in 1..Len(it) : /\ (n - 1) * PageSize + k \in 1..Len(rows)
                               /\ it[k] = rows[(n - 1) * PageSize + k]
  <2> HIDE DEF n
  <2>1. QED
    BY <1>1, PageOfRows
<1>3. n - 1 = Len(ps)
  BY <1>1
<1>4. /\ z \in Nat /\ n * PageSize = z + PageSize /\ it \in Seq(Row) /\ PageSize \in Nat
      /\ Len(it) = IF Len(rows) <= z THEN 0
                   ELSE IF Len(rows) <= z + PageSize THEN Len(rows) - z ELSE PageSize
      /\ \A k \in 1..Len(it) : z + k \in 1..Len(rows) /\ it[k] = rows[z + k]
  BY <1>2, <1>3, PageAssumption DEF PageAssumption
<1>15. new \in Page /\ new.items = it
  BY <1>4 DEF Page
<1> HIDE DEF new
<1>5. /\ Len(q) = n /\ q[n] = new /\ \A p \in 1..Len(ps) : q[p] = ps[p]
      /\ q \in Seq(Page)
  BY <1>15, AppendProperties
<1>6. DOMAIN q = 1..n /\ DOMAIN ps = 1..Len(ps) /\ \A p \in 1..n : p = n \/ p \in 1..Len(ps)
  BY <1>1, <1>5
<1>7. DOMAIN it = 1..Len(it) /\ Len(it) \in Nat /\ DOMAIN rows = 1..Len(rows) /\ Len(rows) \in Nat
  <2>1. it \in Seq(Row)
    BY <1>4
  <2>2. QED
    BY <2>1
<1> HIDE DEF it, q, z, n
<1>0. z \in Nat /\ PageSize \in Nat /\ z + PageSize >= z /\ z + PageSize \in Nat
  BY <1>4
<1>9. ASSUME NEW k \in DOMAIN it
      PROVE  /\ z + k \in DOMAIN rows /\ it[k] = rows[z + k] /\ k \in Nat
             /\ z + k > z /\ z + k <= z + PageSize
  <2>1. k \in 1..Len(it) /\ k \in Nat /\ k > 0 /\ k <= Len(it)
    BY <1>7
  <2>2. z + k \in DOMAIN rows /\ it[k] = rows[z + k]
    BY <1>4, <1>7, <2>1
  <2>3. Len(it) = IF Len(rows) <= z THEN 0
                  ELSE IF Len(rows) <= z + PageSize THEN Len(rows) - z ELSE PageSize
    BY <1>4
  <2>4. Len(it) <= PageSize
    <3>1. Len(rows) \in Nat /\ z \in Nat /\ PageSize \in Nat
      BY <1>0, <1>7
    <3>2. (IF Len(rows) <= z THEN 0
           ELSE IF Len(rows) <= z + PageSize THEN Len(rows) - z ELSE PageSize) <= PageSize
      BY <3>1, NoLonger
    <3>3. QED
      BY <2>3, <3>2
  <2>5. QED
    BY <1>0, <1>7, <2>1, <2>2, <2>4
<1>10. q[n].items = it
  BY <1>5, <1>15
<1>11. \A p \in 1..Len(ps) : \A k \in DOMAIN ps[p].items :
          /\ ps[p].items[k].id <= m
          /\ \A j \in DOMAIN rows : j > z => Older(c, ps[p].items[k].id, rows[j].id)
  BY <1>6 DEF Ahead, z
<1>12. Rising(c, q)
  <2> SUFFICES ASSUME NEW p \in 1..n, NEW t \in 1..n,
                      NEW k \in DOMAIN q[p].items, NEW l \in DOMAIN q[t].items,
                      p < t \/ (p = t /\ k < l)
               PROVE  Older(c, q[p].items[k].id, q[t].items[l].id)
    BY <1>6 DEF Rising
  <2>1. CASE t \in 1..Len(ps)
    <3>1. p \in 1..Len(ps)
      BY <1>1, <1>3, <1>6, <2>1
    <3>2. q[p] = ps[p] /\ q[t] = ps[t] /\ p \in DOMAIN ps /\ t \in DOMAIN ps
      BY <1>5, <1>6, <2>1, <3>1
    <3>3. QED
      BY <3>2 DEF Rising
  <2>2. CASE t = n /\ p = n
    <3>1. k \in DOMAIN it /\ l \in DOMAIN it /\ k < l
      BY <1>1, <1>10, <2>2
    <3>2. z + k \in DOMAIN rows /\ z + l \in DOMAIN rows /\ z + k < z + l
      <4>1. k \in Nat /\ l \in Nat /\ z + k \in DOMAIN rows /\ z + l \in DOMAIN rows
        BY <1>9, <3>1
      <4>2. QED
        BY <1>0, <3>1, <4>1
    <3>3. Older(c, rows[z + k].id, rows[z + l].id)
      BY <3>2 DEF Ordered, Sorted
    <3>4. QED
      BY <1>9, <1>10, <2>2, <3>1, <3>3
  <2>3. CASE t = n /\ p \in 1..Len(ps)
    <3>1. l \in DOMAIN it /\ q[p] = ps[p] /\ k \in DOMAIN ps[p].items
      BY <1>5, <1>10, <2>3
    <3>2. Older(c, ps[p].items[k].id, rows[z + l].id)
      BY <1>9, <1>11, <2>3, <3>1
    <3>3. QED
      BY <1>9, <1>10, <2>3, <3>1, <3>2
  <2>4. QED
    BY <1>6, <2>1, <2>2, <2>3
<1>13. Ahead(c, q, rows, m)
  <2> SUFFICES ASSUME NEW p \in 1..n, NEW k \in DOMAIN q[p].items
               PROVE  /\ q[p].items[k].id <= m
                      /\ \A j \in DOMAIN rows : j > z + PageSize => Older(c, q[p].items[k].id, rows[j].id)
    BY <1>4, <1>5, <1>6 DEF Ahead
  <2>1. CASE p \in 1..Len(ps)
    <3>1. q[p] = ps[p] /\ k \in DOMAIN ps[p].items
      BY <1>5, <2>1
    <3>2. \A j \in DOMAIN rows : j > z + PageSize => j > z
      BY <1>0, <1>7
    <3>3. QED
      BY <1>11, <2>1, <3>1, <3>2
  <2>2. CASE p = n
    <3>1. k \in DOMAIN it /\ z + k \in DOMAIN rows /\ it[k] = rows[z + k] /\ z + k <= z + PageSize
      BY <1>9, <1>10, <2>2
    <3>2. rows[z + k].id <= m
      BY <3>1 DEF Ordered
    <3>3. ASSUME NEW j \in DOMAIN rows, j > z + PageSize PROVE Older(c, rows[z + k].id, rows[j].id)
      <4>1. z + k < j
        BY <1>0, <1>7, <3>1, <3>3
      <4>2. QED
        BY <3>1, <4>1 DEF Ordered, Sorted
    <3>4. QED
      BY <1>10, <2>2, <3>1, <3>2, <3>3
  <2>3. QED
    BY <1>6, <2>1, <2>2
<1>14. QED
  BY <1>12, <1>13 DEF q, new, it, n

\* Pages with the same rows are in the same order, whatever they count.
SameItems(q, ps) == DOMAIN q = DOMAIN ps /\ \A p \in DOMAIN ps : q[p].items = ps[p].items

LEMMA SameItemsInOrder ==
    ASSUME NEW q \in Seq(Page), NEW ps \in Seq(Page), SameItems(q, ps), NEW c, NEW rows, NEW m,
           InOrder(c, q, rows, m)
    PROVE  InOrder(c, ps, rows, m)
<1>1. Len(q) = Len(ps) /\ DOMAIN q = DOMAIN ps /\ \A p \in DOMAIN ps : q[p].items = ps[p].items
  BY DEF SameItems
<1>2. Rising(c, ps)
  BY <1>1 DEF InOrder, Rising
<1>3. Ahead(c, ps, rows, m)
  BY <1>1 DEF InOrder, Ahead
<1>4. QED
  BY <1>2, <1>3 DEF InOrder

\* In whatever order the rows of a batch are read, the table is in order.
LEMMA OrdersInOrder ==
    ASSUME db \in Seq(Row), born \in Nat, Ages(createdAt, born), Ordered(createdAt, db, born),
           NEW order \in Orders
    PROVE  /\ Ordered(createdAt, order, born)
           /\ \A ps : Ahead(createdAt, ps, db, born) <=> Ahead(createdAt, ps, order, born)
<1> DEFINE c == createdAt
<1>1. /\ order \in Seq(Row) /\ DOMAIN order = DOMAIN db
      /\ \A k \in DOMAIN db : \E l \in DOMAIN db : order[k] = db[l]
      /\ \A k \in DOMAIN db : c[order[k].id] = c[db[k].id]
  BY OrderRead
<1>2. \A k \in DOMAIN db : db[k].id \in Ids /\ order[k].id \in Ids
  BY <1>1, RowIds
<1>3. \A k \in DOMAIN db : order[k].id <= born
  BY <1>1 DEF Ordered
<1>4. ASSUME NEW i \in DOMAIN db, NEW j \in DOMAIN db, i < j
      PROVE  Older(c, order[i].id, order[j].id)
  <2>1. Older(c, db[i].id, db[j].id)
    BY <1>4 DEF Ordered, Sorted
  <2>2. c[order[i].id] = c[db[i].id] /\ c[order[j].id] = c[db[j].id]
    BY <1>1
  <2>3. ASSUME Shared(c, db[i].id) PROVE Shared(c, order[i].id)
    <3>1. PICK x \in Ids : x # db[i].id /\ c[x] = c[db[i].id]
      BY <2>3 DEF Shared
    <3>2. CASE x = order[i].id
      <4>1. db[i].id # order[i].id /\ db[i].id \in Ids
        BY <1>2, <3>1, <3>2
      <4>2. QED
        BY <2>2, <4>1 DEF Shared
    <3>3. CASE x # order[i].id
      BY <2>2, <3>1, <3>3 DEF Shared
    <3>4. QED
      BY <3>2, <3>3
  <2>4. QED
    BY <2>1, <2>2, <2>3 DEF Older
<1>5. Ordered(c, order, born)
  BY <1>1, <1>3, <1>4 DEF Ordered, Sorted
<1>6. \A x : \A j \in DOMAIN db : Older(c, x, order[j].id) <=> Older(c, x, db[j].id)
  BY <1>1 DEF Older
<1> HIDE DEF c
<1>7. \A ps : Ahead(c, ps, db, born) <=> Ahead(c, ps, order, born)
  BY <1>1, <1>6 DEF Ahead
<1>8. QED
  BY <1>5, <1>7 DEF c

LEMMA PagesSteps ==
    ASSUME TypeInv, [Next]_vars
    PROVE  \/ pages' = pages \/ pages' = linksFetch.got
           \/ \E e \in Events : e.status \in Statuses /\ pages' = Patched(pages, e)
           \/ \E r \in requests : pages' = Without(pages, r.id)
<1> USE DEF serverVars, workVars, pageVars, bounds, history
<1> DEFINE P == \/ pages' = pages \/ pages' = linksFetch.got
                \/ \E e \in Events : e.status \in Statuses /\ pages' = Patched(pages, e)
                \/ \E r \in requests : pages' = Without(pages, r.id)
<1>1. CASE pages' = pages
  BY <1>1
<1>2. CASE LandLinks
  BY <1>2 DEF LandLinks
<1>3. CASE Deliver
  <2> DEFINE e == Head(stream.queue)
  <2>1. e \in Events
    BY <1>3, SequencesGrow DEF Deliver, TypeInv, RestType, Streams
  <2>2. CASE ApplyLinkUpdated(e)
    <3>1. e.status \in Statuses /\ pages' = Patched(pages, e)
      BY <2>1, <2>2 DEF ApplyLinkUpdated, Events
    <3> HIDE DEF e
    <3>2. QED
      BY <2>1, <3>1
  <2>3. CASE ApplyLockChanged(e)
    BY <2>3 DEF ApplyLockChanged
  <2>4. QED
    BY <1>3, <2>2, <2>3 DEF Deliver
<1>4. ASSUME NEW r \in requests, DeleteAnswered(r) PROVE P
  BY <1>4 DEF DeleteAnswered
<1>5. \/ pages' = pages \/ LandLinks \/ Deliver \/ \E r \in requests : DeleteAnswered(r)
  <2>1. User \/ FetchNext \/ UNCHANGED vars => pages' = pages
    BY DEF User, ClickStart, ClickDeleteAll, SubmitLinks, ClickRecheck, ClickDelete, Ask,
           FetchNext, vars
  <2>2. Faults => pages' = pages
    BY DEF Faults, FetchFails, RunClears, Drop, AnswerLost
  <2>3. \A r, o : ReadItems(o) \/ ServeWrite(r) \/ WriteAnswered(r) => pages' = pages
    BY DEF ReadItems, ServeWrite, WriteAnswered
  <2>4. ReadTotal \/ ReadProject \/ LandProject \/ Connect \/ RunLocks \/ RunSkips \/ RunMarks
        \/ RunClears(TRUE) \/ RunTells => pages' = pages
    BY DEF ReadTotal, ReadProject, LandProject, Connect, RunLocks, RunSkips, RunMarks, RunClears,
           RunTells
  <2>5. \A c, o : CheckBegins(c) \/ CheckThrows(c) \/ CheckEnds(c, o) => pages' = pages
    BY DEF CheckBegins, CheckThrows, CheckEnds
  <2>6. QED
    BY <2>1, <2>2, <2>3, <2>4, <2>5 DEF Next, System
<1>6. QED
  BY <1>1, <1>2, <1>3, <1>4, <1>5

\* A fetch holds what it or the cache held, or a page that was just read behind that.
Read(ps) ==
    \E order \in Orders, total \in 0..MaxLinks :
        ps = Append(linksFetch.got, [items |-> PageOf(order, Len(linksFetch.got) + 1),
                                     total |-> total])
HeldNext(ps) ==
    \/ ps \in {<<>>, pages} \/ Read(ps)
    \/ \E q \in Held(linksFetch) : SameItems(q, ps)

LEMMA FetchSteps ==
    ASSUME TypeInv, [Next]_vars, NEW ps \in Held(linksFetch')
    PROVE  HeldNext(ps)
<1> USE DEF serverVars, workVars, pageVars, bounds, history
<1> DEFINE G == HeldNext(ps)
<1>0. /\ linksFetch \in Fetches /\ linksFetch.got \in Held(linksFetch)
      /\ \A q : SameItems(q, q)
      /\ linksFetch.got \in Seq(Page) /\ linksFetch.total \in 0..MaxLinks
  BY DEF TypeInv, PageType, Fetches, Held, SameItems
<1>1. CASE linksFetch' = linksFetch
  BY <1>0, <1>1 DEF HeldNext
<1>2. \A kind, got, upto, q : q \in Held(Fetch(kind, got, upto)) => q = got
  BY DEF Held, Fetch
<1>3. CASE linksFetch' = NotFetching \/ linksFetch' = RefetchLinks(pages)
  BY <1>0, <1>1, <1>2, <1>3 DEF NotFetching, RefetchLinks, HeldNext
<1>4. CASE FetchNext
  BY <1>2, <1>4 DEF FetchNext, HeldNext
<1>5. ASSUME NEW order \in Orders, ReadItems(order) PROVE G
  <2>1. PICK f : /\ f = [linksFetch EXCEPT !.items = PageOf(order, NextParam(linksFetch.got)),
                                           !.read = @ \cup {"items"}]
                 /\ linksFetch' = Answered(f) /\ MorePages(linksFetch)
    BY <1>5 DEF ReadItems
  <2>2. /\ f \in Fetches /\ f.got = linksFetch.got /\ f.upto = linksFetch.upto
        /\ f.items = PageOf(order, Len(linksFetch.got) + 1) /\ f.total = linksFetch.total
    BY <2>1, ItemsRead
  <2>3. Len(f.got) < f.upto
    BY <2>1, <2>2 DEF MorePages
  <2>4. ps \in {f.got, Next1(f)}
    BY <2>1, <2>2, <2>3, AnsweredTyped DEF Held, Next1
  <2>5. Read(Next1(f))
    BY <1>0, <2>2 DEF Read, Next1
  <2>6. QED
    BY <1>0, <2>2, <2>4, <2>5 DEF HeldNext
<1>6. CASE ReadTotal
  <2>1. PICK f : /\ f = [linksFetch EXCEPT !.total = Len(db), !.read = @ \cup {"total"}]
                 /\ linksFetch' = Answered(f) /\ MorePages(linksFetch)
    BY <1>6 DEF ReadTotal
  <2>2. /\ f \in Fetches /\ f.got = linksFetch.got /\ f.upto = linksFetch.upto
        /\ f.read = linksFetch.read \cup {"total"} /\ f.items = linksFetch.items
    BY <2>1, TotalRead
  <2>3. Len(f.got) < f.upto
    BY <2>1, <2>2 DEF MorePages
  <2>4. ps = f.got \/ (ps = Next1(f) /\ "items" \in f.read)
    BY <2>1, <2>2, <2>3, AnsweredTyped DEF Held, Next1
  <2>5. CASE ps = Next1(f) /\ "items" \in f.read
    <3> DEFINE g == linksFetch.got
               x == [items |-> f.items, total |-> f.total]
               y == [items |-> f.items, total |-> linksFetch.total]
    <3>1. "items" \in linksFetch.read
      BY <2>2, <2>5
    <3>2. Next1(linksFetch) = Append(g, y) /\ ps = Append(g, x)
      BY <2>2, <2>5 DEF Next1
    <3>3. x \in Page /\ y \in Page /\ g \in Seq(Page)
      BY <1>0, <2>2 DEF Page, Fetches
    <3>4. x.items = y.items
      OBVIOUS
    <3> HIDE DEF x, y, g
    <3>5. /\ DOMAIN Append(g, x) = 1 .. Len(g) + 1 /\ DOMAIN Append(g, y) = 1 .. Len(g) + 1
          /\ \A p \in 1 .. Len(g) + 1 : Append(g, x)[p].items = Append(g, y)[p].items
      <4>1. Len(g) \in Nat
        BY <3>3
      <4>2. /\ Len(Append(g, x)) = Len(g) + 1 /\ Append(g, x)[Len(g) + 1] = x
            /\ \A p \in 1..Len(g) : Append(g, x)[p] = g[p]
            /\ Append(g, x) \in Seq(Page)
        BY <3>3, AppendProperties
      <4>3. /\ Len(Append(g, y)) = Len(g) + 1 /\ Append(g, y)[Len(g) + 1] = y
            /\ \A p \in 1..Len(g) : Append(g, y)[p] = g[p]
            /\ Append(g, y) \in Seq(Page)
        BY <3>3, AppendProperties
      <4>4. \A p \in 1 .. Len(g) + 1 : p \in 1..Len(g) \/ p = Len(g) + 1
        BY <4>1
      <4>5. QED
        BY <3>4, <4>2, <4>3, <4>4
    <3>6. SameItems(Next1(linksFetch), ps)
      BY <3>2, <3>5 DEF SameItems
    <3>7. QED
      BY <3>1, <3>6 DEF HeldNext, Held
  <2>6. QED
    BY <1>0, <2>2, <2>4, <2>5 DEF HeldNext
<1>7. \/ linksFetch' = linksFetch \/ linksFetch' = NotFetching
      \/ linksFetch' = RefetchLinks(pages) \/ FetchNext \/ ReadTotal
      \/ \E order \in Orders : ReadItems(order)
  <2>1. User \/ UNCHANGED vars => linksFetch' = linksFetch
    BY DEF User, ClickStart, ClickDeleteAll, SubmitLinks, ClickRecheck, ClickDelete, Ask, vars
  <2>2. Faults => linksFetch' = linksFetch \/ linksFetch' = NotFetching
    BY DEF Faults, FetchFails, RunClears, Drop, AnswerLost
  <2>3. \A r : ServeWrite(r) \/ DeleteAnswered(r) => linksFetch' = linksFetch
    BY DEF ServeWrite, DeleteAnswered
  <2>4. \A r : WriteAnswered(r) => linksFetch' = RefetchLinks(pages)
    BY DEF WriteAnswered
  <2>5. Deliver => linksFetch' = linksFetch \/ linksFetch' = RefetchLinks(pages)
    BY DEF Deliver, ApplyLinkUpdated, ApplyLockChanged
  <2>6. ReadProject \/ LandProject \/ Connect \/ RunLocks \/ RunSkips \/ RunMarks
        \/ RunClears(TRUE) \/ RunTells => linksFetch' = linksFetch
    BY DEF ReadProject, LandProject, Connect, RunLocks, RunSkips, RunMarks, RunClears, RunTells
  <2>7. LandLinks => linksFetch' = NotFetching
    BY DEF LandLinks
  <2>8. \A c, o : CheckBegins(c) \/ CheckThrows(c) \/ CheckEnds(c, o) => linksFetch' = linksFetch
    BY DEF CheckBegins, CheckThrows, CheckEnds
  <2>9. QED
    BY <2>1, <2>2, <2>3, <2>4, <2>5, <2>6, <2>7, <2>8 DEF Next, System
<1>8. QED
  BY <1>1, <1>3, <1>4, <1>5, <1>6, <1>7

LEMMA NoPages == \A c, rows, m : InOrder(c, <<>>, rows, m)
BY DEF InOrder, Rising, Ahead

LEMMA HeldTyped ==
    ASSUME TypeInv, NEW ps \in Held(linksFetch)
    PROVE  ps \in Seq(Page)
<1>1. linksFetch \in Fetches
  BY DEF TypeInv, PageType
<1>2. linksFetch.got \in Seq(Page)
      /\ [items |-> linksFetch.items, total |-> linksFetch.total] \in Page
  BY <1>1 DEF Fetches, Page
<1>3. Next1(linksFetch) \in Seq(Page)
  BY <1>2, AppendProperties DEF Next1
<1>4. QED
  BY <1>2, <1>3 DEF Held

LEMMA OrderNext == TypeInv /\ TypeInv' /\ OrderInv /\ [Next]_vars => OrderInv'
<1> SUFFICES ASSUME TypeInv, TypeInv', OrderInv, [Next]_vars PROVE OrderInv'
  OBVIOUS
<1>1. /\ db \in Seq(Row) /\ db' \in Seq(Row) /\ born \in Nat /\ born' \in Nat
      /\ Len(db) <= MaxLinks
      /\ pages \in Seq(Page) /\ pages' \in Seq(Page)
      /\ linksFetch.got \in Seq(Page)
  BY PageAssumption DEF TypeInv, ServerType, PageType, Fetches, PageAssumption
<1>2. /\ Moves(db, born, db', born') /\ Ordered(createdAt', db', born')
      /\ Ages(createdAt', born') /\ Grown(createdAt, born, createdAt', born')
  BY TableMoves DEF OrderInv
<1>3. /\ Ages(createdAt, born) /\ Ordered(createdAt, db, born)
      /\ InOrder(createdAt, pages, db, born)
      /\ \A ps \in Held(linksFetch) : InOrder(createdAt, ps, db, born)
      /\ InOrder(createdAt, linksFetch.got, db, born)
  BY DEF OrderInv, Held
<1> DEFINE Fine(ps) == InOrder(createdAt, ps, db, born)
<1>4. Fine(pages')
  <2>1. ASSUME NEW e \in Events, e.status \in Statuses, pages' = Patched(pages, e)
        PROVE  Fine(pages')
    BY <1>1, <1>3, <2>1, PatchedInOrder DEF InOrder
  <2>2. ASSUME NEW r \in requests, pages' = Without(pages, r.id)
        PROVE  Fine(pages')
    BY <1>1, <1>3, <2>2, WithoutInOrder DEF InOrder
  <2>3. QED
    BY <1>3, <2>1, <2>2, PagesSteps
<1>5. ASSUME NEW ps \in Held(linksFetch)' PROVE Fine(ps) /\ ps \in Seq(Page)
  <2>1. ps \in Held(linksFetch') /\ ps \in Seq(Page)
    <3>1. Held(linksFetch)' = Held(linksFetch')
      OBVIOUS
    <3>2. linksFetch' \in Fetches
      BY DEF TypeInv, PageType
    <3>3. linksFetch'.got \in Seq(Page)
          /\ [items |-> linksFetch'.items, total |-> linksFetch'.total] \in Page
      BY <3>2 DEF Fetches, Page
    <3>4. Next1(linksFetch') \in Seq(Page)
      BY <3>3, AppendProperties DEF Next1
    <3>5. QED
      BY <1>5, <3>1, <3>3, <3>4 DEF Held
  <2>2. CASE ps \in {<<>>, pages}
    BY <1>3, <2>1, <2>2, NoPages
  <2>3. ASSUME NEW q \in Held(linksFetch), SameItems(q, ps) PROVE Fine(ps)
    BY <1>3, <2>1, <2>3, HeldTyped, SameItemsInOrder
  <2>4. ASSUME NEW order \in Orders, NEW total \in 0..MaxLinks,
               ps = Append(linksFetch.got, [items |-> PageOf(order, Len(linksFetch.got) + 1),
                                            total |-> total])
        PROVE  Fine(ps)
    <3>1. /\ order \in Seq(Row) /\ Len(order) <= MaxLinks /\ Ordered(createdAt, order, born)
          /\ \A x : Ahead(createdAt, x, db, born) <=> Ahead(createdAt, x, order, born)
      BY <1>1, <1>3, OrderRead, OrdersInOrder
    <3>2. Rising(createdAt, linksFetch.got) /\ Ahead(createdAt, linksFetch.got, order, born)
      BY <1>3, <3>1 DEF InOrder
    <3>3. Rising(createdAt, ps) /\ Ahead(createdAt, ps, order, born)
      BY <1>1, <2>4, <3>1, <3>2, NextPageInOrder
    <3>4. QED
      BY <3>1, <3>3 DEF InOrder
  <2>5. HeldNext(ps)
    BY <2>1, FetchSteps
  <2>6. QED
    BY <2>1, <2>2, <2>3, <2>4, <2>5 DEF HeldNext, Read
<1> HIDE DEF Fine
<1>6. ASSUME NEW ps \in Seq(Page), Fine(ps) PROVE InOrder(createdAt', ps, db', born')
  <2>1. (\A j \in DOMAIN db : db[j].id <= born) /\ (\A j \in DOMAIN db' : db'[j].id <= born')
    BY <1>2, <1>3 DEF Ordered
  <2> DEFINE d == createdAt'
             next == db'
             n == born'
  <2>2. /\ next \in Seq(Row) /\ n \in Nat /\ Moves(db, born, next, n)
        /\ Grown(createdAt, born, d, n) /\ \A j \in DOMAIN next : next[j].id <= n
    BY <1>1, <1>2, <2>1
  <2> HIDE DEF d, next, n
  <2>3. InOrder(d, ps, next, n)
    BY <1>1, <1>3, <1>6, <2>1, <2>2, InOrderStays DEF Fine
  <2>4. QED
    BY <2>3 DEF d, next, n
<1>7. ASSUME NEW ps \in ({pages} \cup Held(linksFetch))'
      PROVE  InOrder(createdAt', ps, db', born')
  <2>1. ps = pages' \/ ps \in Held(linksFetch)'
    BY <1>7
  <2>2. QED
    BY <1>1, <1>4, <1>5, <1>6, <2>1
<1>8. QED
  BY <1>2, <1>7 DEF OrderInv

LEMMA OrderStarts == Init => OrderInv
<1> SUFFICES ASSUME Init PROVE OrderInv
  OBVIOUS
<1> DEFINE c == createdAt
           b == born
<1>1. b \in Nat /\ db = [k \in 1..b |-> NewRow(k)] /\ MaxLinks \in Nat /\ b <= MaxLinks
  BY PageAssumption DEF Init, PageAssumption
<1>2. /\ c \in [Ids -> 0..MaxLinks]
      /\ \A i \in Ids : IF i <= b THEN c[i] \in 1..i ELSE c[i] = 0
      /\ \A i, j \in 1..b : i <= j => c[i] <= c[j]
  BY DEF Init
<1> HIDE DEF c, b
<1>3. DOMAIN db = 1..b /\ \A k \in 1..b : db[k].id = k /\ k \in Ids
  BY <1>1 DEF NewRow, Ids
<1>4. Ages(c, b)
  <2> SUFFICES ASSUME NEW i \in Ids PROVE IF i <= b THEN c[i] \in 1..b ELSE c[i] = 0
    BY <1>2 DEF Ages
  <2>1. i \in Nat
    BY RowIds
  <2>2. QED
    BY <1>1, <1>2, <2>1
<1>5. ASSUME NEW i \in 1..b, NEW j \in 1..b, i < j PROVE Older(c, i, j)
  <2>1. c[i] \in Nat /\ c[j] \in Nat /\ c[i] <= c[j] /\ i \in Ids /\ j \in Ids /\ i # j
    BY <1>1, <1>2, <1>3, <1>5
  <2>2. CASE c[i] = c[j]
    BY <2>1, <2>2 DEF Older, Shared
  <2>3. CASE c[i] # c[j]
    BY <2>1, <2>3 DEF Older
  <2>4. QED
    BY <2>2, <2>3
<1>6. Ordered(c, db, b)
  BY <1>1, <1>3, <1>5 DEF Ordered, Sorted
<1>7. pages = <<>> /\ Held(linksFetch) = {<<>>}
  BY DEF Init, Held, Fetch
<1>8. QED
  BY <1>4, <1>6, <1>7, NoPages DEF OrderInv, c, b

\* What is shown is in the order of the table.
LEMMA LoadedSorted ==
    ASSUME NEW ps \in Seq(Page), NEW c, Rising(c, ps)
    PROVE  /\ Sorted(c, Loaded(ps))
           /\ \A i \in DOMAIN Loaded(ps) : \E p \in DOMAIN ps : \E k \in DOMAIN ps[p].items :
                 Loaded(ps)[i] = ps[p].items[k]
<1> DEFINE ss == Items(ps)
           L == Len(ps)
<1>1. /\ ss \in Seq(Seq(Row)) /\ Len(ss) = L /\ L \in Nat /\ DOMAIN ps = 1..L
      /\ \A k \in 1..L : ss[k] = ps[k].items /\ ps[k].items \in Seq(Row)
      /\ Loaded(ps) = FlattenSeq(ss)
  BY ItemsTyped
<1>2. PICK g : IsFlat(g, ss, Row)
  BY <1>1, FlatFunction
<1> HIDE DEF ss, L
<1>3. /\ \A n \in 0..L : g[n] \in Seq(Row)
      /\ g[0] = <<>> /\ Loaded(ps) = g[L]
      /\ \A n \in 1..L : g[n] = g[n - 1] \o ps[n].items
  BY <1>1, <1>2 DEF IsFlat
<1> DEFINE T == {n \in 0..L : /\ Sorted(c, g[n])
                              /\ \A i \in DOMAIN g[n] : \E p \in 1..n :
                                    \E k \in DOMAIN ps[p].items : g[n][i] = ps[p].items[k]}
<1>4. 0 \in T
  <2>1. Sorted(c, g[0]) /\ DOMAIN g[0] = {}
    BY <1>3 DEF Sorted
  <2>2. 0 \in 0..L
    BY <1>1
  <2>3. QED
    BY <2>1, <2>2
<1>5. ASSUME NEW n \in 1..L, n - 1 \in T PROVE n \in T
  <2> DEFINE s == g[n - 1]
             t == ps[n].items
             u == g[n]
             a == Len(s)
             b == Len(t)
  <2>1. n - 1 \in 0..L /\ n \in 0..L /\ n \in Nat
    BY <1>1
  <2>2. s \in Seq(Row) /\ t \in Seq(Row) /\ u = s \o t
    BY <1>1, <1>3, <2>1
  <2>3. /\ Sorted(c, s)
        /\ \A i \in DOMAIN s : \E p \in 1..(n - 1) :
              \E k \in DOMAIN ps[p].items : s[i] = ps[p].items[k]
    BY <1>5
  <2>4. t = ps[n].items
    OBVIOUS
  <2> HIDE DEF s, t, u
  <2>5. /\ Len(u) = a + b /\ a \in Nat /\ b \in Nat /\ u \in Seq(Row)
        /\ DOMAIN s = 1..a /\ DOMAIN t = 1..b
        /\ \A i \in 1 .. a + b : u[i] = IF i <= a THEN s[i] ELSE t[i - a]
    BY <2>2, ConcatProperties
  <2>6. DOMAIN u = 1..(a + b)
    BY <2>5
  <2> HIDE DEF a, b
  <2>7. /\ \A i \in 1..a : u[i] = s[i] /\ i \in 1..(a + b)
        /\ \A i \in 1..(a + b) : i \in 1..a \/ (i - a \in 1..b /\ u[i] = t[i - a] /\ i > a)
    BY <2>5
  <2>8. \A i, j \in DOMAIN t : i < j => Older(c, t[i].id, t[j].id)
    BY <1>1, <2>4 DEF Rising
  <2>9. ASSUME NEW i \in DOMAIN s, NEW j \in DOMAIN t PROVE Older(c, s[i].id, t[j].id)
    <3>1. PICK p \in 1..(n - 1) : \E k \in DOMAIN ps[p].items : s[i] = ps[p].items[k]
      BY <2>3
    <3>2. p < n /\ p \in 1..L
      BY <1>1, <2>1
    <3>3. QED
      BY <1>1, <2>4, <3>1, <3>2 DEF Rising
  <2>10. ASSUME NEW i \in 1..(a + b), NEW j \in 1..(a + b), i < j PROVE Older(c, u[i].id, u[j].id)
    <3>1. CASE j \in 1..a
      <4>1. i \in 1..a
        BY <2>5, <2>10, <3>1
      <4>2. QED
        BY <2>3, <2>5, <2>7, <2>10, <3>1, <4>1 DEF Sorted
    <3>2. CASE j - a \in 1..b /\ u[j] = t[j - a]
      <4>1. CASE i \in 1..a
        BY <2>5, <2>7, <2>9, <3>2, <4>1
      <4>2. CASE i - a \in 1..b /\ u[i] = t[i - a]
        <5>1. i - a < j - a
          BY <2>5, <2>10
        <5>2. QED
          BY <2>5, <2>8, <3>2, <4>2, <5>1
      <4>3. QED
        BY <2>7, <4>1, <4>2
    <3>3. QED
      BY <2>7, <3>1, <3>2
  <2>11. ASSUME NEW i \in 1..(a + b)
         PROVE  \E p \in 1..n : \E k \in DOMAIN ps[p].items : u[i] = ps[p].items[k]
    <3>1. CASE i \in 1..a
      <4>1. PICK p \in 1..(n - 1) : \E k \in DOMAIN ps[p].items : s[i] = ps[p].items[k]
        BY <2>3, <2>5, <3>1
      <4>2. p \in 1..n
        BY <2>1
      <4>3. QED
        BY <2>7, <3>1, <4>1, <4>2
    <3>2. CASE i - a \in 1..b /\ u[i] = t[i - a]
      <4>1. n \in 1..n
        BY <2>1
      <4>2. QED
        BY <2>4, <2>5, <3>2, <4>1
    <3>3. QED
      BY <2>7, <3>1, <3>2
  <2>12. QED
    BY <2>1, <2>6, <2>10, <2>11 DEF Sorted, u
<1>6. 0..L \subseteq T
  <2> HIDE DEF T
  <2>1. QED
    BY <1>1, <1>4, <1>5, IntervalByInduction
<1>7. L \in 0..L
  BY <1>1
<1>8. L \in T
  BY <1>6, <1>7
<1>9. /\ Sorted(c, g[L])
      /\ \A i \in DOMAIN g[L] : \E p \in 1..L : \E k \in DOMAIN ps[p].items :
            g[L][i] = ps[p].items[k]
  BY <1>8
<1>10. Loaded(ps) = g[L] /\ DOMAIN ps = 1..L
  BY <1>1, <1>3
<1> HIDE DEF T
<1>11. QED
  BY <1>9, <1>10

LEMMA OrderAlways == Spec => [](TypeInv /\ OrderInv)
<1>1. Init => TypeInv /\ OrderInv
  BY TypeStarts, OrderStarts
<1>2. TypeInv /\ OrderInv /\ [Next]_vars => (TypeInv /\ OrderInv)'
  BY TypeNext, OrderNext
<1>3. QED
  BY <1>1, <1>2, PTL DEF Spec

\* Older links are shown above newer ones, and no link is on the screen twice (its rows are
\* keyed by id, LinksTable.tsx) unless it came in a batch, although pages are read one by
\* one, by offset, in an order that leaves out the ids (links.service.ts:62-70), while links
\* are added in batches and deleted: for every page size, every number of pages and every
\* size of the batches.
THEOREM RowsAreShownOnce == Spec => []NoRowTwice
<1>1. TypeInv /\ OrderInv => NoRowTwice
  <2> SUFFICES ASSUME TypeInv, OrderInv, NEW j \in DOMAIN Shown, NEW k \in DOMAIN Shown, j < k
               PROVE  /\ createdAt[Shown[j].id] <= createdAt[Shown[k].id]
                      /\ Shown[j].id = Shown[k].id => InBatch(Shown[j].id)
    BY DEF NoRowTwice
  <2> DEFINE x == Shown[j].id
             y == Shown[k].id
  <2>1. pages \in Seq(Page) /\ Rising(createdAt, pages) /\ Ahead(createdAt, pages, db, born)
        /\ Ages(createdAt, born) /\ born \in Nat
    BY PageAssumption DEF TypeInv, PageType, ServerType, OrderInv, InOrder, PageAssumption
  <2>2. Older(createdAt, x, y)
    BY <2>1, LoadedSorted DEF Shown, Sorted
  <2>3. ASSUME NEW i \in DOMAIN Shown PROVE Shown[i].id \in Ids /\ Shown[i].id <= born
    <3>1. PICK p \in DOMAIN pages : \E l \in DOMAIN pages[p].items : Shown[i] = pages[p].items[l]
      BY <2>1, LoadedSorted DEF Shown
    <3>2. QED
      BY <2>1, <3>1, RowIds DEF Ahead
  <2>4. x \in Ids /\ x <= born /\ y \in Ids /\ y <= born
    BY <2>3
  <2> HIDE DEF x, y
  <2>5. \A i \in Ids : createdAt[i] \in Nat /\ i \in Nat /\ i > 0
                       /\ (i <= born => createdAt[i] > 0) /\ (createdAt[i] > 0 => i <= born)
    <3> SUFFICES ASSUME NEW i \in Ids
                 PROVE  createdAt[i] \in Nat /\ i \in Nat /\ i > 0
                        /\ (i <= born => createdAt[i] > 0) /\ (createdAt[i] > 0 => i <= born)
      OBVIOUS
    <3>1. i \in Nat /\ i > 0 /\ IF i <= born THEN createdAt[i] \in 1..born ELSE createdAt[i] = 0
      BY <2>1, RowIds DEF Ages
    <3>2. QED
      BY <2>1, <3>1
  <2>6. createdAt[x] <= createdAt[y]
    BY <2>2, <2>4, <2>5 DEF Older
  <2>7. ASSUME x = y PROVE InBatch(x)
    <3>1. createdAt[x] \in Nat /\ ~(createdAt[x] < createdAt[x])
      BY <2>4, <2>5
    <3>2. PICK i \in Ids : i # x /\ createdAt[i] = createdAt[x]
      BY <2>2, <2>7, <3>1 DEF Older, Shared
    <3>3. i \in 1..born
      BY <2>1, <2>4, <2>5, <3>2
    <3>4. QED
      BY <3>2, <3>3 DEF InBatch
  <2>8. QED
    BY <2>6, <2>7 DEF x, y
<1>2. QED
  BY <1>1, OrderAlways, PTL

(***************************************************************************)
(* The page at rest.  What the cache holds is the table's, but for what    *)
(* events on their way, or checks still to be made, will put right.        *)
(***************************************************************************)

Busy == {c.id : c \in checks}
IsAbout(e, i) == e.type = "link_updated" /\ e.id = i
Told(q) == {i \in Ids : \E j \in DOMAIN q : IsAbout(q[j], i)}

\* No event is about a link yet to come.
EventsBorn(q, m) == \A j \in DOMAIN q : q[j].type = "link_updated" => q[j].id <= m

\* The last event about a link tells its status, unless a check is about to write it.
StatusTold(q, rows, busy) ==
    \A k \in DOMAIN rows : \A j \in DOMAIN q :
        /\ IsAbout(q[j], rows[k].id)
        /\ \A m \in DOMAIN q : j < m => ~IsAbout(q[m], rows[k].id)
        => q[j].status = rows[k].status \/ rows[k].id \in busy

Locks(e) == e = LockChanged(TRUE)
Frees(e) == e = LockChanged(FALSE)

\* The last lock_changed on its way is TRUE; there is one with FALSE.
SaysLocked(q) ==
    \E j \in DOMAIN q : /\ Locks(q[j])
                        /\ \A m \in DOMAIN q : j < m => ~Frees(q[m])
SaysFree(q) == \E j \in DOMAIN q : Frees(q[j])

\* The worker announces what it wrote, in that order, to a connection that is open.
StreamInv ==
    /\ stream.state # "open" => stream.queue = <<>>
    /\ EventsBorn(stream.queue, born)
    /\ StatusTold(stream.queue, db, Busy)
    /\ SaysLocked(stream.queue) => flag \/ run.pc = "cleared"

\* A row of the page is that of the table, but for the status of those in loose.
Follows(r, d, loose) ==
    r.id = d.id /\ r.indexable = d.indexable /\ (r.status = d.status \/ d.id \in loose)

\* Page p holds as many rows as the table has there, each a row of the table, and of the
\* createdAt (c) of the one in its place.
FollowsItems(c, items, p, rows, loose) ==
    /\ Len(items) = Len(PageOf(rows, p))
    /\ \A k \in DOMAIN PageOf(rows, p) :
          /\ c[items[k].id] = c[PageOf(rows, p)[k].id]
          /\ \E i \in DOMAIN rows : Follows(items[k], rows[i], loose)
FollowsPage(c, g, p, rows, loose) ==
    g.total = Len(rows) /\ FollowsItems(c, g.items, p, rows, loose)
FollowsAll(c, ps, rows, loose) == \A p \in DOMAIN ps : FollowsPage(c, ps[p], p, rows, loose)
FollowsList(c, ps, rows, loose) == ps # <<>> /\ FollowsAll(c, ps, rows, loose)

Loose == Told(stream.queue) \cup Busy

\* A refetch of all pages reads the table as it is now, and so does a query of which the
\* other has yet to answer; whatever else is or will be cached follows it.
RowsSettled ==
    /\ linksFetch.kind = "none" => FollowsList(createdAt, pages, db, Loose)
    /\ linksFetch.kind = "all" => FollowsAll(createdAt, linksFetch.got, db, {})
    /\ linksFetch.kind = "next" => FollowsList(createdAt, linksFetch.got, db, Loose)
    /\ "items" \in linksFetch.read =>
          FollowsItems(createdAt, linksFetch.items, Len(linksFetch.got) + 1, db, {})
    /\ "total" \in linksFetch.read => linksFetch.total = Len(db)
FlagSettled ==
    /\ projectFetch.at = "read" => projectFetch.value = flag
    /\ projectFetch.at = "none" => project = flag \/ run.pc = "cleared" \/ SaysFree(stream.queue)

SettledInv ==
    /\ StreamInv
    /\ linksFetch.kind = "all" => linksFetch.upto # 0
    /\ settled => RowsSettled /\ FlagSettled

LEMMA NoEvents ==
    \A m, rows, busy : /\ EventsBorn(<<>>, m) /\ StatusTold(<<>>, rows, busy)
                       /\ ~SaysLocked(<<>>)
BY DEF EventsBorn, StatusTold, SaysLocked

\* The table is written without an event: rows that change have a check ahead.
LEMMA EventsKept ==
    ASSUME NEW q \in Seq(Events), NEW rows, NEW next \in Seq(Row), NEW m \in Nat, NEW n \in Nat,
           NEW busy, NEW more, EventsBorn(q, m), StatusTold(q, rows, busy), m <= n,
           \A k \in DOMAIN next :
              \/ next[k].id \in more \/ next[k].id > m
              \/ \E i \in DOMAIN rows : /\ next[k].id = rows[i].id /\ next[k].status = rows[i].status
                                        /\ rows[i].id \in busy => rows[i].id \in more
    PROVE  EventsBorn(q, n) /\ StatusTold(q, next, more)
<1>1. \A j \in DOMAIN q : q[j] \in Events
  OBVIOUS
<1>2. \A e \in Events : e.type = "link_updated" => e.id \in Nat
  BY DEF Events, Ids
<1>3. \A k \in DOMAIN next : next[k].id \in Nat
  <2>1. \A k \in DOMAIN next : next[k] \in Row
    OBVIOUS
  <2>2. QED
    BY <2>1 DEF Row, Ids
<1>4. EventsBorn(q, n)
  BY <1>1, <1>2 DEF EventsBorn
<1>5. ASSUME NEW k \in DOMAIN next, NEW j \in DOMAIN q, IsAbout(q[j], next[k].id),
             \A l \in DOMAIN q : j < l => ~IsAbout(q[l], next[k].id)
      PROVE  q[j].status = next[k].status \/ next[k].id \in more
  <2>1. next[k].id <= m
    BY <1>5 DEF EventsBorn, IsAbout
  <2>2. ~(next[k].id > m)
    BY <1>3, <2>1
  <2>3. QED
    BY <1>5, <2>2 DEF StatusTold
<1>6. QED
  BY <1>4, <1>5 DEF StatusTold

LEMMA EventAdded ==
    ASSUME NEW q \in Seq(Events), NEW e \in Events, NEW rows, NEW next, NEW m \in Nat,
           NEW busy, NEW more, EventsBorn(q, m), StatusTold(q, rows, busy),
           e.type = "link_updated" => e.id <= m,
           \A k \in DOMAIN next :
              \/ IsAbout(e, next[k].id) /\ next[k].status = e.status
              \/ /\ ~IsAbout(e, next[k].id)
                 /\ \E i \in DOMAIN rows : /\ next[k].id = rows[i].id /\ next[k].status = rows[i].status
                                           /\ rows[i].id \in busy => rows[i].id \in more
    PROVE  EventsBorn(Append(q, e), m) /\ StatusTold(Append(q, e), next, more)
<1> DEFINE z == Append(q, e)
           L == Len(q)
<1>1. /\ L \in Nat /\ DOMAIN q = 1..L /\ DOMAIN z = 1..(L + 1) /\ z[L + 1] = e
      /\ \A j \in 1..L : z[j] = q[j]
  BY AppendProperties
<1> HIDE DEF z, L
<1>2. \A j \in DOMAIN z : (j \in DOMAIN q /\ z[j] = q[j]) \/ (j = L + 1 /\ z[j] = e)
  BY <1>1
<1>3. EventsBorn(z, m)
  BY <1>2 DEF EventsBorn
<1>4. ASSUME NEW k \in DOMAIN next, NEW j \in DOMAIN z, IsAbout(z[j], next[k].id),
             \A l \in DOMAIN z : j < l => ~IsAbout(z[l], next[k].id)
      PROVE  z[j].status = next[k].status \/ next[k].id \in more
  <2>1. CASE IsAbout(e, next[k].id)
    <3>1. j = L + 1
      <4>1. L + 1 \in DOMAIN z /\ ~(j < L + 1)
        BY <1>1, <1>4, <2>1
      <4>2. QED
        BY <1>1, <4>1
    <3>2. next[k].status = e.status
      BY <2>1
    <3>3. QED
      BY <1>1, <3>1, <3>2
  <2>2. CASE ~IsAbout(e, next[k].id)
    <3>1. j \in DOMAIN q /\ z[j] = q[j]
      BY <1>1, <1>2, <1>4, <2>2
    <3>2. PICK i \in DOMAIN rows : /\ next[k].id = rows[i].id /\ next[k].status = rows[i].status
                                   /\ rows[i].id \in busy => rows[i].id \in more
      BY <2>2
    <3>3. \A l \in DOMAIN q : j < l => ~IsAbout(q[l], rows[i].id)
      BY <1>1, <1>4, <3>2
    <3>4. IsAbout(q[j], rows[i].id)
      BY <1>4, <3>1, <3>2
    <3>5. QED
      BY <3>1, <3>2, <3>3, <3>4 DEF StatusTold
  <2>3. QED
    BY <2>1, <2>2
<1>5. QED
  BY <1>3, <1>4 DEF StatusTold, z

\* What an event says of the lock.
LEMMA LockEvents ==
    /\ \A e \in Events :
          /\ Locks(e) => ~Frees(e) /\ e.type = "lock_changed"
          /\ Frees(e) => e.type = "lock_changed"
          /\ e.type = "lock_changed" => e.on \in BOOLEAN /\ (e.on => Locks(e)) /\ (~e.on => Frees(e))
    /\ Locks(LockChanged(TRUE)) /\ Frees(LockChanged(FALSE))
<1>1. LockChanged(TRUE).on = TRUE /\ LockChanged(FALSE).on = FALSE
  BY DEF LockChanged
<1>2. ASSUME NEW e \in Events
      PROVE  /\ Locks(e) => ~Frees(e) /\ e.type = "lock_changed"
             /\ Frees(e) => e.type = "lock_changed"
             /\ e.type = "lock_changed" => e.on \in BOOLEAN /\ (e.on => Locks(e)) /\ (~e.on => Frees(e))
  <2>1. Locks(e) => ~Frees(e)
    BY <1>1 DEF Locks, Frees
  <2>2. Locks(e) \/ Frees(e) => e.type = "lock_changed"
    BY DEF Locks, Frees, LockChanged
  <2>3. ASSUME e.type = "lock_changed"
        PROVE  e.on \in BOOLEAN /\ (e.on => Locks(e)) /\ (~e.on => Frees(e))
    <3>1. e \in [type : {"lock_changed"}, on : BOOLEAN]
      BY <2>3 DEF Events
    <3>2. e = [type |-> "lock_changed", on |-> e.on] /\ e.on \in BOOLEAN
      BY <3>1
    <3>3. CASE e.on = TRUE
      BY <3>2, <3>3 DEF Locks, LockChanged
    <3>4. CASE e.on = FALSE
      BY <3>2, <3>4 DEF Frees, LockChanged
    <3>5. QED
      BY <3>2, <3>3, <3>4
  <2>4. QED
    BY <2>1, <2>2, <2>3
<1>3. Locks(LockChanged(TRUE)) /\ Frees(LockChanged(FALSE))
  BY DEF Locks, Frees
<1>4. QED
  BY <1>2, <1>3

LEMMA LockAdded ==
    ASSUME NEW q \in Seq(Events), NEW e \in Events, NEW f \in Events, Frees(f)
    PROVE  /\ ~SaysLocked(Append(q, f))
           /\ e.type = "link_updated" /\ SaysLocked(Append(q, e)) => SaysLocked(q)
           /\ SaysFree(Append(q, f))
<1> DEFINE L == Len(q)
           z == Append(q, e)
           w == Append(q, f)
<1>1. L \in Nat /\ DOMAIN q = 1..L
  OBVIOUS
<1>2. /\ DOMAIN z = 1..(L + 1) /\ z[L + 1] = e /\ \A j \in 1..L : z[j] = q[j]
      /\ DOMAIN w = 1..(L + 1) /\ w[L + 1] = f
  BY AppendProperties
<1> HIDE DEF L, z, w
<1>3. \A x \in Events : Locks(x) => ~Frees(x)
  BY LockEvents
<1>4. ~SaysLocked(w)
  <2>1. SUFFICES ASSUME NEW j \in 1..(L + 1), Locks(w[j]),
                        \A m \in 1..(L + 1) : j < m =>
                           ~Frees(w[m])
                 PROVE  FALSE
    BY <1>2 DEF SaysLocked
  <2>2. j # L + 1
    BY <1>2, <1>3, <2>1
  <2>3. j < L + 1 /\ L + 1 \in 1..(L + 1)
    BY <1>1, <2>2
  <2>4. QED
    BY <1>2, <2>1, <2>3
<1>5. ASSUME e.type = "link_updated", SaysLocked(z) PROVE SaysLocked(q)
  <2>1. PICK j \in 1..(L + 1) : /\ Locks(z[j])
                                /\ \A m \in 1..(L + 1) : j < m => ~Frees(z[m])
    BY <1>2, <1>5 DEF SaysLocked
  <2>2. ~Locks(e)
    BY <1>5, LockEvents
  <2>3. j \in 1..L
    BY <1>1, <1>2, <2>1, <2>2
  <2>4. \A m \in 1..L : j < m => ~Frees(q[m])
    BY <1>1, <1>2, <2>1
  <2>5. QED
    BY <1>1, <1>2, <2>1, <2>3, <2>4 DEF SaysLocked
<1>6. SaysFree(w)
  BY <1>1, <1>2 DEF SaysFree
<1>7. QED
  BY <1>4, <1>5, <1>6 DEF z, w

\* The first event is taken.
LEMMA HeadTaken ==
    ASSUME NEW q \in Seq(Events), q # <<>>, NEW rows, NEW m, NEW busy,
           EventsBorn(q, m), StatusTold(q, rows, busy)
    PROVE  /\ EventsBorn(Tail(q), m) /\ StatusTold(Tail(q), rows, busy)
           /\ SaysLocked(Tail(q)) => SaysLocked(q)
           /\ Locks(Head(q)) /\ ~SaysFree(Tail(q)) => SaysLocked(q)
           /\ Locks(Head(q)) /\ SaysFree(q) => SaysFree(Tail(q))
           /\ Head(q).type = "link_updated" /\ SaysFree(q) => SaysFree(Tail(q))
           /\ \A i \in Told(q) : i \in Told(Tail(q)) \/ IsAbout(Head(q), i)
           /\ \A k \in DOMAIN rows : IsAbout(Head(q), rows[k].id) =>
                 \/ Head(q).status = rows[k].status \/ rows[k].id \in busy
                 \/ rows[k].id \in Told(Tail(q))
<1> DEFINE L == Len(q)
           z == Tail(q)
           h == Head(q)
<1>1. /\ L \in Nat /\ L >= 1 /\ DOMAIN q = 1..L /\ DOMAIN z = 1..(L - 1)
      /\ q[1] = h /\ h \in Events /\ \A j \in 1..(L - 1) : z[j] = q[j + 1]
  BY HeadTailProperties, EmptySeq
<1> HIDE DEF z, L, h
<1>2. \A j \in 1..(L - 1) : j + 1 \in 1..L
  BY <1>1
<1>3. \A j \in 1..L : (j = 1 /\ q[j] = h) \/ (j - 1 \in 1..(L - 1) /\ q[j] = z[j - 1])
  <2> SUFFICES ASSUME NEW j \in 1..L, j # 1 PROVE j - 1 \in 1..(L - 1) /\ q[j] = z[j - 1]
    BY <1>1
  <2>1. j - 1 \in 1..(L - 1) /\ (j - 1) + 1 = j
    BY <1>1
  <2>2. QED
    BY <1>1, <2>1
<1>4. EventsBorn(z, m)
  BY <1>1, <1>2 DEF EventsBorn
<1>5. ASSUME NEW k \in DOMAIN rows, NEW j \in 1..(L - 1), IsAbout(z[j], rows[k].id),
             \A l \in 1..(L - 1) : j < l => ~IsAbout(z[l], rows[k].id)
      PROVE  z[j].status = rows[k].status \/ rows[k].id \in busy
  <2>1. \A l \in 1..L : j + 1 < l => ~IsAbout(q[l], rows[k].id)
    <3> SUFFICES ASSUME NEW l \in 1..L, j + 1 < l PROVE ~IsAbout(q[l], rows[k].id)
      OBVIOUS
    <3>1. l - 1 \in 1..(L - 1) /\ j < l - 1 /\ q[l] = z[l - 1]
      BY <1>1, <1>3
    <3>2. QED
      BY <1>5, <3>1
  <2>2. IsAbout(q[j + 1], rows[k].id) /\ j + 1 \in DOMAIN q /\ z[j] = q[j + 1]
    BY <1>1, <1>2, <1>5
  <2>3. QED
    BY <1>1, <2>1, <2>2 DEF StatusTold
<1>6. StatusTold(z, rows, busy)
  BY <1>1, <1>5 DEF StatusTold
<1>7. ASSUME SaysLocked(z) PROVE SaysLocked(q)
  <2>1. PICK j \in 1..(L - 1) : /\ Locks(z[j])
                                /\ \A l \in 1..(L - 1) : j < l => ~Frees(z[l])
    BY <1>1, <1>7 DEF SaysLocked
  <2>2. \A l \in 1..L : j + 1 < l => ~Frees(q[l])
    <3> SUFFICES ASSUME NEW l \in 1..L, j + 1 < l PROVE ~Frees(q[l])
      OBVIOUS
    <3>1. l - 1 \in 1..(L - 1) /\ j < l - 1 /\ q[l] = z[l - 1]
      BY <1>1, <1>3
    <3>2. QED
      BY <2>1, <3>1
  <2>3. Locks(q[j + 1]) /\ j + 1 \in DOMAIN q
    BY <1>1, <1>2, <2>1
  <2>4. QED
    BY <1>1, <2>2, <2>3 DEF SaysLocked
<1>8. ASSUME Locks(h), ~SaysFree(z) PROVE SaysLocked(q)
  <2>1. \A l \in 1..L : 1 < l => ~Frees(q[l])
    <3> SUFFICES ASSUME NEW l \in 1..L, 1 < l PROVE ~Frees(q[l])
      OBVIOUS
    <3>1. l - 1 \in 1..(L - 1) /\ q[l] = z[l - 1]
      BY <1>1, <1>3
    <3>2. QED
      BY <1>1, <1>8, <3>1 DEF SaysFree
  <2>2. Locks(q[1]) /\ 1 \in DOMAIN q
    BY <1>1, <1>8
  <2>3. QED
    BY <1>1, <2>1, <2>2 DEF SaysLocked
<1>9. ASSUME ~Frees(h), SaysFree(q) PROVE SaysFree(z)
  <2>1. PICK j \in 1..L : Frees(q[j])
    BY <1>1, <1>9 DEF SaysFree
  <2>2. j - 1 \in 1..(L - 1) /\ q[j] = z[j - 1]
    BY <1>1, <1>3, <1>9, <2>1
  <2>3. QED
    BY <1>1, <2>1, <2>2 DEF SaysFree
<1>10. (Locks(h) => ~Frees(h)) /\ (h.type = "link_updated" => ~Frees(h))
  BY <1>1, LockEvents
<1>12. \A i \in Told(q) : i \in Told(z) \/ IsAbout(h, i)
  <2> SUFFICES ASSUME NEW i \in Told(q), ~IsAbout(h, i) PROVE i \in Told(z)
    OBVIOUS
  <2>1. PICK j \in 1..L : IsAbout(q[j], i)
    BY <1>1 DEF Told
  <2>2. j - 1 \in 1..(L - 1) /\ q[j] = z[j - 1]
    BY <1>1, <1>3, <2>1
  <2>3. QED
    BY <1>1, <2>1, <2>2 DEF Told
<1>13. ASSUME NEW k \in DOMAIN rows, IsAbout(h, rows[k].id), rows[k].id \notin Told(z)
       PROVE  h.status = rows[k].status \/ rows[k].id \in busy
  <2>1. rows[k].id \in Ids
    BY <1>1, <1>13 DEF IsAbout, Events
  <2>2. \A l \in 1..L : 1 < l => ~IsAbout(q[l], rows[k].id)
    <3> SUFFICES ASSUME NEW l \in 1..L, 1 < l PROVE ~IsAbout(q[l], rows[k].id)
      OBVIOUS
    <3>1. l - 1 \in 1..(L - 1) /\ q[l] = z[l - 1]
      BY <1>1, <1>3
    <3>2. QED
      BY <1>1, <1>13, <2>1, <3>1 DEF Told
  <2>3. 1 \in DOMAIN q /\ IsAbout(q[1], rows[k].id)
    BY <1>1, <1>13
  <2>4. QED
    BY <1>1, <2>2, <2>3 DEF StatusTold
<1>14. QED
  BY <1>4, <1>6, <1>7, <1>8, <1>9, <1>10, <1>12, <1>13 DEF z, h

\* Less is promised of the status of more rows.
LEMMA FollowsMore ==
    ASSUME NEW rows, NEW ps, NEW c, NEW loose, NEW more,
           \A i \in DOMAIN rows : rows[i].id \in loose => rows[i].id \in more
    PROVE  /\ FollowsAll(c, ps, rows, loose) => FollowsAll(c, ps, rows, more)
           /\ FollowsList(c, ps, rows, loose) => FollowsList(c, ps, rows, more)
<1>1. ASSUME NEW items, NEW p, FollowsItems(c, items, p, rows, loose)
      PROVE  FollowsItems(c, items, p, rows, more)
  <2>1. ASSUME NEW k \in DOMAIN PageOf(rows, p)
        PROVE  \E i \in DOMAIN rows : Follows(items[k], rows[i], more)
    BY <1>1, <2>1 DEF FollowsItems, Follows
  <2>2. QED
    BY <1>1, <2>1 DEF FollowsItems
<1>2. QED
  BY <1>1 DEF FollowsAll, FollowsList, FollowsPage

\* The page after those that are loaded.
LEMMA FollowsNext ==
    ASSUME NEW rows, Len(rows) \in 0..MaxLinks, NEW ps \in Seq(Page), NEW c, NEW loose,
           NEW items \in Seq(Row), FollowsAll(c, ps, rows, loose),
           FollowsItems(c, items, Len(ps) + 1, rows, loose)
    PROVE  FollowsList(c, Append(ps, [items |-> items, total |-> Len(rows)]), rows, loose)
<1> DEFINE L == Len(ps)
           x == [items |-> items, total |-> Len(rows)]
           z == Append(ps, x)
<1>1. L \in Nat /\ DOMAIN ps = 1..L
  OBVIOUS
<1>2. x \in Page /\ x.items = items /\ x.total = Len(rows)
  BY DEF Page
<1> HIDE DEF x
<1>3. /\ z \in Seq(Page) /\ DOMAIN z = 1..(L + 1) /\ z[L + 1] = x
      /\ \A p \in 1..L : z[p] = ps[p]
  BY <1>2, AppendProperties
<1> HIDE DEF z, L
<1>4. z # <<>>
  BY <1>1, <1>3
<1>5. ASSUME NEW p \in DOMAIN z PROVE FollowsPage(c, z[p], p, rows, loose)
  <2>1. CASE p \in 1..L
    BY <1>1, <1>3, <2>1 DEF FollowsAll
  <2>2. CASE p = L + 1
    BY <1>2, <1>3, <2>2 DEF FollowsPage, L
  <2>3. QED
    BY <1>1, <1>3, <2>1, <2>2
<1>6. QED
  BY <1>4, <1>5 DEF FollowsList, FollowsAll, z, x

\* What is read in one of the orders is what the table has there.
LEMMA ReadFollows ==
    ASSUME db \in Seq(Row), Len(db) <= MaxLinks, NEW order \in Orders, NEW p \in Nat \ {0}
    PROVE  FollowsItems(createdAt, PageOf(order, p), p, db, {})
<1> DEFINE before == (p - 1) * PageSize
           s == PageOf(order, p)
           t == PageOf(db, p)
<1>1. /\ order \in Seq(Row) /\ Len(order) = Len(db)
      /\ \A k \in DOMAIN db : \E l \in DOMAIN db : order[k] = db[l]
      /\ \A k \in DOMAIN db : createdAt[order[k].id] = createdAt[db[k].id]
  BY OrderRead
<1>2. /\ t \in Seq(Row)
      /\ Len(t) = IF Len(db) <= before THEN 0
                  ELSE IF Len(db) <= before + PageSize THEN Len(db) - before ELSE PageSize
      /\ \A k \in 1..Len(t) : before + k \in 1..Len(db) /\ t[k] = db[before + k]
  BY PageOfRows
<1>3. /\ Len(s) = IF Len(db) <= before THEN 0
                  ELSE IF Len(db) <= before + PageSize THEN Len(db) - before ELSE PageSize
      /\ \A k \in 1..Len(s) : s[k] = order[before + k]
  BY <1>1, PageOfRows
<1> HIDE DEF s, t, before
<1>4. Len(s) = Len(t) /\ DOMAIN t = 1..Len(t) /\ DOMAIN db = 1..Len(db)
  BY <1>2, <1>3
<1>5. ASSUME NEW k \in DOMAIN t
      PROVE  /\ createdAt[s[k].id] = createdAt[t[k].id]
             /\ \E i \in DOMAIN db : Follows(s[k], db[i], {})
  <2>1. before + k \in DOMAIN db /\ t[k] = db[before + k] /\ s[k] = order[before + k]
    BY <1>2, <1>3, <1>4
  <2>2. PICK l \in DOMAIN db : order[before + k] = db[l]
    BY <1>1, <2>1
  <2>3. QED
    BY <1>1, <2>1, <2>2 DEF Follows
<1>6. QED
  BY <1>4, <1>5 DEF FollowsItems, s, t

LEMMA PatchedRows ==
    ASSUME NEW ps \in Seq(Page), NEW e, NEW p \in DOMAIN ps
    PROVE  LET s == ps[p].items
               t == Patched(ps, e)[p].items
           IN /\ Patched(ps, e)[p].total = ps[p].total
              /\ DOMAIN t = DOMAIN s /\ DOMAIN s = 1..Len(s) /\ Len(t) = Len(s)
              /\ \A k \in DOMAIN s :
                    /\ t[k].id = s[k].id /\ t[k].indexable = s[k].indexable
                    /\ t[k].status = IF s[k].id = e.id THEN e.status ELSE s[k].status
<1> DEFINE s == ps[p].items
           v == [k \in DOMAIN s |-> IF s[k].id = e.id THEN [s[k] EXCEPT !.status = e.status] ELSE s[k]]
<1>1. ps[p] \in Page
  OBVIOUS
<1>2. s \in Seq(Row) /\ DOMAIN s = 1..Len(s) /\ Len(s) \in Nat
  BY <1>1 DEF Page
<1>3. \A k \in DOMAIN s : s[k] \in Row
  BY <1>2
<1>4. Patched(ps, e)[p] = [ps[p] EXCEPT !.items = v]
  BY DEF Patched
<1>5. Patched(ps, e)[p].total = ps[p].total /\ Patched(ps, e)[p].items = v
  BY <1>1, <1>4 DEF Page
<1>6. \A k \in DOMAIN s :
         /\ v[k].id = s[k].id /\ v[k].indexable = s[k].indexable
         /\ v[k].status = IF s[k].id = e.id THEN e.status ELSE s[k].status
  BY <1>3 DEF Row
<1>7. DOMAIN v = DOMAIN s /\ Len(v) = Len(s)
  BY <1>2
<1> HIDE DEF s, v
<1>8. QED
  BY <1>2, <1>5, <1>6, <1>7 DEF s

\* An event is applied to the pages: it tells the status of its link, or another will.
LEMMA FollowsPatch ==
    ASSUME NEW rows \in Seq(Row), Len(rows) <= MaxLinks, NEW ps \in Seq(Page), NEW c,
           NEW loose, NEW more,
           NEW e, e.status \in Statuses, FollowsList(c, ps, rows, loose),
           \A i \in DOMAIN rows : rows[i].id \in loose => rows[i].id \in more \/ rows[i].id = e.id,
           \A i \in DOMAIN rows : rows[i].id = e.id => e.status = rows[i].status \/ rows[i].id \in more
    PROVE  FollowsList(c, Patched(ps, e), rows, more)
<1> DEFINE z == Patched(ps, e)
<1>1. DOMAIN ps = 1..Len(ps) /\ Len(ps) \in Nat /\ ps # <<>> /\ Len(ps) # 0
  BY EmptySeq DEF FollowsList
<1>2. z \in Seq(Page) /\ Len(z) = Len(ps)
  BY PatchTyped
<1>3. z # <<>> /\ DOMAIN z = DOMAIN ps
  BY <1>1, <1>2
<1> HIDE DEF z
<1>4. ASSUME NEW p \in DOMAIN ps PROVE FollowsPage(c, z[p], p, rows, more)
  <2> DEFINE h == PageOf(rows, p)
             s == ps[p].items
             t == z[p].items
  <2>1. p \in Nat \ {0}
    BY <1>1
  <2>2. h \in Seq(Row) /\ DOMAIN h = 1..Len(h)
    BY <2>1, PageOfRows
  <2>3. FollowsPage(c, ps[p], p, rows, loose)
    BY DEF FollowsList, FollowsAll
  <2>4. /\ z[p].total = ps[p].total /\ DOMAIN s = 1..Len(s) /\ Len(t) = Len(s)
        /\ \A k \in DOMAIN s :
              /\ t[k].id = s[k].id /\ t[k].indexable = s[k].indexable
              /\ t[k].status = IF s[k].id = e.id THEN e.status ELSE s[k].status
    BY PatchedRows DEF z
  <2> HIDE DEF h, s, t
  <2>5. ps[p].total = Len(rows) /\ Len(s) = Len(h)
        /\ \A k \in DOMAIN h : /\ c[s[k].id] = c[h[k].id]
                               /\ \E i \in DOMAIN rows : Follows(s[k], rows[i], loose)
    BY <2>3 DEF FollowsPage, FollowsItems, s, h
  <2>6. ASSUME NEW k \in DOMAIN h
        PROVE  c[t[k].id] = c[h[k].id] /\ \E i \in DOMAIN rows : Follows(t[k], rows[i], more)
    <3>1. PICK i \in DOMAIN rows : Follows(s[k], rows[i], loose)
      BY <2>5
    <3>2. k \in DOMAIN s
      BY <2>2, <2>4, <2>5
    <3>3. s[k].id = rows[i].id /\ s[k].indexable = rows[i].indexable
          /\ (s[k].status = rows[i].status \/ rows[i].id \in loose)
      BY <3>1 DEF Follows
    <3>4. t[k].id = rows[i].id /\ t[k].indexable = rows[i].indexable /\ t[k].id = s[k].id
      BY <2>4, <3>2, <3>3
    <3>5. t[k].status = rows[i].status \/ rows[i].id \in more
      <4>1. CASE rows[i].id = e.id
        BY <2>4, <3>2, <3>3, <4>1
      <4>2. CASE rows[i].id # e.id
        BY <2>4, <3>2, <3>3, <4>2
      <4>3. QED
        BY <4>1, <4>2
    <3>6. QED
      BY <2>5, <3>4, <3>5 DEF Follows
  <2>7. QED
    BY <2>4, <2>5, <2>6 DEF FollowsPage, FollowsItems, h, t
<1>5. QED
  BY <1>3, <1>4 DEF FollowsList, FollowsAll, z

\* What the steps below start from.
LEMMA Given ==
    ASSUME TypeInv
    PROVE  /\ db \in Seq(Row) /\ Len(db) <= MaxLinks /\ born \in Nat
           /\ \A k \in DOMAIN db : db[k] \in Row /\ db[k].id \in Ids
           /\ stream \in Streams /\ stream.queue \in Seq(Events)
           /\ pages \in Seq(Page) /\ linksFetch \in Fetches /\ linksFetch.got \in Seq(Page)
           /\ linksFetch.upto \in Nat /\ linksFetch.items \in Seq(Row)
           /\ run \in Runs /\ checks \subseteq Checks /\ flag \in BOOLEAN
           /\ Busy \subseteq Ids
<1>1. db \in Seq(Row) /\ born \in Nat /\ Len(db) <= MaxLinks
  BY PageAssumption DEF TypeInv, ServerType, PageAssumption
<1>2. \A k \in DOMAIN db : db[k] \in Row
  BY <1>1
<1>3. stream \in Streams /\ stream.queue \in Seq(Events)
  BY DEF TypeInv, RestType, Streams
<1>4. pages \in Seq(Page) /\ linksFetch \in Fetches
  BY DEF TypeInv, PageType
<1>5. linksFetch.got \in Seq(Page) /\ linksFetch.upto \in Nat /\ linksFetch.items \in Seq(Row)
  BY <1>4, PageAssumption DEF Fetches, PageAssumption
<1>6. run \in Runs /\ checks \subseteq Checks /\ flag \in BOOLEAN
  BY DEF TypeInv, WorkType, ServerType
<1>7. Busy \subseteq Ids
  BY <1>6 DEF Busy, Checks
<1>8. QED
  BY <1>1, <1>2, <1>3, <1>4, <1>5, <1>6, <1>7 DEF Row

\* Steps that neither write the table nor take part in a fetch or in an event.
Frame ==
    /\ UNCHANGED <<db, born, createdAt, flag, pages, project, linksFetch, projectFetch, settled>>
    /\ stream'.queue = stream.queue
    /\ stream'.state # "open" => stream.state # "open"
    /\ run.pc = "cleared" => run'.pc = "cleared"
    /\ \A k \in DOMAIN db : db[k].id \in Busy => db[k].id \in Busy'

LEMMA FrameKeeps ==
    ASSUME TypeInv, SettledInv, Frame
    PROVE  SettledInv'
<1>1. /\ db \in Seq(Row) /\ Len(db) <= MaxLinks /\ born \in Nat /\ stream.queue \in Seq(Events)
      /\ pages \in Seq(Page) /\ linksFetch.got \in Seq(Page)
  BY Given
<1>2. EventsBorn(stream.queue, born) /\ StatusTold(stream.queue, db, Busy')
  BY <1>1, EventsKept DEF SettledInv, StreamInv, Frame
<1>3. StreamInv'
  BY <1>2 DEF SettledInv, StreamInv, Frame
<1>4. \A i \in DOMAIN db : db[i].id \in Loose => db[i].id \in Loose'
  BY DEF Loose, Frame
<1>5. ASSUME settled, RowsSettled PROVE RowsSettled'
  <2>1. linksFetch.kind = "none" => FollowsList(createdAt, pages, db, Loose')
    BY <1>1, <1>4, <1>5, FollowsMore DEF RowsSettled
  <2>2. linksFetch.kind = "next" => FollowsList(createdAt, linksFetch.got, db, Loose')
    BY <1>1, <1>4, <1>5, FollowsMore DEF RowsSettled
  <2>3. QED
    BY <1>5, <2>1, <2>2 DEF RowsSettled, Frame
<1>6. ASSUME FlagSettled PROVE FlagSettled'
  BY <1>6 DEF FlagSettled, Frame
<1>7. QED
  BY <1>3, <1>5, <1>6 DEF SettledInv, Frame

LEMMA FrameSteps ==
    /\ UNCHANGED vars \/ User \/ Connect \/ RunSkips => Frame
    /\ \A r \in requests : AnswerLost(r) => Frame
    /\ \A c \in checks : CheckThrows(c) \/ (CheckBegins(c) /\ ~Exists(c.id)) => Frame
<1> USE DEF serverVars, workVars, pageVars, bounds, history
<1>1. UNCHANGED vars => Frame
  BY DEF vars, Frame, Busy
<1>2. ASSUME User PROVE Frame
  <2>1. CASE ClickStart
    BY <2>1 DEF ClickStart, Frame, Busy
  <2>2. CASE ClickDeleteAll \/ SubmitLinks
    BY <2>2 DEF ClickDeleteAll, SubmitLinks, Ask, Frame, Busy
  <2>3. ASSUME NEW i \in ShownIds, ClickRecheck(i) PROVE Frame
    <3>1. checks \subseteq checks'
      BY <2>3 DEF ClickRecheck
    <3>2. QED
      BY <2>3, <3>1 DEF ClickRecheck, Frame, Busy
  <2>4. ASSUME NEW i \in ShownIds, ClickDelete(i) PROVE Frame
    BY <2>4 DEF ClickDelete, Ask, Frame, Busy
  <2>5. QED
    BY <1>2, <2>1, <2>2, <2>3, <2>4 DEF User
<1>3. Connect => Frame
  BY DEF Connect, Frame, Busy
<1>4. RunSkips => Frame
  BY DEF RunSkips, Frame, Busy
<1>5. \A r \in requests : AnswerLost(r) => Frame
  BY DEF AnswerLost, Frame, Busy
<1>6. ASSUME NEW c \in checks, CheckThrows(c) \/ (CheckBegins(c) /\ ~Exists(c.id)) PROVE Frame
  <2>1. checks' = checks \ {c} /\ \A k \in DOMAIN db : db[k].id # c.id
    BY <1>6 DEF CheckThrows, CheckBegins, Exists
  <2>2. \A k \in DOMAIN db : db[k].id \in Busy => db[k].id \in Busy'
    BY <2>1 DEF Busy
  <2>3. run.pc = "cleared" => run'.pc = "cleared"
    BY <1>6 DEF CheckThrows, CheckBegins
  <2>4. /\ UNCHANGED <<db, born, createdAt, flag, pages, project, linksFetch, projectFetch, settled>>
        /\ stream' = stream
    BY <1>6 DEF CheckThrows, CheckBegins
  <2>5. QED
    BY <2>2, <2>3, <2>4 DEF Frame
<1>7. QED
  BY <1>1, <1>2, <1>3, <1>4, <1>5, <1>6

\* The queries: the table stays as it is while they read and land.
\* One query of the next page has answered, in the table as it is: f is what is read now.
LEMMA ReadSettles ==
    ASSUME TypeInv, settled => RowsSettled, NEW f \in Fetches, MorePages(linksFetch),
           linksFetch' = Answered(f), UNCHANGED <<db, createdAt, pages, settled, stream, checks>>,
           f.got = linksFetch.got, f.upto = linksFetch.upto, f.kind = linksFetch.kind,
           linksFetch.kind # "none",
           settled => /\ "items" \in f.read =>
                            FollowsItems(createdAt, f.items, Len(linksFetch.got) + 1, db, {})
                      /\ "total" \in f.read => f.total = Len(db)
    PROVE  /\ settled' => RowsSettled'
           /\ linksFetch'.kind = linksFetch.kind /\ linksFetch'.upto = linksFetch.upto
<1>1. Len(f.got) < f.upto
  BY DEF MorePages
<1>2. linksFetch'.kind = linksFetch.kind /\ linksFetch'.upto = linksFetch.upto
  BY <1>1, AnsweredTyped
<1>3. Loose' = Loose
  BY DEF Loose, Busy
<1>4. /\ Len(db) \in 0..MaxLinks /\ linksFetch.got \in Seq(Page) /\ f.items \in Seq(Row)
  <2>1. db \in Seq(Row) /\ Len(db) <= MaxLinks
    BY Given
  <2>2. QED
    BY <2>1, Given, PageAssumption DEF Fetches, PageAssumption
<1>5. ASSUME settled PROVE RowsSettled'
  <2>0. RowsSettled
    BY <1>5
  <2>1. CASE f.read # {"items", "total"}
    <3>1. linksFetch' = f
      BY <1>1, <2>1, AnsweredTyped
    <3>2. QED
      BY <1>3, <1>5, <2>0, <3>1 DEF RowsSettled
  <2>2. CASE f.read = {"items", "total"}
    <3> DEFINE z == Append(linksFetch.got, [items |-> f.items, total |-> Len(db)])
    <3>1. FollowsItems(createdAt, f.items, Len(linksFetch.got) + 1, db, {}) /\ f.total = Len(db)
      BY <1>5, <2>2
    <3>2. linksFetch'.read = {} /\ linksFetch'.got = z
      BY <1>1, <2>2, <3>1, AnsweredTyped
    <3>3. CASE linksFetch.kind = "all"
      <4>1. FollowsAll(createdAt, linksFetch.got, db, {})
        BY <2>0, <3>3 DEF RowsSettled
      <4>2. FollowsList(createdAt, z, db, {})
        BY <1>4, <3>1, <4>1, FollowsNext
      <4> HIDE DEF z
      <4>3. QED
        BY <1>2, <3>2, <3>3, <4>2 DEF RowsSettled, FollowsList
    <3>4. CASE linksFetch.kind = "next"
      <4>1. FollowsAll(createdAt, linksFetch.got, db, Loose)
        BY <2>0, <3>4 DEF RowsSettled, FollowsList
      <4>2. FollowsItems(createdAt, f.items, Len(linksFetch.got) + 1, db, Loose)
        BY <3>1 DEF FollowsItems, Follows
      <4>3. FollowsList(createdAt, z, db, Loose)
        BY <1>4, <4>1, <4>2, FollowsNext
      <4> HIDE DEF z
      <4>4. QED
        BY <1>2, <1>3, <3>2, <3>4, <4>3 DEF RowsSettled
    <3>5. linksFetch.kind \in {"all", "next"}
      BY Given DEF Fetches
    <3>6. QED
      BY <3>3, <3>4, <3>5
  <2>3. QED
    BY <2>1, <2>2
<1>6. QED
  BY <1>2, <1>5

\* The queries: the table stays as it is while they read and land.
LEMMA QueriesSettle ==
    ASSUME TypeInv, SettledInv,
           \/ (\E order \in Orders : ReadItems(order)) \/ ReadTotal \/ LandLinks
           \/ ReadProject \/ LandProject \/ FetchFails \/ FetchNext
    PROVE  SettledInv'
<1> USE DEF serverVars, workVars, pageVars, bounds, history
<1>1. UNCHANGED <<db, born, createdAt, flag, checks, run, stream>>
  BY DEF ReadItems, ReadTotal, LandLinks, ReadProject, LandProject, FetchFails, FetchNext
<1>2. StreamInv' /\ Loose' = Loose
  BY <1>1 DEF SettledInv, StreamInv, Loose, Busy
<1>3. db \in Seq(Row) /\ Len(db) <= MaxLinks /\ pages \in Seq(Page) /\ linksFetch \in Fetches
      /\ linksFetch.got \in Seq(Page) /\ linksFetch.upto \in Nat
  BY Given
<1>4. settled => RowsSettled /\ FlagSettled
  BY DEF SettledInv
<1>12. ASSUME UNCHANGED <<project, projectFetch, settled>>, settled' => RowsSettled',
              linksFetch'.kind = linksFetch.kind, linksFetch'.upto = linksFetch.upto
       PROVE  SettledInv'
  <2>1. FlagSettled => FlagSettled'
    BY <1>1, <1>12 DEF FlagSettled
  <2>2. QED
    BY <1>2, <1>4, <1>12, <2>1 DEF SettledInv
<1>5. ASSUME NEW order \in Orders, ReadItems(order) PROVE SettledInv'
  <2>1. PICK f : /\ f = [linksFetch EXCEPT !.items = PageOf(order, NextParam(linksFetch.got)),
                                           !.read = @ \cup {"items"}]
                 /\ linksFetch' = Answered(f) /\ MorePages(linksFetch)
                 /\ linksFetch.kind # "none"
                 /\ UNCHANGED <<pages, project, projectFetch, settled>>
    BY <1>5 DEF ReadItems
  <2>2. /\ f \in Fetches /\ f.got = linksFetch.got /\ f.upto = linksFetch.upto
        /\ f.kind = linksFetch.kind /\ f.read = linksFetch.read \cup {"items"}
        /\ f.items = PageOf(order, Len(linksFetch.got) + 1) /\ f.total = linksFetch.total
    BY <2>1, ItemsRead
  <2>3. FollowsItems(createdAt, f.items, Len(linksFetch.got) + 1, db, {})
    <3>1. Len(linksFetch.got) + 1 \in Nat \ {0}
      BY <1>3
    <3>2. QED
      BY <1>3, <2>2, <3>1, ReadFollows
  <2>4. settled => ("total" \in f.read => f.total = Len(db))
    BY <1>4, <2>2 DEF RowsSettled
  <2>5. QED
    BY <1>1, <1>4, <1>12, <2>1, <2>2, <2>3, <2>4, ReadSettles
<1>13. CASE ReadTotal
  <2>1. PICK f : /\ f = [linksFetch EXCEPT !.total = Len(db), !.read = @ \cup {"total"}]
                 /\ linksFetch' = Answered(f) /\ MorePages(linksFetch)
                 /\ linksFetch.kind # "none"
                 /\ UNCHANGED <<pages, project, projectFetch, settled>>
    BY <1>13 DEF ReadTotal
  <2>2. /\ f \in Fetches /\ f.got = linksFetch.got /\ f.upto = linksFetch.upto
        /\ f.kind = linksFetch.kind /\ f.read = linksFetch.read \cup {"total"}
        /\ f.items = linksFetch.items /\ f.total = Len(db)
    BY <2>1, TotalRead
  <2>3. settled => ("items" \in f.read =>
                       FollowsItems(createdAt, f.items, Len(linksFetch.got) + 1, db, {}))
    BY <1>4, <2>2 DEF RowsSettled
  <2>4. QED
    BY <1>1, <1>4, <1>12, <2>1, <2>2, <2>3, ReadSettles
<1>6. CASE LandLinks
  <2>1. /\ pages' = linksFetch.got /\ linksFetch'.kind = "none" /\ linksFetch'.read = {}
        /\ UNCHANGED <<project, projectFetch, settled>>
    BY <1>6 DEF LandLinks, NotFetching, Fetch
  <2>2. ASSUME settled PROVE FollowsList(createdAt, linksFetch.got, db, Loose)
    <3>1. CASE linksFetch.kind = "all"
      <4>1. linksFetch.upto # 0 /\ ~MorePages(linksFetch)
        BY <1>6, <3>1 DEF LandLinks, SettledInv
      <4>2. linksFetch.got # <<>>
        BY <1>3, <4>1 DEF MorePages
      <4>3. FollowsAll(createdAt, linksFetch.got, db, {})
        BY <1>4, <2>2, <3>1 DEF RowsSettled
      <4>4. QED
        BY <4>2, <4>3, FollowsMore DEF FollowsList
    <3>2. CASE linksFetch.kind = "next"
      BY <1>4, <2>2, <3>2 DEF RowsSettled
    <3>3. linksFetch.kind \in {"all", "next"}
      BY <1>3, <1>6 DEF LandLinks, Fetches
    <3>4. QED
      BY <3>1, <3>2, <3>3
  <2>3. settled => RowsSettled'
    BY <1>1, <1>2, <2>1, <2>2 DEF RowsSettled
  <2>4. FlagSettled => FlagSettled'
    BY <1>1, <2>1 DEF FlagSettled
  <2>5. QED
    BY <1>2, <1>4, <2>1, <2>3, <2>4 DEF SettledInv
<1>7. CASE ReadProject
  <2>1. projectFetch'.at = "read" /\ projectFetch'.value = flag
        /\ UNCHANGED <<pages, linksFetch, settled>>
    BY <1>7 DEF ReadProject
  <2>2. FlagSettled'
    BY <1>1, <2>1 DEF FlagSettled
  <2>3. RowsSettled => RowsSettled'
    BY <1>1, <1>2, <2>1 DEF RowsSettled
  <2>4. QED
    BY <1>2, <1>4, <2>1, <2>2, <2>3 DEF SettledInv
<1>8. CASE LandProject
  <2>1. projectFetch.at = "read" /\ project' = projectFetch.value /\ projectFetch'.at = "none"
        /\ UNCHANGED <<pages, linksFetch, settled>>
    BY <1>8 DEF LandProject, NotAsking
  <2>2. FlagSettled => FlagSettled'
    BY <1>1, <2>1 DEF FlagSettled
  <2>3. RowsSettled => RowsSettled'
    BY <1>1, <1>2, <2>1 DEF RowsSettled
  <2>4. QED
    BY <1>2, <1>4, <2>1, <2>2, <2>3 DEF SettledInv
<1>9. CASE FetchFails
  <2>1. settled' = FALSE /\ (linksFetch' = linksFetch \/ linksFetch'.kind = "none")
    BY <1>9 DEF FetchFails, NotFetching, Fetch
  <2>2. QED
    BY <1>2, <2>1 DEF SettledInv
<1>10. CASE FetchNext
  <2>1. /\ linksFetch'.kind = "next" /\ linksFetch'.got = pages /\ linksFetch'.read = {}
        /\ settled' => settled /\ linksFetch.kind = "none"
        /\ UNCHANGED <<project, projectFetch>>
    BY <1>10 DEF FetchNext, Fetch
  <2>2. settled' => RowsSettled'
    BY <1>1, <1>2, <1>4, <2>1 DEF RowsSettled
  <2>3. FlagSettled => FlagSettled'
    BY <1>1, <2>1 DEF FlagSettled
  <2>4. QED
    BY <1>2, <1>4, <2>1, <2>2, <2>3 DEF SettledInv
<1>11. QED
  BY <1>5, <1>13, <1>6, <1>7, <1>8, <1>9, <1>10

LEMMA AskedAnew ==
    ASSUME TypeInv, SettledInv, linksFetch' = RefetchLinks(pages), projectFetch' = RefetchProject
    PROVE  /\ linksFetch'.kind = "all" => linksFetch'.upto # 0
           /\ Anew => RowsSettled' /\ FlagSettled'
<1>1. pages \in Seq(Page) /\ Len(pages) \in Nat
  BY Given
<1>2. Max({1, Len(pages)}) # 0
  BY <1>1, Greater
<1>3. linksFetch'.kind = "all" => linksFetch'.upto # 0
  BY <1>2 DEF RefetchLinks, Fetch, SettledInv
<1>4. ASSUME Anew PROVE RowsSettled' /\ FlagSettled'
  <2>1. linksFetch'.kind = "all" /\ linksFetch'.got = <<>> /\ linksFetch'.read = {}
    BY <1>4 DEF RefetchLinks, Fetch, Anew
  <2>2. projectFetch'.at = "asked"
    BY <1>4 DEF RefetchProject, Anew
  <2>3. RowsSettled'
    BY <2>1 DEF RowsSettled, FollowsAll
  <2>4. FlagSettled'
    BY <2>2 DEF FlagSettled
  <2>5. QED
    BY <2>3, <2>4
<1>5. QED
  BY <1>3, <1>4

LEMMA StreamSettles ==
    ASSUME TypeInv, SettledInv, Deliver \/ \E next \in {"connecting", "dead"} : Drop(next)
    PROVE  SettledInv'
<1> USE DEF serverVars, workVars, pageVars, bounds, history
<1>1. UNCHANGED <<db, born, createdAt, flag, checks, run>>
  BY DEF Deliver, Drop
<1>2. Busy' = Busy
  BY <1>1 DEF Busy
<1>3. db \in Seq(Row) /\ Len(db) <= MaxLinks /\ pages \in Seq(Page) /\ stream \in Streams
      /\ stream.queue \in Seq(Events) /\ linksFetch.got \in Seq(Page) /\ flag \in BOOLEAN
  BY Given
<1>4. StreamInv /\ (settled => RowsSettled /\ FlagSettled)
  BY DEF SettledInv
<1>5. ASSUME NEW next \in {"connecting", "dead"}, Drop(next) PROVE SettledInv'
  <2>1. /\ stream'.queue = <<>> /\ settled' = (settled /\ stream.queue = <<>>)
        /\ UNCHANGED <<pages, project, linksFetch, projectFetch>>
    BY <1>5 DEF Drop
  <2>2. StreamInv'
    BY <1>1, <2>1, NoEvents DEF StreamInv
  <2>3. ASSUME settled' PROVE RowsSettled' /\ FlagSettled'
    <3>1. settled /\ stream'.queue = stream.queue
      BY <2>1, <2>3
    <3>2. Loose' = Loose
      BY <1>2, <3>1 DEF Loose
    <3>3. QED
      BY <1>1, <1>2, <1>4, <2>1, <3>1, <3>2 DEF RowsSettled, FlagSettled
  <2>4. QED
    BY <2>1, <2>2, <2>3 DEF SettledInv
<1>6. CASE Deliver
  <2> DEFINE q == stream.queue
             e == Head(q)
             z == Tail(q)
  <2>1. q # <<>> /\ stream'.queue = z /\ stream'.state = stream.state
        /\ (ApplyLinkUpdated(e) \/ ApplyLockChanged(e))
    BY <1>3, <1>6 DEF Deliver, Streams
  <2>2. /\ e \in Events /\ z \in Seq(Events)
        /\ EventsBorn(z, born) /\ StatusTold(z, db, Busy)
        /\ SaysLocked(z) => SaysLocked(q)
        /\ Locks(e) /\ ~SaysFree(z) => SaysLocked(q)
        /\ Locks(e) /\ SaysFree(q) => SaysFree(z)
        /\ e.type = "link_updated" /\ SaysFree(q) => SaysFree(z)
        /\ \A i \in Told(q) : i \in Told(z) \/ IsAbout(e, i)
        /\ \A k \in DOMAIN db : IsAbout(e, db[k].id) =>
              e.status = db[k].status \/ db[k].id \in Busy \/ db[k].id \in Told(z)
    BY <1>3, <1>4, <2>1, SequencesGrow, HeadTaken DEF StreamInv
  <2> HIDE DEF e, z, q
  <2>3. stream.state = "open"
    BY <1>4, <2>1 DEF StreamInv, q
  <2>4. StreamInv'
    BY <1>1, <1>2, <1>4, <2>1, <2>2, <2>3 DEF StreamInv, q
  <2>5. CASE ApplyLinkUpdated(e)
    <3>1. /\ e.type = "link_updated" /\ pages' = Patched(pages, e)
          /\ settled' = (settled /\ linksFetch.kind # "next")
          /\ UNCHANGED <<project, linksFetch, projectFetch>>
      BY <2>5 DEF ApplyLinkUpdated
    <3>2. e.status \in Statuses
      BY <2>2, <3>1 DEF Events
    <3>3. \A i : IsAbout(e, i) <=> e.id = i
      BY <3>1 DEF IsAbout
    <3>4. Loose = Told(q) \cup Busy /\ Loose' = Told(z) \cup Busy
      BY <1>2, <2>1 DEF Loose, q
    <3>5. ASSUME settled, linksFetch.kind = "none" PROVE FollowsList(createdAt, Patched(pages, e), db, Loose')
      <4>1. FollowsList(createdAt, pages, db, Loose)
        BY <1>4, <3>5 DEF RowsSettled
      <4>2. \A i \in DOMAIN db : db[i].id \in Loose => db[i].id \in Loose' \/ db[i].id = e.id
        BY <2>2, <3>3, <3>4
      <4>3. \A i \in DOMAIN db : db[i].id = e.id => e.status = db[i].status \/ db[i].id \in Loose'
        BY <2>2, <3>3, <3>4
      <4>4. QED
        BY <1>3, <3>2, <4>1, <4>2, <4>3, FollowsPatch
    <3>6. settled' => RowsSettled'
      BY <1>1, <1>2, <1>4, <3>1, <3>5 DEF RowsSettled
    <3>7. FlagSettled => FlagSettled'
      BY <1>1, <2>1, <2>2, <3>1 DEF FlagSettled, q
    <3>8. QED
      BY <1>4, <2>4, <3>1, <3>6, <3>7 DEF SettledInv
  <2>6. CASE ApplyLockChanged(e)
    <3>1. e.type = "lock_changed" /\ pages' = pages
      BY <2>6 DEF ApplyLockChanged
    <3>2. e.on \in BOOLEAN /\ (e.on => Locks(e)) /\ (~e.on => Frees(e))
      BY <2>2, <3>1, LockEvents
    <3>3. CASE e.on
      <4>1. /\ project' = IF project = None THEN None ELSE e.on
            /\ UNCHANGED <<linksFetch, projectFetch, settled>>
        BY <2>6, <3>3 DEF ApplyLockChanged
      <4>2. Loose = Told(q) \cup Busy /\ Loose' = Told(z) \cup Busy
        BY <1>2, <2>1 DEF Loose, q
      <4>3. \A i \in DOMAIN db : db[i].id \in Loose => db[i].id \in Loose'
        BY <2>2, <3>1, <4>2 DEF IsAbout
      <4>4. ASSUME settled PROVE RowsSettled'
        <5>1. linksFetch.kind = "none" => FollowsList(createdAt, pages, db, Loose')
          BY <1>3, <1>4, <4>3, <4>4, FollowsMore DEF RowsSettled
        <5>2. linksFetch.kind = "next" => FollowsList(createdAt, linksFetch.got, db, Loose')
          BY <1>3, <1>4, <4>3, <4>4, FollowsMore DEF RowsSettled
        <5>3. QED
          BY <1>1, <1>2, <1>4, <3>1, <4>1, <4>4, <5>1, <5>2 DEF RowsSettled
      <4>5. ASSUME settled, projectFetch.at = "none"
            PROVE  project' = flag \/ run.pc = "cleared" \/ SaysFree(z)
        <5>1. SaysFree(z) \/ flag \/ run.pc = "cleared"
          BY <1>4, <2>2, <3>2, <3>3 DEF StreamInv, q
        <5>2. project = flag \/ run.pc = "cleared" \/ SaysFree(q)
          BY <1>4, <4>5 DEF FlagSettled, q
        <5>3. SaysFree(q) => SaysFree(z)
          BY <2>2, <3>2, <3>3
        <5>4. CASE flag /\ project = flag
          <6>1. project # None
            BY <1>3, <5>4, PageAssumption DEF PageAssumption
          <6>2. project' = e.on
            BY <4>1, <6>1
          <6>3. e.on = TRUE /\ flag = TRUE
            BY <1>3, <3>2, <3>3, <5>4
          <6>4. QED
            BY <6>2, <6>3
        <5>5. QED
          BY <5>1, <5>2, <5>3, <5>4
      <4>6. settled => FlagSettled'
        BY <1>1, <1>4, <2>1, <4>1, <4>5 DEF FlagSettled
      <4>7. QED
        BY <2>4, <4>1, <4>4, <4>6 DEF SettledInv
    <3>4. CASE ~e.on
      <4>1. /\ linksFetch' = RefetchLinks(pages) /\ projectFetch' = RefetchProject /\ settled' = Anew
        BY <2>6, <3>4 DEF ApplyLockChanged
      <4>2. QED
        BY <2>4, <4>1, AskedAnew DEF SettledInv
    <3>5. QED
      BY <3>3, <3>4
  <2>7. QED
    BY <2>1, <2>5, <2>6
<1>7. QED
  BY <1>5, <1>6

\* A write of the API, and its answer.
LEMMA RequestsSettle ==
    ASSUME TypeInv, TypeInv', SettledInv, NEW r \in requests,
           ServeWrite(r) \/ DeleteAnswered(r) \/ WriteAnswered(r)
    PROVE  SettledInv'
<1> USE DEF serverVars, workVars, pageVars, bounds, history
<1>1. UNCHANGED <<flag, checks, run, stream>> /\ Busy' = Busy
  BY DEF ServeWrite, DeleteAnswered, WriteAnswered, Busy
<1>2. /\ db \in Seq(Row) /\ born \in Nat /\ stream.queue \in Seq(Events)
      /\ db' \in Seq(Row) /\ born' \in Nat
  BY Given DEF TypeInv, ServerType
<1>3. StreamInv
  BY DEF SettledInv
<1>4. CASE ServeWrite(r)
  <2> DEFINE Was(k) == \E i \in DOMAIN db : /\ db'[k].id = db[i].id /\ db'[k].status = db[i].status
                                            /\ db[i].id \in Busy => db[i].id \in Busy
  <2>1. born <= born' /\ \A k \in DOMAIN db' : db'[k].id \in Busy \/ db'[k].id > born \/ Was(k)
    <3>1. CASE db' = Kept(db, Others(r.id)) /\ UNCHANGED <<born, createdAt>>
      <4> DEFINE s == Kept(db, Others(r.id))
      <4>1. PICK f : IsSpread(f, s, db, Len(db))
        BY <1>2, KeptInOrder
      <4>2. s \in Seq(Row) /\ DOMAIN s = 1..Len(s) /\ DOMAIN db = 1..Len(db)
        BY <1>2, <3>1
      <4> HIDE DEF s
      <4>3. \A k \in DOMAIN s : f[k] \in DOMAIN db /\ s[k] = db[f[k]]
        BY <4>1, <4>2 DEF IsSpread
      <4>4. \A k \in DOMAIN s : \E i \in DOMAIN db : s[k] = db[i]
        BY <4>3
      <4>5. db' = s
        BY <3>1 DEF s
      <4>6. \A k \in DOMAIN db' : Was(k)
        BY <4>4, <4>5
      <4>7. born <= born'
        BY <1>2, <3>1
      <4>8. QED
        BY <4>6, <4>7
    <3>2. CASE db' = <<>> /\ UNCHANGED <<born, createdAt>>
      BY <1>2, <3>2
    <3>3. ASSUME NEW n \in 1..(MaxLinks - born), Create(n)
          PROVE  born <= born' /\ \A k \in DOMAIN db' : db'[k].id > born \/ Was(k)
      <4>1. /\ n \in Nat /\ born' = born + n /\ Len(db) \in Nat /\ Len(db') = Len(db) + n
            /\ \A i \in 1..Len(db) : db'[i] = db[i]
            /\ \A i \in 1..Len(db') :
                  i \in 1..Len(db) \/ (i > Len(db) /\ db'[i].id = born + (i - Len(db)))
        BY <3>3, Created DEF TypeInv
      <4>2. DOMAIN db = 1..Len(db) /\ DOMAIN db' = 1..Len(db')
        BY <1>2
      <4>3. ASSUME NEW k \in DOMAIN db' PROVE db'[k].id > born \/ Was(k)
        <5>1. CASE k \in 1..Len(db)
          <6>1. k \in DOMAIN db /\ db'[k] = db[k]
            BY <4>1, <4>2, <5>1
          <6>2. QED
            BY <6>1
        <5>2. CASE k > Len(db) /\ db'[k].id = born + (k - Len(db))
          <6>1. k \in Nat
            BY <4>2
          <6>2. born + (k - Len(db)) > born
            BY <1>2, <4>1, <5>2, <6>1
          <6>3. QED
            BY <5>2, <6>2
        <5>3. QED
          BY <4>1, <4>2, <5>1, <5>2
      <4>4. born <= born'
        BY <1>2, <4>1
      <4>5. QED
        BY <4>3, <4>4
    <3>4. QED
      BY <1>4, <3>1, <3>2, <3>3 DEF ServeWrite
  <2> DEFINE next == db'
             n == born'
  <2>2. EventsBorn(stream.queue, n) /\ StatusTold(stream.queue, next, Busy)
    <3>1. EventsBorn(stream.queue, born) /\ StatusTold(stream.queue, db, Busy)
      BY <1>3 DEF StreamInv
    <3>2. /\ next \in Seq(Row) /\ n \in Nat /\ born <= n
          /\ \A k \in DOMAIN next :
                \/ next[k].id \in Busy \/ next[k].id > born
                \/ \E i \in DOMAIN db : /\ next[k].id = db[i].id /\ next[k].status = db[i].status
                                        /\ db[i].id \in Busy => db[i].id \in Busy
      BY <1>2, <2>1
    <3> HIDE DEF next, n
    <3>3. QED
      BY <1>2, <3>1, <3>2, EventsKept
  <2>3. StreamInv'
    BY <1>1, <1>3, <2>2 DEF StreamInv
  <2>4. linksFetch' = linksFetch /\ settled' = FALSE
    BY <1>4 DEF ServeWrite
  <2>5. QED
    BY <2>3, <2>4 DEF SettledInv
<1>5. CASE DeleteAnswered(r) \/ WriteAnswered(r)
  <2>1. StreamInv'
    <3>1. UNCHANGED <<db, born>>
      BY <1>5 DEF DeleteAnswered, WriteAnswered
    <3>2. QED
      BY <1>1, <1>3, <3>1 DEF StreamInv
  <2>2. CASE DeleteAnswered(r)
    <3>1. linksFetch' = linksFetch /\ settled' = FALSE
      BY <2>2 DEF DeleteAnswered
    <3>2. QED
      BY <2>1, <3>1 DEF SettledInv
  <2>3. CASE WriteAnswered(r)
    <3>1. linksFetch' = RefetchLinks(pages) /\ projectFetch' = RefetchProject /\ settled' = Anew
      BY <2>3 DEF WriteAnswered
    <3>2. QED
      BY <2>1, <3>1, AskedAnew DEF SettledInv
  <2>4. QED
    BY <1>5, <2>2, <2>3
<1>6. QED
  BY <1>4, <1>5

\* What the worker's writes do to a row.
LEMMA RowsWritten ==
    ASSUME db \in Seq(Row)
    PROVE  /\ \A ids, s : \A k \in DOMAIN db :
                 /\ DOMAIN Marked(ids, s) = DOMAIN db /\ Marked(ids, s)[k].id = db[k].id
                 /\ Marked(ids, s)[k].status = IF db[k].id \in ids THEN s ELSE db[k].status
           /\ \A i, o : \A k \in DOMAIN db :
                 /\ DOMAIN Saved(i, o) = DOMAIN db /\ Saved(i, o)[k].id = db[k].id
                 /\ Saved(i, o)[k].status = IF db[k].id = i THEN o.status ELSE db[k].status
<1>1. \A k \in DOMAIN db : db[k] \in Row
  OBVIOUS
<1>2. ASSUME NEW x \in Row, NEW s
      PROVE  LET n == [x EXCEPT !.status = s] IN n.id = x.id /\ n.status = s
  BY DEF Row
<1>3. ASSUME NEW x \in Row, NEW o
      PROVE  LET n == [x EXCEPT !.status = o.status, !.indexable = o.indexable]
             IN n.id = x.id /\ n.status = o.status
  BY DEF Row
<1>4. QED
  BY <1>1, <1>2, <1>3 DEF Marked, Saved

\* An event is published, or lost because nobody listens.
LEMMA Published ==
    ASSUME TypeInv, StreamInv, NEW e \in Events, Publish(e)
    PROVE  /\ stream'.state = stream.state
           /\ \/ stream'.queue = <<>> /\ stream.state # "open"
              \/ stream'.queue = Append(stream.queue, e) /\ stream.state = "open"
BY Given DEF Publish, Streams, StreamInv

\* The worker's own steps.
LEMMA RunSettles ==
    ASSUME TypeInv, TypeInv', SettledInv,
           RunLocks \/ RunMarks \/ RunTells \/ \E written \in BOOLEAN : RunClears(written)
    PROVE  SettledInv'
<1> USE DEF serverVars, workVars, pageVars, bounds, history
<1>1. /\ db \in Seq(Row) /\ Len(db) <= MaxLinks /\ born \in Nat /\ stream.queue \in Seq(Events)
      /\ run \in Runs /\ pages \in Seq(Page) /\ linksFetch.got \in Seq(Page)
      /\ \A k \in DOMAIN db : db[k] \in Row
  BY Given
<1>2. StreamInv /\ UNCHANGED <<pages, project, linksFetch, projectFetch, born>>
  BY DEF SettledInv, RunLocks, RunMarks, RunTells, RunClears
<1>3. EventsBorn(stream.queue, born) /\ StatusTold(stream.queue, db, Busy)
  BY <1>2 DEF StreamInv
<1>4. ASSUME NEW e \in Events, e.type = "lock_changed", Publish(e), UNCHANGED <<db, checks>>
      PROVE  /\ stream'.state # "open" => stream'.queue = <<>>
             /\ EventsBorn(stream'.queue, born') /\ StatusTold(stream'.queue, db', Busy')
  <2>1. Busy' = Busy /\ db' = db /\ born' = born
    BY <1>2, <1>4 DEF Busy
  <2>2. CASE stream'.queue = <<>>
    BY <2>2, NoEvents
  <2>3. CASE stream'.queue = Append(stream.queue, e) /\ stream.state = "open"
    <3>1. \A i : ~IsAbout(e, i)
      BY <1>4 DEF IsAbout
    <3>2. EventsBorn(Append(stream.queue, e), born) /\ StatusTold(Append(stream.queue, e), db, Busy)
      BY <1>1, <1>3, <1>4, <3>1, EventAdded
    <3>3. stream'.state = "open"
      BY <1>2, <1>4, <2>3, Published
    <3>4. QED
      BY <2>1, <2>3, <3>2, <3>3
  <2>4. QED
    BY <1>2, <1>4, <2>2, <2>3, Published
<1>5. CASE RunLocks
  <2>1. /\ Publish(LockChanged(TRUE)) /\ LockChanged(TRUE) \in Events
        /\ flag' = TRUE /\ settled' = FALSE /\ UNCHANGED <<db, checks>>
    BY <1>5, EventsTyped DEF RunLocks
  <2>2. LockChanged(TRUE).type = "lock_changed"
    BY DEF LockChanged
  <2>3. StreamInv'
    BY <1>4, <2>1, <2>2 DEF StreamInv
  <2>4. QED
    BY <1>2, <2>1, <2>3 DEF SettledInv
<1>6. CASE RunMarks
  <2>1. /\ run.pc = "locked" /\ db' = Marked(run.links, "QUEUED") /\ settled' = FALSE
        /\ checks' = checks \cup {[id |-> i, by |-> "run", at |-> "waiting"] : i \in run.links}
        /\ UNCHANGED <<stream, flag>>
    BY <1>6 DEF RunMarks
  <2>2. run.links \subseteq Busy' /\ Busy \subseteq Busy'
    <3> DEFINE c(i) == [id |-> i, by |-> "run", at |-> "waiting"]
    <3>1. checks \subseteq checks' /\ \A i \in run.links : c(i) \in checks'
      BY <2>1
    <3>2. \A i : c(i).id = i
      OBVIOUS
    <3> HIDE DEF c
    <3>3. QED
      BY <3>1, <3>2 DEF Busy
  <2> DEFINE next == db'
             more == Busy'
  <2>4. next \in Seq(Row)
    BY DEF TypeInv, ServerType
  <2>5. ASSUME NEW k \in DOMAIN next
        PROVE  \/ next[k].id \in more \/ next[k].id > born
               \/ \E i \in DOMAIN db : /\ next[k].id = db[i].id /\ next[k].status = db[i].status
                                       /\ db[i].id \in Busy => db[i].id \in more
    <3>1. next = Marked(run.links, "QUEUED") /\ DOMAIN Marked(run.links, "QUEUED") = DOMAIN db
      BY <2>1 DEF Marked
    <3>2. k \in DOMAIN db
      BY <3>1
    <3>3. next[k].id = db[k].id
          /\ next[k].status = IF db[k].id \in run.links THEN "QUEUED" ELSE db[k].status
      BY <1>1, <3>1, <3>2, RowsWritten
    <3> HIDE DEF next
    <3>4. QED
      BY <2>2, <3>2, <3>3
  <2>6. EventsBorn(stream.queue, born) /\ StatusTold(stream.queue, next, more)
    <3> HIDE DEF next, more
    <3>1. QED
      BY <1>1, <1>3, <2>4, <2>5, EventsKept
  <2>7. SaysLocked(stream.queue) => flag
    BY <1>2, <2>1 DEF StreamInv
  <2>8. StreamInv'
    BY <1>2, <2>1, <2>6, <2>7 DEF StreamInv
  <2>9. QED
    BY <1>2, <2>1, <2>8 DEF SettledInv
<1>7. ASSUME NEW written \in BOOLEAN, RunClears(written) PROVE SettledInv'
  <2>1. run'.pc = "cleared" /\ settled' = FALSE /\ UNCHANGED <<db, checks, stream>>
    BY <1>1, <1>7 DEF RunClears, Runs
  <2>2. StreamInv'
    BY <1>2, <2>1 DEF StreamInv, Busy
  <2>3. QED
    BY <1>2, <2>1, <2>2 DEF SettledInv
<1>8. CASE RunTells
  <2> DEFINE f == LockChanged(FALSE)
  <2>1. /\ Publish(f) /\ f \in Events /\ Frees(f) /\ f.type = "lock_changed"
        /\ settled' = (settled /\ stream.state = "open")
        /\ UNCHANGED <<db, createdAt, flag, checks>>
    BY <1>8, EventsTyped, LockEvents DEF RunTells
  <2> HIDE DEF f
  <2>2. ~SaysLocked(stream'.queue) /\ (stream.state = "open" => SaysFree(stream'.queue))
    <3>1. CASE stream'.queue = <<>> /\ stream.state # "open"
      BY <3>1, NoEvents
    <3>2. CASE stream'.queue = Append(stream.queue, f) /\ stream.state = "open"
      <4>1. ~SaysLocked(Append(stream.queue, f)) /\ SaysFree(Append(stream.queue, f))
        BY <1>1, <2>1, LockAdded
      <4>2. QED
        BY <3>2, <4>1
    <3>3. QED
      BY <1>2, <2>1, <3>1, <3>2, Published
  <2>3. StreamInv'
    BY <1>4, <2>1, <2>2 DEF StreamInv
  <2>4. ASSUME settled' PROVE RowsSettled' /\ FlagSettled'
    <3>1. settled /\ stream.state = "open" /\ RowsSettled /\ FlagSettled
      BY <2>1, <2>4 DEF SettledInv
    <3>2. stream'.queue = Append(stream.queue, f)
      BY <1>2, <2>1, <3>1, Published
    <3>3. Told(stream.queue) \subseteq Told(stream'.queue)
      <4> DEFINE q == stream.queue
                 z == Append(q, f)
      <4>1. DOMAIN q \subseteq DOMAIN z /\ \A j \in DOMAIN q : z[j] = q[j]
        BY <1>1, <2>1, AppendProperties
      <4> HIDE DEF z, q
      <4>2. Told(q) \subseteq Told(z)
        BY <4>1 DEF Told
      <4>3. QED
        BY <3>2, <4>2 DEF q, z
    <3>4. Busy' = Busy
      BY <2>1 DEF Busy
    <3>5. \A i \in DOMAIN db : db[i].id \in Loose => db[i].id \in Loose'
      BY <3>3, <3>4 DEF Loose
    <3>6. linksFetch.kind = "none" => FollowsList(createdAt, pages, db, Loose')
      BY <1>1, <3>1, <3>5, FollowsMore DEF RowsSettled
    <3>7. linksFetch.kind = "next" => FollowsList(createdAt, linksFetch.got, db, Loose')
      BY <1>1, <3>1, <3>5, FollowsMore DEF RowsSettled
    <3>8. RowsSettled'
      BY <1>2, <2>1, <3>1, <3>4, <3>6, <3>7 DEF RowsSettled
    <3>9. FlagSettled'
      BY <1>2, <2>1, <2>2, <3>1 DEF FlagSettled
    <3>10. QED
      BY <3>8, <3>9
  <2>5. QED
    BY <1>2, <2>3, <2>4 DEF SettledInv
<1>9. QED
  BY <1>5, <1>6, <1>7, <1>8

\* The checks of links.
LEMMA ChecksSettle ==
    ASSUME TypeInv, TypeInv', OrderInv, SettledInv, NEW c \in checks,
           CheckBegins(c) \/ \E o \in Outcomes : CheckEnds(c, o), Exists(c.id)
    PROVE  SettledInv'
<1> USE DEF serverVars, workVars, pageVars, bounds, history
<1>1. /\ db \in Seq(Row) /\ Len(db) <= MaxLinks /\ born \in Nat /\ stream.queue \in Seq(Events)
      /\ c.id \in Ids /\ DOMAIN db = 1..Len(db)
  BY Given DEF Checks
<1>2. StreamInv /\ settled' = FALSE /\ UNCHANGED <<pages, project, linksFetch, projectFetch, born, run, flag>>
  BY DEF SettledInv, CheckBegins, CheckEnds
<1>3. EventsBorn(stream.queue, born) /\ StatusTold(stream.queue, db, Busy)
  BY <1>2 DEF StreamInv
<1>4. c.id <= born
  <2>1. PICK k \in DOMAIN db : db[k].id = c.id
    BY DEF Exists
  <2>2. QED
    BY <2>1 DEF OrderInv, Ordered
<1>5. ASSUME NEW s \in Statuses, Publish(LinkUpdated(c.id, s)),
             \A k \in DOMAIN db : /\ DOMAIN db' = DOMAIN db /\ db'[k].id = db[k].id
                                  /\ db'[k].status = IF db[k].id = c.id THEN s ELSE db[k].status,
             \A d \in checks : d # c => d \in checks'
      PROVE  SettledInv'
  <2> DEFINE e == LinkUpdated(c.id, s)
             next == db'
             more == Busy'
  <2>1. e \in Events /\ e.type = "link_updated" /\ e.status = s /\ e.id = c.id
    BY <1>1, EventsTyped DEF LinkUpdated
  <2>2. \A i \in Busy : i # c.id => i \in more
    BY <1>5 DEF Busy
  <2>3. Publish(e)
    BY <1>5
  <2>4. next \in Seq(Row) /\ DOMAIN next = DOMAIN db
    <3>1. PICK k \in DOMAIN db : db[k].id = c.id
      BY DEF Exists
    <3>2. QED
      BY <1>5, <3>1 DEF TypeInv, ServerType
  <2>5. \A k \in DOMAIN next : /\ next[k].id = db[k].id
                               /\ next[k].status = IF db[k].id = c.id THEN s ELSE db[k].status
    BY <1>5, <2>4
  <2> HIDE DEF e, next, more
  <2>6. \A i : IsAbout(e, i) <=> i = c.id
    BY <2>1 DEF IsAbout
  <2>7. ASSUME NEW k \in DOMAIN next
        PROVE  \/ IsAbout(e, next[k].id) /\ next[k].status = e.status
               \/ /\ ~IsAbout(e, next[k].id)
                  /\ \E i \in DOMAIN db : /\ next[k].id = db[i].id /\ next[k].status = db[i].status
                                          /\ db[i].id \in Busy => db[i].id \in more
    <3>1. CASE db[k].id = c.id
      BY <2>1, <2>5, <2>6, <3>1
    <3>2. CASE db[k].id # c.id
      BY <2>2, <2>4, <2>5, <2>6, <3>2
    <3>3. QED
      BY <3>1, <3>2
  <2>8. EventsBorn(Append(stream.queue, e), born) /\ StatusTold(Append(stream.queue, e), next, more)
    <3>1. e.type = "link_updated" => e.id <= born
      BY <1>4, <2>1
    <3>2. QED
      BY <1>1, <1>3, <2>1, <2>7, <3>1, EventAdded
  <2>9. StreamInv'
    <3>1. CASE stream'.queue = <<>>
      BY <3>1, NoEvents DEF StreamInv
    <3>2. CASE stream'.queue = Append(stream.queue, e) /\ stream'.state = "open"
      <4>1. SaysLocked(Append(stream.queue, e)) => SaysLocked(stream.queue)
        BY <1>1, <2>1, LockEvents, EventsTyped, LockAdded
      <4>2. QED
        BY <1>2, <2>8, <3>2, <4>1 DEF StreamInv, next, more
    <3>3. QED
      BY <1>2, <2>1, <2>3, <3>1, <3>2, Published
  <2>10. QED
    BY <1>2, <2>9 DEF SettledInv
<1>6. CASE CheckBegins(c)
  <2>1. /\ checks' = (checks \ {c}) \cup {[c EXCEPT !.at = "crawling"]}
        /\ db' = Marked({c.id}, "CHECKING") /\ Publish(LinkUpdated(c.id, "CHECKING"))
    BY <1>6 DEF CheckBegins
  <2>2. "CHECKING" \in Statuses /\ \A d \in checks : d # c => d \in checks'
    BY <2>1 DEF Statuses
  <2>3. \A k \in DOMAIN db : /\ DOMAIN db' = DOMAIN db /\ db'[k].id = db[k].id
                             /\ db'[k].status = IF db[k].id = c.id THEN "CHECKING" ELSE db[k].status
    BY <1>1, <2>1, RowsWritten
  <2>4. QED
    BY <1>5, <2>1, <2>2, <2>3
<1>7. ASSUME NEW o \in Outcomes, CheckEnds(c, o) PROVE SettledInv'
  <2>1. checks' = checks \ {c} /\ db' = Saved(c.id, o) /\ Publish(LinkUpdated(c.id, o.status))
    BY <1>7 DEF CheckEnds
  <2>2. o.status \in Statuses /\ \A d \in checks : d # c => d \in checks'
    BY <2>1, PageAssumption DEF Statuses, PageAssumption
  <2>3. \A k \in DOMAIN db : /\ DOMAIN db' = DOMAIN db /\ db'[k].id = db[k].id
                             /\ db'[k].status = IF db[k].id = c.id THEN o.status ELSE db[k].status
    BY <1>1, <2>1, RowsWritten
  <2>4. QED
    BY <1>5, <2>1, <2>2, <2>3
<1>8. QED
  BY <1>6, <1>7

LEMMA SettledNext ==
    ASSUME TypeInv, TypeInv', OrderInv, SettledInv, [Next]_vars
    PROVE  SettledInv'
<1>1. CASE UNCHANGED vars \/ User \/ Connect \/ RunSkips
  BY <1>1, FrameSteps, FrameKeeps
<1>2. ASSUME NEW r \in requests, AnswerLost(r) PROVE SettledInv'
  BY <1>2, FrameSteps, FrameKeeps
<1>3. CASE \/ (\E order \in Orders : ReadItems(order)) \/ ReadTotal \/ LandLinks
           \/ ReadProject \/ LandProject \/ FetchFails \/ FetchNext
  BY <1>3, QueriesSettle
<1>4. CASE Deliver \/ \E next \in {"connecting", "dead"} : Drop(next)
  BY <1>4, StreamSettles
<1>5. ASSUME NEW r \in requests, ServeWrite(r) \/ DeleteAnswered(r) \/ WriteAnswered(r)
      PROVE  SettledInv'
  BY <1>5, RequestsSettle
<1>6. CASE RunLocks \/ RunMarks \/ RunTells \/ \E written \in BOOLEAN : RunClears(written)
  BY <1>6, RunSettles
<1>7. ASSUME NEW c \in checks,
             CheckBegins(c) \/ CheckThrows(c) \/ \E o \in Outcomes : CheckEnds(c, o)
      PROVE  SettledInv'
  <2>1. CASE CheckThrows(c) \/ (CheckBegins(c) /\ ~Exists(c.id))
    BY <2>1, FrameSteps, FrameKeeps
  <2>2. CASE (CheckBegins(c) \/ \E o \in Outcomes : CheckEnds(c, o)) /\ Exists(c.id)
    BY <2>2, ChecksSettle
  <2>3. \A o \in Outcomes : CheckEnds(c, o) => Exists(c.id)
    BY DEF CheckEnds
  <2>4. QED
    BY <1>7, <2>1, <2>2, <2>3
<1>8. CASE System
  BY <1>1, <1>3, <1>4, <1>5, <1>6, <1>7, <1>8 DEF System
<1>9. CASE Faults
  BY <1>2, <1>3, <1>4, <1>6, <1>9 DEF Faults
<1>10. QED
  BY <1>1, <1>3, <1>8, <1>9 DEF Next

LEMMA SettledStarts == Init => SettledInv
<1> SUFFICES ASSUME Init PROVE SettledInv
  OBVIOUS
<1>1. StreamInv
  BY NoEvents DEF Init, StreamInv
<1>2. RowsSettled
  BY DEF Init, Fetch, RowsSettled, FollowsAll
<1>3. FlagSettled
  BY DEF Init, FlagSettled
<1>4. QED
  BY <1>1, <1>2, <1>3 DEF Init, Fetch, SettledInv

\* The rows of full pages lie where the table has them.
LEMMA PagesTogether ==
    ASSUME NEW rows \in Seq(Row), Len(rows) <= MaxLinks, NEW ps \in Seq(Page),
           \A p \in DOMAIN ps : Len(ps[p].items) = Len(PageOf(rows, p))
    PROVE  /\ Loaded(ps) \in Seq(Row) /\ Len(Loaded(ps)) <= Len(rows)
           /\ \A k \in 1..Len(Loaded(ps)) :
                 \E p \in DOMAIN ps : \E l \in DOMAIN PageOf(rows, p) :
                    Loaded(ps)[k] = ps[p].items[l] /\ rows[k] = PageOf(rows, p)[l]
<1> DEFINE ss == Items(ps)
           L == Len(ps)
           R == Len(rows)
           Cut(m) == IF m <= R THEN m ELSE R
           it(n) == ps[n].items
           of(n) == PageOf(rows, n)
           before(n) == (n - 1) * PageSize
           Found(u, k) == \E p \in 1..L : \E l \in 1..Len(of(p)) :
                             u[k] = it(p)[l] /\ rows[k] = of(p)[l]
<1>1. /\ ss \in Seq(Seq(Row)) /\ Len(ss) = L /\ L \in Nat /\ DOMAIN ps = 1..L /\ R \in Nat
      /\ \A k \in 1..L : ss[k] = it(k) /\ it(k) \in Seq(Row)
      /\ Loaded(ps) = FlattenSeq(ss)
  BY ItemsTyped
<1>2. PICK g : IsFlat(g, ss, Row)
  BY <1>1, FlatFunction
<1>3. \A n \in 1..L : n \in Nat \ {0}
  BY <1>1
<1>4. \A n \in 1..L :
         /\ before(n) \in Nat /\ n * PageSize = before(n) + PageSize
         /\ of(n) \in Seq(Row) /\ Len(it(n)) = Len(of(n))
         /\ Len(of(n)) = IF R <= before(n) THEN 0
                         ELSE IF R <= before(n) + PageSize THEN R - before(n) ELSE PageSize
         /\ \A k \in 1..Len(of(n)) : before(n) + k \in 1..R /\ of(n)[k] = rows[before(n) + k]
  BY <1>1, <1>3, PageOfRows
<1>5. PageSize \in Nat \ {0}
  BY PageAssumption DEF PageAssumption
<1> HIDE DEF ss, L, R, it, of
<1>6. /\ \A n \in 0..L : g[n] \in Seq(Row)
      /\ g[0] = <<>> /\ Loaded(ps) = g[L]
      /\ \A n \in 1..L : g[n] = g[n - 1] \o it(n)
  BY ZenonT(40), <1>1, <1>2, <1>4 DEF IsFlat
<1> DEFINE T == {n \in 0..L : /\ Len(g[n]) = Cut(n * PageSize)
                              /\ \A k \in 1..Len(g[n]) : Found(g[n], k)}
<1>7. 0 \in T
  <2>1. 0 * PageSize = 0 /\ 0 \in 0..L
    BY <1>1, <1>5
  <2>2. Len(g[0]) = 0
    BY <1>6
  <2>3. Cut(0) = 0
    BY <1>1
  <2>4. QED
    BY <2>1, <2>2, <2>3
<1>8. ASSUME NEW n \in 1..L, n - 1 \in T PROVE n \in T
  <2> DEFINE s == g[n - 1]
             t == it(n)
             h == of(n)
             u == g[n]
             b == before(n)
             m == n * PageSize
  <2>1. n - 1 \in 0..L /\ n \in 0..L
    BY <1>1
  <2>2. s \in Seq(Row) /\ t \in Seq(Row) /\ u = s \o t
    BY <1>1, <1>6, <2>1
  <2>3. Len(s) = Cut(b) /\ \A k \in 1..Len(s) : Found(s, k)
    BY <1>8
  <2>4. /\ b \in Nat /\ m = b + PageSize /\ Len(t) = Len(h)
        /\ Len(h) = IF R <= b THEN 0 ELSE IF R <= b + PageSize THEN R - b ELSE PageSize
        /\ \A k \in 1..Len(h) : b + k \in 1..R /\ h[k] = rows[b + k]
    BY <1>4
  <2> HIDE DEF s, u, b, m
  <2>5. /\ Len(u) = Len(s) + Len(t) /\ Len(s) \in Nat /\ Len(t) \in Nat
        /\ \A i \in 1 .. Len(s) + Len(t) : u[i] = IF i <= Len(s) THEN s[i] ELSE t[i - Len(s)]
    BY <2>2, ConcatProperties
  <2>6. Len(u) = Cut(m)
    <3> DEFINE x == Len(s)
               y == Len(t)
    <3>1. /\ Len(u) = x + y /\ x = Cut(b) /\ m = b + PageSize /\ b \in Nat
          /\ y = IF R <= b THEN 0 ELSE IF R <= b + PageSize THEN R - b ELSE PageSize
      BY <2>3, <2>4, <2>5
    <3> HIDE DEF x, y
    <3>2. QED
      BY <1>1, <1>5, <3>1
  <2>7. ASSUME NEW k \in 1..Len(u) PROVE Found(u, k)
    <3>1. CASE k <= Len(s)
      <4>1. k \in 1..Len(s) /\ u[k] = s[k]
        BY <2>5, <3>1
      <4>2. QED
        BY <2>3, <4>1
    <3>2. CASE k > Len(s)
      <4> DEFINE l == k - Len(s)
      <4>1. l \in 1..Len(t) /\ k \in 1 .. Len(s) + Len(t)
        <5> HIDE DEF t
        <5>1. QED
          BY <2>5, <3>2
      <4>2. u[k] = t[l]
        BY <2>5, <3>2, <4>1
      <4>3. Len(s) = b
        <5> HIDE DEF t, h
        <5>1. Len(t) # 0
          BY <2>5, <4>1
        <5>2. QED
          BY <1>1, <2>3, <2>4, <5>1
      <4>4. b + l = k
        BY <2>4, <2>5, <4>3
      <4>5. l \in 1..Len(h) /\ rows[k] = h[l]
        BY <2>4, <4>1, <4>4
      <4>6. QED
        BY <4>2, <4>5
    <3>3. QED
      BY <2>5, <3>1, <3>2
  <2>8. QED
    BY <2>1, <2>6, <2>7 DEF u, m
<1>9. 0..L \subseteq T
  <2> HIDE DEF T
  <2>1. QED
    BY <1>1, <1>7, <1>8, IntervalByInduction
<1>10. L \in T /\ L \in 0..L
  BY <1>1, <1>9
<1>11. Len(g[L]) <= R
  <2>1. Len(g[L]) = Cut(L * PageSize) /\ L * PageSize \in Nat
    BY <1>1, <1>5, <1>10
  <2>2. QED
    BY <1>1, <2>1
<1>12. ASSUME NEW k \in 1..Len(g[L])
       PROVE  \E p \in DOMAIN ps : \E l \in DOMAIN PageOf(rows, p) :
                 g[L][k] = ps[p].items[l] /\ rows[k] = PageOf(rows, p)[l]
  <2>1. PICK p \in 1..L : \E l \in 1..Len(of(p)) : g[L][k] = it(p)[l] /\ rows[k] = of(p)[l]
    BY <1>10
  <2>2. DOMAIN of(p) = 1..Len(of(p))
    BY <1>4
  <2>3. QED
    BY <1>1, <2>1, <2>2 DEF it, of
<1>13. QED
  BY <1>6, <1>10, <1>11, <1>12 DEF R

\* At rest, a page whose last refetch came after the last write and was neither dropped
\* nor failed (useProjectStream.ts:118-120, page.tsx:70-76) shows links of the table with
\* every field, each where its createdAt belongs, all of them when there is no next page,
\* and the real flag: for every page size and number of links, in whatever order a batch
\* is read at each page (links.service.ts:62-70), whenever the rows and the count of a page
\* are read, whatever events, refetches, requests and checks overlapped on the way there.
THEOREM SettledIsExact == Spec => []ExactWhenSettled
<1>1. TypeInv /\ SettledInv => ExactWhenSettled
  <2> SUFFICES ASSUME TypeInv, SettledInv, Quiet, settled
               PROVE  /\ Range(Shown) \subseteq Range(db)
                      /\ \A k \in DOMAIN Shown :
                            k \in DOMAIN db /\ createdAt[Shown[k].id] = createdAt[db[k].id]
                      /\ HasNext(pages) \/ Len(Shown) = Len(db)
                      /\ project = flag
    BY DEF ExactWhenSettled
  <2>1. db \in Seq(Row) /\ Len(db) <= MaxLinks /\ pages \in Seq(Page) /\ DOMAIN db = 1..Len(db)
    BY Given
  <2>2. stream.queue = <<>> /\ checks = {} /\ run.pc = "idle"
        /\ linksFetch.kind = "none" /\ projectFetch.at = "none"
    BY DEF Quiet, Locked
  <2>3. project = flag
    BY <2>2 DEF SettledInv, FlagSettled, SaysFree
  <2>4. Loose = {}
    BY <2>2 DEF Loose, Told, Busy
  <2>5. FollowsList(createdAt, pages, db, {})
    BY <2>2, <2>4 DEF SettledInv, RowsSettled
  <2>6. ASSUME NEW p \in DOMAIN pages
        PROVE  /\ Len(pages[p].items) = Len(PageOf(db, p)) /\ pages[p].total = Len(db)
               /\ \A l \in DOMAIN PageOf(db, p) :
                     /\ createdAt[pages[p].items[l].id] = createdAt[PageOf(db, p)[l].id]
                     /\ \E i \in DOMAIN db : Follows(pages[p].items[l], db[i], {})
    BY <2>5 DEF FollowsList, FollowsAll, FollowsPage, FollowsItems
  <2>7. /\ Shown \in Seq(Row) /\ Len(Shown) <= Len(db) /\ DOMAIN Shown = 1..Len(Shown)
        /\ \A k \in 1..Len(Shown) :
              \E p \in DOMAIN pages : \E l \in DOMAIN PageOf(db, p) :
                 Shown[k] = pages[p].items[l] /\ db[k] = PageOf(db, p)[l]
    BY <2>1, <2>6, PagesTogether DEF Shown
  <2> DEFINE s == Shown
  <2>8. ASSUME NEW k \in DOMAIN s
        PROVE  /\ k \in DOMAIN db /\ createdAt[s[k].id] = createdAt[db[k].id]
               /\ s[k] \in Range(db)
    <3>1. k \in DOMAIN db
      BY <2>1, <2>7
    <3>2. PICK p \in DOMAIN pages : \E l \in DOMAIN PageOf(db, p) :
                 s[k] = pages[p].items[l] /\ db[k] = PageOf(db, p)[l]
      BY <2>7
    <3>3. PICK l \in DOMAIN PageOf(db, p) :
                 s[k] = pages[p].items[l] /\ db[k] = PageOf(db, p)[l]
      BY <3>2
    <3>4. createdAt[s[k].id] = createdAt[db[k].id]
      BY <2>6, <3>3
    <3>5. PICK i \in DOMAIN db : Follows(s[k], db[i], {})
      BY <2>6, <3>3
    <3>6. s[k] \in Row /\ db[i] \in Row
      BY <2>1, <2>7
    <3> HIDE DEF s
    <3>7. s[k] = db[i]
      BY <3>5, <3>6 DEF Follows, Row
    <3>8. QED
      BY <3>1, <3>4, <3>7 DEF Range
  <2>9. Range(Shown) \subseteq Range(db)
    <3> HIDE DEF s
    <3>1. Range(s) \subseteq Range(db)
      BY <2>8 DEF Range
    <3>2. QED
      BY <3>1 DEF s
  <2>10. Last(pages).total = Len(db) /\ pages # <<>>
    <3>1. pages # <<>> /\ Len(pages) \in DOMAIN pages
      BY <2>1, <2>5, EmptySeq DEF FollowsList
    <3>2. QED
      BY <2>6, <3>1 DEF Last
  <2>11. HasNext(pages) \/ Len(Shown) = Len(db)
    <3>1. Len(Shown) \in Nat /\ Len(db) \in Nat /\ Len(Shown) <= Len(db)
      BY <2>1, <2>7
    <3>2. HasNext(pages) \/ ~(Len(Shown) < Len(db))
      BY <2>10 DEF HasNext, Shown
    <3> HIDE DEF s
    <3>3. QED
      BY <3>1, <3>2
  <2>12. QED
    BY <2>3, <2>8, <2>9, <2>11
<1>2. TypeInv /\ OrderInv /\ SettledInv /\ [Next]_vars => (TypeInv /\ OrderInv /\ SettledInv)'
  BY TypeNext, OrderNext, SettledNext
<1>3. QED
  BY <1>1, <1>2, TypeStarts, OrderStarts, SettledStarts, PTL DEF Spec

=============================================================================
