-------------------------- MODULE Aggregates_proofs --------------------------
(***************************************************************************)
(* The promise of a Promise.all or a Promise.race says what its elements   *)
(* say (AggregatesAgree), for any number of slots, entries, promises,      *)
(* tenants and parks, where host and embedder are Disciplined.             *)
(*                                                                         *)
(* An aggregate hears of its elements by the handlers that it hung on      *)
(* those that were pending when it was made, and of the others at once.    *)
(* NoticeInv says that nothing is heard twice or lost on the way: no two   *)
(* handlers are for the same child on behalf of the same promise; whoever  *)
(* is to settle a promise, a handler, a context or an entry of the table,  *)
(* is the only one, so a pending one is not settled behind its back; and   *)
(* an aggregate has counted what it has heard, and has still to hear of    *)
(* the rest.                                                               *)
(*                                                                         *)
(* Within an action a cascade works through a list of handlers, todo, that *)
(* have left their promises, and the invariant holds at each turn of it.   *)
(* Between actions there is no list (Rests), and a settled promise keeps   *)
(* no handlers, so an aggregate waits for pending elements only.           *)
(***************************************************************************)
EXTENDS Settlement_proofs

(***************************************************************************)
(* Handlers still to run: those that hang on pending promises, and those   *)
(* that a cascade has popped.                                              *)
(***************************************************************************)
\* List 0 is what a cascade has still to run, list p the handlers of promise p.
Lists == 0 .. MaxPromises
Listed(x, todo, a) == IF a = 0 THEN todo ELSE x.promises[a].handlers
Places(x, todo, a) == DOMAIN Listed(x, todo, a)

\* A handler that owes its child a settlement of its own, unlike an aggregator's
Single(h) == h.kind \in {"pass", "spawn"}

\* The promise whose settlement a handler waits for or tells of; "from" records it
\* for the handlers of a cascade.
Origin(from, a, i) == IF a = 0 THEN from[i] ELSE a
Mark(h, origin) == IF Single(h) THEN 0 ELSE origin

\* Handler h, on behalf of origin
HandlerFits(x, h, origin) ==
  LET child == x.promises[h.child] IN
  IF Single(h) THEN child.elements = {} /\ child.status = "pending"
  ELSE origin \in child.elements /\ h.kind = IF child.race THEN "race" ELSE "all"

\* No two handlers are for the same child on behalf of the same origin, and nobody
\* but its handler is to settle the child of a "pass" or a "spawn".
HandlersInv(x, todo, from) ==
  /\ from \in [DOMAIN todo -> Promises]
  /\ \A i \in DOMAIN todo :
       todo[i].status \in Status /\ x.promises[from[i]].status = todo[i].status
  /\ \A a \in Lists : \A i \in Places(x, todo, a) :
       HandlerFits(x, Listed(x, todo, a)[i], Origin(from, a, i))
  /\ \A a, b \in Lists : \A i \in Places(x, todo, a), j \in Places(x, todo, b) :
       LET h == Listed(x, todo, a)[i]
           k == Listed(x, todo, b)[j]
       IN h.child = k.child /\ Mark(h, Origin(from, a, i)) = Mark(k, Origin(from, b, j))
            => a = b /\ i = j

\* No handler is to settle p, nor is p an aggregate.
SoleSource(x, todo, p) ==
  /\ x.promises[p].elements = {}
  /\ \A a \in Lists : \A i \in Places(x, todo, a) :
       Single(Listed(x, todo, a)[i]) => Listed(x, todo, a)[i].child # p

\* A context or an entry that is to settle a promise is its only source; "leaving"
\* are contexts that have settled theirs and are about to end.
SourcesInv(x, todo, leaving) ==
  /\ \A c \in Contexts \ leaving : LET p == x.ctx[c].owes IN
       p # None =>
         /\ SoleSource(x, todo, p)
         /\ ~x.ctx[c].executor => x.promises[p].status = "pending"
         /\ \A d \in Contexts \ leaving : x.ctx[d].owes = p => c = d
  /\ \A e \in 1 .. Entries :
       x.linked[e].live /\ x.linked[e].ctx = None =>
         /\ SoleSource(x, todo, x.linked[e].promise)
         /\ \A c \in Contexts \ leaving : x.ctx[c].owes # x.linked[e].promise

\* An aggregate has two elements, which were made before it.
ShapeInv(x) ==
  \A r \in Promises : LET elements == x.promises[r].elements IN
    elements # {} =>
      /\ x.promises[r].status # "none" /\ r \notin elements
      /\ \A p \in elements : x.promises[p].status # "none"
      /\ \E p, q \in elements : p # q /\ elements = {p, q}

\* Element p has still to be heard of by r.
Unheard(x, todo, from, r, p) ==
  \E a \in Lists : \E i \in Places(x, todo, a) :
    /\ ~Single(Listed(x, todo, a)[i]) /\ Listed(x, todo, a)[i].child = r
    /\ Origin(from, a, i) = p

\* A pending aggregate has still to hear of each element that it has not counted as
\* resolved, and counts them right; a settled one has what some element gave it, or
\* all of them did.
Awaits(x, todo, from, r) ==
  LET a == x.promises[r] IN
  IF a.race THEN \A p \in a.elements : Unheard(x, todo, from, r, p)
  ELSE /\ a.remaining \in {1, 2}
       /\ \A p \in a.elements :
            Unheard(x, todo, from, r, p) \/ x.promises[p].status = "resolved"
       /\ \A p, q \in a.elements : p # q =>
            (a.remaining = 2 <=> Unheard(x, todo, from, r, p) /\ Unheard(x, todo, from, r, q))
       /\ \E p \in a.elements : Unheard(x, todo, from, r, p)

Told(x, r, status) ==
  LET a == x.promises[r] IN
  IF ~a.race /\ status = "resolved"
  THEN \A p \in a.elements : x.promises[p].status = "resolved"
  ELSE \E p \in a.elements : x.promises[p].status = status

ResultInv(x, todo, from, r) ==
  x.promises[r].elements # {} =>
    IF x.promises[r].status = "pending" THEN Awaits(x, todo, from, r)
    ELSE Told(x, r, x.promises[r].status)

NoticeInv(x, todo, from, leaving) ==
  /\ HandlersInv(x, todo, from) /\ SourcesInv(x, todo, leaving) /\ ShapeInv(x)
  /\ \A r \in Promises : ResultInv(x, todo, from, r)

(***************************************************************************)
(* What is not about handlers leaves their invariant alone.                *)
(***************************************************************************)
LEMMA ListOfPromise ==
  /\ Lists \subseteq Nat /\ 0 \in Lists
  /\ \A a \in Lists : a # 0 => a \in Promises
  /\ \A p \in Promises : p \in Lists /\ p # 0
BY SettlementAssumption DEF Lists, Promises

LEMMA HandlerTypes ==
  ASSUME NEW x \in StateType, NEW todo, Tasks(x, todo)
  PROVE  /\ todo \in Seq(TaskType) /\ DOMAIN todo = 1 .. Len(todo) /\ Len(todo) \in Nat
         /\ \A a \in Lists :
              /\ Places(x, todo, a) = 1 .. Len(Listed(x, todo, a))
              /\ Len(Listed(x, todo, a)) \in Nat
              /\ \A i \in Places(x, todo, a) :
                   /\ Listed(x, todo, a)[i].child \in Promises
                   /\ Listed(x, todo, a)[i].kind \in {"pass", "spawn", "race", "all"}
<1>1. todo \in Seq(TaskType) /\ DOMAIN todo = 1 .. Len(todo) /\ Len(todo) \in Nat
  BY DEF Tasks
<1>2. \A i \in DOMAIN todo : todo[i] \in TaskType
  BY <1>1, ElementOfSeq
<1>3. ASSUME NEW a \in Lists
      PROVE  /\ Places(x, todo, a) = 1 .. Len(Listed(x, todo, a))
             /\ Len(Listed(x, todo, a)) \in Nat
             /\ \A i \in Places(x, todo, a) :
                  /\ Listed(x, todo, a)[i].child \in Promises
                  /\ Listed(x, todo, a)[i].kind \in {"pass", "spawn", "race", "all"}
  <2>1. CASE a = 0
    BY <1>1, <1>2, <2>1 DEF Places, Listed, TaskType
  <2>2. CASE a # 0
    <3> DEFINE hs == x.promises[a].handlers
    <3>1. a \in Promises
      BY <2>2, ListOfPromise
    <3>2. hs \in Seq(HandlerType)
      BY <3>1 DEF StateType, PromiseType
    <3>3. \A i \in DOMAIN hs : hs[i] \in HandlerType
      BY <3>2, ElementOfSeq
    <3>4. Listed(x, todo, a) = hs /\ DOMAIN hs = 1 .. Len(hs) /\ Len(hs) \in Nat
      BY <2>2, <3>2 DEF Listed
    <3> HIDE DEF hs
    <3> QED BY <3>3, <3>4 DEF Places, HandlerType
  <2> QED BY <2>1, <2>2
<1> QED BY <1>1, <1>3

\* What promises a context or an entry refers to
LEMMA SourceTypes ==
  ASSUME NEW x \in StateType, PromiseInv(x)
  PROVE  /\ \A c \in Contexts : x.ctx[c].owes # None => x.ctx[c].owes \in Promises
         /\ \A e \in 1 .. Entries : x.linked[e].live /\ x.linked[e].ctx = None =>
              x.linked[e].promise \in Promises
         /\ \A p \in Promises : x.promises[p].elements \in SUBSET Promises
<1>1. \A c \in Contexts : x.ctx[c].owes # None => x.ctx[c].owes \in Promises
  BY DEF PromiseInv, Made
<1>2. \A e \in 1 .. Entries : x.linked[e].live /\ x.linked[e].ctx = None =>
              x.linked[e].promise \in Promises
  BY DEF PromiseInv, Made
<1>3. \A p \in Promises : x.promises[p].elements \in SUBSET Promises
  BY DEF StateType, PromiseType
<1> QED BY <1>1, <1>2, <1>3

LEMMA FadesKeeps ==
  ASSUME NEW x \in StateType, PromiseInv(x), NEW todo, Tasks(x, todo), NEW y, Fades(x, y),
         NEW from, NEW leaving
  PROVE  /\ HandlersInv(x, todo, from) => HandlersInv(y, todo, from)
         /\ SourcesInv(x, todo, leaving) => SourcesInv(y, todo, leaving)
         /\ ShapeInv(x) => ShapeInv(y)
         /\ \A r \in Promises : ResultInv(x, todo, from, r) => ResultInv(y, todo, from, r)
<1>1. \A a \in Lists : /\ Listed(y, todo, a) = Listed(x, todo, a)
                       /\ Places(y, todo, a) = Places(x, todo, a)
  BY ListOfPromise DEF Fades, Listed, Places
<1>2. \A a \in Lists : \A i \in Places(x, todo, a) :
        Listed(x, todo, a)[i].child \in Promises
  BY HandlerTypes
<1>3. \A p \in Promises :
       /\ y.promises[p].status = x.promises[p].status
       /\ y.promises[p].elements = x.promises[p].elements
       /\ y.promises[p].race = x.promises[p].race
       /\ y.promises[p].remaining = x.promises[p].remaining
  BY DEF Fades
<1>4. \A h, o : h.child \in Promises => (HandlerFits(y, h, o) <=> HandlerFits(x, h, o))
  BY <1>3 DEF HandlerFits
<1>5. HandlersInv(x, todo, from) => HandlersInv(y, todo, from)
  <2> HAVE HandlersInv(x, todo, from)
  <2>1. from \in [DOMAIN todo -> Promises]
    BY DEF HandlersInv
  <2>2. \A i \in DOMAIN todo :
          todo[i].status \in Status /\ y.promises[from[i]].status = todo[i].status
    BY <2>1, <1>3 DEF HandlersInv
  <2>3. \A a \in Lists : \A i \in Places(y, todo, a) :
          HandlerFits(y, Listed(y, todo, a)[i], Origin(from, a, i))
    BY <1>1, <1>2, <1>4 DEF HandlersInv
  <2>4. \A a, b \in Lists : \A i \in Places(y, todo, a), j \in Places(y, todo, b) :
       LET h == Listed(y, todo, a)[i]
           k == Listed(y, todo, b)[j]
       IN h.child = k.child /\ Mark(h, Origin(from, a, i)) = Mark(k, Origin(from, b, j))
            => a = b /\ i = j
    BY <1>1 DEF HandlersInv
  <2> QED BY <2>1, <2>2, <2>3, <2>4 DEF HandlersInv
<1>6. \A p \in Promises : SoleSource(x, todo, p) => SoleSource(y, todo, p)
  BY <1>1, <1>3 DEF SoleSource
<1>7. SourcesInv(x, todo, leaving) => SourcesInv(y, todo, leaving)
  <2> HAVE SourcesInv(x, todo, leaving)
  <2>1. ASSUME NEW c \in Contexts \ leaving, y.ctx[c].owes # None
        PROVE  /\ SoleSource(y, todo, y.ctx[c].owes)
               /\ ~y.ctx[c].executor => y.promises[y.ctx[c].owes].status = "pending"
               /\ \A d \in Contexts \ leaving : y.ctx[d].owes = y.ctx[c].owes => c = d
    <3>1. /\ y.ctx[c].owes = x.ctx[c].owes /\ y.ctx[c].executor = x.ctx[c].executor
          /\ x.ctx[c].owes \in Promises
      BY <2>1, SourceTypes DEF Fades
    <3>2. \A d \in Contexts \ leaving : y.ctx[d].owes = y.ctx[c].owes => x.ctx[d].owes = x.ctx[c].owes
      BY <2>1, <3>1 DEF Fades
    <3> QED BY <2>1, <3>1, <3>2, <1>3, <1>6 DEF SourcesInv
  <2>2. ASSUME NEW e \in 1 .. Entries, y.linked[e].live, y.linked[e].ctx = None
        PROVE  /\ SoleSource(y, todo, y.linked[e].promise)
               /\ \A c \in Contexts \ leaving : y.ctx[c].owes # y.linked[e].promise
    <3>1. /\ x.linked[e].live /\ x.linked[e].ctx = None
          /\ y.linked[e].promise = x.linked[e].promise
      BY <2>2 DEF Fades
    <3>2. x.linked[e].promise \in Promises
      BY <3>1, SourceTypes
    <3>3. x.linked[e].promise # None
      BY <3>2, SettlementAssumption DEF Promises, None
    <3>4. \A c \in Contexts \ leaving : y.ctx[c].owes # y.linked[e].promise
      BY <3>1, <3>3 DEF SourcesInv, Fades
    <3> QED BY <3>1, <3>2, <3>4, <1>6 DEF SourcesInv
  <2> QED BY <2>1, <2>2 DEF SourcesInv
<1>8. \A r \in Promises : x.promises[r].elements \in SUBSET Promises
  BY SourceTypes
<1>9. ShapeInv(x) => ShapeInv(y)
  BY <1>3, <1>8 DEF ShapeInv
<1>10. \A r, p : Unheard(y, todo, from, r, p) <=> Unheard(x, todo, from, r, p)
  BY <1>1 DEF Unheard
<1>11. ASSUME NEW r \in Promises, ResultInv(x, todo, from, r)
       PROVE  ResultInv(y, todo, from, r)
  <2>1. \A status : Told(x, r, status) <=> Told(y, r, status)
    BY <1>3, <1>8 DEF Told
  <2>2. Awaits(x, todo, from, r) <=> Awaits(y, todo, from, r)
    BY <1>3, <1>8, <1>10 DEF Awaits
  <2> QED BY <1>3, <1>11, <2>1, <2>2 DEF ResultInv
<1> QED BY <1>5, <1>7, <1>9, <1>11

(***************************************************************************)
(* The first handler of a cascade is taken from its list.                  *)
(***************************************************************************)
Dropped(todo, from) == [i \in DOMAIN Tail(todo) |-> from[i + 1]]

\* Where handler i of list a was, and where handler j of it is
Was(a, i) == IF a = 0 THEN i + 1 ELSE i
Comes(a, j) == IF a = 0 THEN j - 1 ELSE j

\* Places but the first of list 0 are where they were, one on in list 0.
LEMMA TailPlaces ==
  ASSUME NEW x \in StateType, NEW todo, Tasks(x, todo), todo # <<>>, NEW from
  PROVE  /\ Tasks(x, Tail(todo))
         /\ 0 \in Lists /\ 1 \in Places(x, todo, 0) /\ Listed(x, todo, 0)[1] = Head(todo)
         /\ Head(todo) \in TaskType /\ Head(todo) = todo[1]
         /\ \A a \in Lists : \A i \in Places(x, Tail(todo), a) :
              /\ Was(a, i) \in Places(x, todo, a)
              /\ Listed(x, Tail(todo), a)[i] = Listed(x, todo, a)[Was(a, i)]
              /\ Origin(Dropped(todo, from), a, i) = Origin(from, a, Was(a, i))
              /\ ~(a = 0 /\ Was(a, i) = 1)
         /\ \A a \in Lists : \A j \in Places(x, todo, a) : ~(a = 0 /\ j = 1) =>
              /\ Comes(a, j) \in Places(x, Tail(todo), a)
              /\ Listed(x, Tail(todo), a)[Comes(a, j)] = Listed(x, todo, a)[j]
              /\ Origin(Dropped(todo, from), a, Comes(a, j)) = Origin(from, a, j)
<1> DEFINE t == Tail(todo)
           f == Dropped(todo, from)
<1>1. /\ todo \in Seq(TaskType) /\ DOMAIN todo = 1 .. Len(todo) /\ Len(todo) \in Nat
      /\ Len(todo) > 0
  BY HandlerTypes
<1>2. /\ t \in Seq(TaskType) /\ Len(t) = Len(todo) - 1 /\ DOMAIN t = 1 .. Len(t)
      /\ \A i \in 1 .. Len(t) : t[i] = todo[i + 1]
      /\ Head(todo) \in TaskType /\ Head(todo) = todo[1]
  BY <1>1, HeadTailProperties
<1>5. \A i \in DOMAIN t : f[i] = from[i + 1]
  BY DEF Dropped
<1> HIDE DEF t, f
<1>3. Tasks(x, t)
  <2>1. \A i \in DOMAIN t : i + 1 \in DOMAIN todo /\ t[i] = todo[i + 1]
    BY <1>1, <1>2
  <2> QED BY <1>2, <2>1 DEF Tasks
<1>4. 0 \in Lists /\ 1 \in Places(x, todo, 0) /\ Listed(x, todo, 0)[1] = Head(todo)
  BY <1>1, <1>2, ListOfPromise DEF Places, Listed
<1>6. ASSUME NEW a \in Lists, NEW i \in Places(x, t, a), NEW j,
             j = Was(a, i)
      PROVE  /\ j \in Places(x, todo, a) /\ Listed(x, t, a)[i] = Listed(x, todo, a)[j]
             /\ Origin(f, a, i) = Origin(from, a, j)
             /\ ~(a = 0 /\ j = 1)
  BY <1>1, <1>2, <1>5, <1>6 DEF Places, Listed, Origin, Was
<1>7. ASSUME NEW a \in Lists, NEW j \in Places(x, todo, a), ~(a = 0 /\ j = 1), NEW i,
             i = Comes(a, j)
      PROVE  /\ i \in Places(x, t, a) /\ Listed(x, t, a)[i] = Listed(x, todo, a)[j]
             /\ Origin(f, a, i) = Origin(from, a, j)
  BY <1>1, <1>2, <1>5, <1>7 DEF Places, Listed, Origin, Comes
<1>8. \A a \in Lists : \A i \in Places(x, t, a) :
              /\ Was(a, i) \in Places(x, todo, a) /\ Listed(x, t, a)[i] = Listed(x, todo, a)[Was(a, i)]
              /\ Origin(f, a, i) = Origin(from, a, Was(a, i))
              /\ ~(a = 0 /\ Was(a, i) = 1)
  BY <1>6
<1>9. \A a \in Lists : \A j \in Places(x, todo, a) : ~(a = 0 /\ j = 1) =>
              /\ Comes(a, j) \in Places(x, t, a) /\ Listed(x, t, a)[Comes(a, j)] = Listed(x, todo, a)[j]
              /\ Origin(f, a, Comes(a, j)) = Origin(from, a, j)
  BY <1>7
<1> QED BY <1>2, <1>3, <1>4, <1>8, <1>9 DEF t, f

\* No handler is left for this child on behalf of this origin.
Spoken(x, todo, from, child, mark) ==
  \A a \in Lists : \A i \in Places(x, todo, a) :
    ~(/\ Listed(x, todo, a)[i].child = child
      /\ Mark(Listed(x, todo, a)[i], Origin(from, a, i)) = mark)

LEMMA TailHandlers ==
  ASSUME NEW x \in StateType, NEW todo, Tasks(x, todo), todo # <<>>, NEW from,
         HandlersInv(x, todo, from), NEW h, h = Head(todo),
         NEW t, t = Tail(todo), NEW f, f = Dropped(todo, from)
  PROVE  /\ HandlersInv(x, t, f)
         /\ HandlerFits(x, h, from[1]) /\ from[1] \in Promises
         /\ h.status \in Status /\ x.promises[from[1]].status = h.status
         /\ Spoken(x, t, f, h.child, Mark(h, from[1]))
<1>1. /\ Tasks(x, t)
      /\ 0 \in Lists /\ 1 \in Places(x, todo, 0) /\ Listed(x, todo, 0)[1] = h
  BY TailPlaces
<1>2. \A a \in Lists : \A i \in Places(x, t, a) :
        /\ Was(a, i) \in Places(x, todo, a) /\ Listed(x, t, a)[i] = Listed(x, todo, a)[Was(a, i)]
        /\ Origin(f, a, i) = Origin(from, a, Was(a, i))
        /\ ~(a = 0 /\ Was(a, i) = 1)
  BY TailPlaces
<1>3. Places(x, todo, 0) = DOMAIN todo /\ Listed(x, todo, 0) = todo
      /\ Places(x, t, 0) = DOMAIN t /\ Listed(x, t, 0) = t
  BY DEF Places, Listed
<1>4. from \in [DOMAIN todo -> Promises] /\ 1 \in DOMAIN todo /\ h = todo[1]
  BY <1>1, <1>3 DEF HandlersInv
<1>5. HandlerFits(x, h, from[1])
  <2>1. Origin(from, 0, 1) = from[1]
    BY DEF Origin
  <2> QED BY <1>1, <2>1 DEF HandlersInv
<1>6. h.status \in Status /\ x.promises[from[1]].status = h.status
  BY <1>4 DEF HandlersInv
<1>7. \A i \in DOMAIN t : i + 1 \in DOMAIN todo /\ t[i] = todo[i + 1] /\ f[i] = from[i + 1]
  <2>1. \A i \in DOMAIN t : i + 1 \in DOMAIN todo /\ t[i] = todo[i + 1]
    BY <1>1, <1>2, <1>3 DEF Was
  <2> QED BY <2>1 DEF Dropped
<1>8. f \in [DOMAIN t -> Promises]
  BY <1>4, <1>7 DEF Dropped
<1>9. \A i \in DOMAIN t : t[i].status \in Status /\ x.promises[f[i]].status = t[i].status
  BY <1>7 DEF HandlersInv
<1>10. \A a \in Lists : \A i \in Places(x, t, a) :
         HandlerFits(x, Listed(x, t, a)[i], Origin(f, a, i))
  BY <1>2 DEF HandlersInv
<1>11. ASSUME NEW a \in Lists, NEW b \in Lists,
              NEW i \in Places(x, t, a), NEW j \in Places(x, t, b),
              Listed(x, t, a)[i].child = Listed(x, t, b)[j].child,
              Mark(Listed(x, t, a)[i], Origin(f, a, i)) = Mark(Listed(x, t, b)[j], Origin(f, b, j))
       PROVE  a = b /\ i = j
  <2> DEFINE k == Was(a, i)
             l == Was(b, j)
  <2>1. a = b /\ k = l
    <3>1. /\ k \in Places(x, todo, a) /\ Listed(x, t, a)[i] = Listed(x, todo, a)[k]
          /\ Origin(f, a, i) = Origin(from, a, k)
      BY <1>2
    <3>2. /\ l \in Places(x, todo, b) /\ Listed(x, t, b)[j] = Listed(x, todo, b)[l]
          /\ Origin(f, b, j) = Origin(from, b, l)
      BY <1>2
    <3> HIDE DEF k, l
    <3> QED BY <1>11, <3>1, <3>2 DEF HandlersInv
  <2>2. i \in Nat /\ j \in Nat
    BY <1>1, HandlerTypes
  <2> QED BY <2>1, <2>2 DEF Was
<1>12. Spoken(x, t, f, h.child, Mark(h, from[1]))
  <2> SUFFICES ASSUME NEW a \in Lists, NEW i \in Places(x, t, a),
                      Listed(x, t, a)[i].child = h.child,
                      Mark(Listed(x, t, a)[i], Origin(f, a, i)) = Mark(h, from[1])
               PROVE  FALSE
    BY DEF Spoken
  <2> DEFINE k == Was(a, i)
  <2>1. /\ k \in Places(x, todo, a) /\ Listed(x, t, a)[i] = Listed(x, todo, a)[k]
        /\ Origin(f, a, i) = Origin(from, a, k) /\ ~(a = 0 /\ k = 1)
    BY <1>2
  <2>2. Origin(from, 0, 1) = from[1]
    BY DEF Origin
  <2> HIDE DEF k
  <2> QED BY <1>1, <2>1, <2>2 DEF HandlersInv
<1> QED BY <1>4, <1>5, <1>6, <1>8, <1>9, <1>10, <1>11, <1>12 DEF HandlersInv

LEMMA TailUnheard ==
  ASSUME NEW x \in StateType, NEW todo, Tasks(x, todo), todo # <<>>, NEW from,
         HandlersInv(x, todo, from), NEW h, h = Head(todo),
         NEW t, t = Tail(todo), NEW f, f = Dropped(todo, from),
         NEW r, NEW p
  PROVE  /\ Unheard(x, t, f, r, p) => Unheard(x, todo, from, r, p)
         /\ Single(h) \/ r # h.child \/ p # from[1]
              => (Unheard(x, t, f, r, p) <=> Unheard(x, todo, from, r, p))
         /\ ~Single(h) => Unheard(x, todo, from, h.child, from[1])
                          /\ ~Unheard(x, t, f, h.child, from[1])
<1>1. /\ 0 \in Lists /\ 1 \in Places(x, todo, 0) /\ Listed(x, todo, 0)[1] = h
      /\ Origin(from, 0, 1) = from[1]
  BY TailPlaces DEF Origin
<1>2. Unheard(x, t, f, r, p) => Unheard(x, todo, from, r, p)
  <2> SUFFICES ASSUME NEW a \in Lists, NEW i \in Places(x, t, a),
                      ~Single(Listed(x, t, a)[i]), Listed(x, t, a)[i].child = r,
                      Origin(f, a, i) = p
               PROVE  Unheard(x, todo, from, r, p)
    BY DEF Unheard
  <2> DEFINE k == Was(a, i)
  <2>1. /\ k \in Places(x, todo, a) /\ Listed(x, t, a)[i] = Listed(x, todo, a)[k]
        /\ Origin(f, a, i) = Origin(from, a, k)
    BY TailPlaces
  <2> HIDE DEF k
  <2> QED BY <2>1 DEF Unheard
<1>3. ASSUME Single(h) \/ r # h.child \/ p # from[1], Unheard(x, todo, from, r, p)
      PROVE  Unheard(x, t, f, r, p)
  <2>1. PICK a \in Lists : \E j \in Places(x, todo, a) :
          /\ ~Single(Listed(x, todo, a)[j]) /\ Listed(x, todo, a)[j].child = r
          /\ Origin(from, a, j) = p
    BY <1>3 DEF Unheard
  <2>2. PICK j \in Places(x, todo, a) :
          /\ ~Single(Listed(x, todo, a)[j]) /\ Listed(x, todo, a)[j].child = r
          /\ Origin(from, a, j) = p
    BY <2>1
  <2>3. ~(a = 0 /\ j = 1)
    BY <1>1, <1>3, <2>2
  <2> DEFINE i == Comes(a, j)
  <2>4. /\ i \in Places(x, t, a) /\ Listed(x, t, a)[i] = Listed(x, todo, a)[j]
        /\ Origin(f, a, i) = Origin(from, a, j)
    BY <2>3, TailPlaces
  <2> HIDE DEF i
  <2> QED BY <2>2, <2>4 DEF Unheard
<1>4. ASSUME ~Single(h)
      PROVE  Unheard(x, todo, from, h.child, from[1]) /\ ~Unheard(x, t, f, h.child, from[1])
  <2>1. Unheard(x, todo, from, h.child, from[1])
    BY <1>1, <1>4 DEF Unheard
  <2>2. Spoken(x, t, f, h.child, Mark(h, from[1]))
    BY TailHandlers
  <2>3. ~Unheard(x, t, f, h.child, from[1])
    BY <1>4, <2>2 DEF Spoken, Unheard, Mark
  <2> QED BY <2>1, <2>3
<1> QED BY <1>2, <1>3, <1>4

LEMMA TailSources ==
  ASSUME NEW x \in StateType, PromiseInv(x), NEW todo, Tasks(x, todo), todo # <<>>,
         NEW leaving, SourcesInv(x, todo, leaving)
  PROVE  SourcesInv(x, Tail(todo), leaving)
<1> DEFINE t == Tail(todo)
<1>1. \A a \in Lists : \A i \in Places(x, t, a) :
        /\ Was(a, i) \in Places(x, todo, a) /\ Listed(x, t, a)[i] = Listed(x, todo, a)[Was(a, i)]
  <2> DEFINE f == Dropped(todo, <<>>)
  <2> HIDE DEF f
  <2> QED BY TailPlaces DEF f
<1>2. \A p : SoleSource(x, todo, p) => SoleSource(x, t, p)
  <2> SUFFICES ASSUME NEW p, SoleSource(x, todo, p),
                      NEW a \in Lists, NEW i \in Places(x, t, a),
                      Single(Listed(x, t, a)[i])
               PROVE  Listed(x, t, a)[i].child # p
    BY DEF SoleSource
  <2> DEFINE j == Was(a, i)
  <2>1. j \in Places(x, todo, a) /\ Listed(x, t, a)[i] = Listed(x, todo, a)[j]
    BY <1>1
  <2> HIDE DEF j, t
  <2> QED BY <2>1 DEF SoleSource
<1> HIDE DEF t
<1>3. SourcesInv(x, t, leaving)
  BY <1>2 DEF SourcesInv
<1> QED BY <1>3 DEF t

LEMMA TailResults ==
  ASSUME NEW x \in StateType, NEW todo, Tasks(x, todo), todo # <<>>, NEW from,
         HandlersInv(x, todo, from), NEW h, h = Head(todo),
         NEW t, t = Tail(todo), NEW f, f = Dropped(todo, from),
         NEW r \in Promises, ResultInv(x, todo, from, r),
         Single(h) \/ r # h.child \/ x.promises[r].status # "pending"
  PROVE  ResultInv(x, t, f, r)
<1>1. CASE x.promises[r].status # "pending"
  BY <1>1 DEF ResultInv
<1>2. CASE x.promises[r].status = "pending"
  <2>1. \A p : Unheard(x, t, f, r, p) <=> Unheard(x, todo, from, r, p)
    BY <1>2, TailUnheard
  <2>2. Awaits(x, todo, from, r) => Awaits(x, t, f, r)
    BY <2>1 DEF Awaits
  <2> QED BY <2>2 DEF ResultInv
<1> QED BY <1>1, <1>2

(***************************************************************************)
(* A promise is settled, and its handlers go to the front of the list.     *)
(***************************************************************************)
\* y is x with promise p settled, its handlers popped, and no source that x has not.
Pops(x, y, p, status) ==
  /\ \A q \in Promises :
       /\ y.promises[q].elements = x.promises[q].elements
       /\ y.promises[q].race = x.promises[q].race
       /\ y.promises[q].remaining = x.promises[q].remaining
       /\ q # p => /\ y.promises[q].handlers = x.promises[q].handlers
                   /\ y.promises[q].status = x.promises[q].status
  /\ y.promises[p].handlers = <<>> /\ y.promises[p].status = status
  /\ \A c \in Contexts : y.ctx[c].owes # None =>
       y.ctx[c].owes = x.ctx[c].owes /\ y.ctx[c].executor = x.ctx[c].executor
  /\ y.linked = x.linked

Handlers(x, p) == Len(x.promises[p].handlers)
Popping(x, p, status, todo) == Popped(x, p, status) \o todo
PoppingFrom(x, p, todo, from) ==
  [i \in 1 .. Handlers(x, p) + Len(todo) |->
     IF i <= Handlers(x, p) THEN p ELSE from[i - Handlers(x, p)]]

\* Where handler i of list a was, and where handler j of list b is
ListWas(x, p, a, i) == IF a = 0 /\ i <= Handlers(x, p) THEN p ELSE a
PlaceWas(x, p, a, i) == IF a = 0 /\ i > Handlers(x, p) THEN i - Handlers(x, p) ELSE i
ListIs(p, b) == IF b = p THEN 0 ELSE b
PlaceIs(x, p, b, j) == IF b = 0 THEN j + Handlers(x, p) ELSE j

LEMMA PoppedFields ==
  ASSUME NEW x \in StateType, NEW p \in Promises, NEW status \in Status
  PROVE  /\ x.promises[p].handlers \in Seq(HandlerType) /\ Handlers(x, p) \in Nat
         /\ DOMAIN x.promises[p].handlers = 1 .. Handlers(x, p)
         /\ Popped(x, p, status) \in Seq(TaskType)
         /\ Len(Popped(x, p, status)) = Handlers(x, p)
         /\ \A i \in 1 .. Handlers(x, p) :
              /\ Popped(x, p, status)[i].kind = x.promises[p].handlers[i].kind
              /\ Popped(x, p, status)[i].child = x.promises[p].handlers[i].child
              /\ Popped(x, p, status)[i].status = status
<1> DEFINE hs == x.promises[p].handlers
           todo == [i \in DOMAIN hs |->
                      [kind |-> hs[i].kind, child |-> hs[i].child, status |-> status]]
<1>1. hs \in Seq(HandlerType)
  BY DEF StateType, PromiseType
<1>2. \A i \in DOMAIN hs : hs[i] \in HandlerType
  BY <1>1, ElementOfSeq
<1>3. \A i \in DOMAIN hs :
        [kind |-> hs[i].kind, child |-> hs[i].child, status |-> status] \in TaskType
  BY <1>2 DEF HandlerType, TaskType
<1>4. DOMAIN hs = 1 .. Len(hs) /\ Len(hs) \in Nat
  BY <1>1
<1>5. todo = Popped(x, p, status)
  BY DEF Popped
<1>6. todo \in [1 .. Len(hs) -> TaskType]
  BY <1>3, <1>4
<1>7. \A i \in DOMAIN hs : /\ todo[i].kind = hs[i].kind /\ todo[i].child = hs[i].child
                           /\ todo[i].status = status
  OBVIOUS
<1>8. todo \in Seq(TaskType) /\ Len(todo) = Len(hs)
  <2> HIDE DEF todo
  <2> QED BY <1>4, <1>6
<1> HIDE DEF todo
<1> QED BY <1>1, <1>4, <1>5, <1>7, <1>8 DEF Handlers

LEMMA PoppingPlaces ==
  ASSUME NEW x \in StateType, NEW todo, Tasks(x, todo), NEW from,
         NEW p \in Promises, NEW status \in Status, NEW y, Pops(x, y, p, status)
  PROVE  /\ Popping(x, p, status, todo) \in Seq(TaskType)
         /\ DOMAIN Popping(x, p, status, todo) = 1 .. Handlers(x, p) + Len(todo)
         /\ \A i \in DOMAIN Popping(x, p, status, todo) :
              IF i <= Handlers(x, p)
              THEN /\ Popping(x, p, status, todo)[i].status = status
                   /\ PoppingFrom(x, p, todo, from)[i] = p
              ELSE /\ i - Handlers(x, p) \in DOMAIN todo
                   /\ Popping(x, p, status, todo)[i] = todo[i - Handlers(x, p)]
                   /\ PoppingFrom(x, p, todo, from)[i] = from[i - Handlers(x, p)]
         /\ \A a \in Lists : \A i \in Places(y, Popping(x, p, status, todo), a) :
              /\ ListWas(x, p, a, i) \in Lists
              /\ PlaceWas(x, p, a, i) \in Places(x, todo, ListWas(x, p, a, i))
              /\ Listed(y, Popping(x, p, status, todo), a)[i].child
                   = Listed(x, todo, ListWas(x, p, a, i))[PlaceWas(x, p, a, i)].child
              /\ Listed(y, Popping(x, p, status, todo), a)[i].kind
                   = Listed(x, todo, ListWas(x, p, a, i))[PlaceWas(x, p, a, i)].kind
              /\ Origin(PoppingFrom(x, p, todo, from), a, i)
                   = Origin(from, ListWas(x, p, a, i), PlaceWas(x, p, a, i))
              /\ i \in Nat /\ a # p
         /\ \A b \in Lists : \A j \in Places(x, todo, b) :
              /\ ListIs(p, b) \in Lists
              /\ PlaceIs(x, p, b, j) \in Places(y, Popping(x, p, status, todo), ListIs(p, b))
              /\ Listed(y, Popping(x, p, status, todo), ListIs(p, b))[PlaceIs(x, p, b, j)].child
                   = Listed(x, todo, b)[j].child
              /\ Listed(y, Popping(x, p, status, todo), ListIs(p, b))[PlaceIs(x, p, b, j)].kind
                   = Listed(x, todo, b)[j].kind
              /\ Origin(PoppingFrom(x, p, todo, from), ListIs(p, b), PlaceIs(x, p, b, j))
                   = Origin(from, b, j)
<1> DEFINE hs == x.promises[p].handlers
           n == Handlers(x, p)
           popped == Popped(x, p, status)
           t == Popping(x, p, status, todo)
           f == PoppingFrom(x, p, todo, from)
<1>1. /\ hs \in Seq(HandlerType) /\ n \in Nat /\ DOMAIN hs = 1 .. n
      /\ popped \in Seq(TaskType) /\ Len(popped) = n
      /\ \A i \in 1 .. n : /\ popped[i].kind = hs[i].kind
                           /\ popped[i].child = hs[i].child /\ popped[i].status = status
  BY PoppedFields
<1>2. todo \in Seq(TaskType) /\ Len(todo) \in Nat /\ DOMAIN todo = 1 .. Len(todo)
  BY HandlerTypes
<1>3. /\ t \in Seq(TaskType) /\ Len(t) = n + Len(todo)
      /\ \A i \in 1 .. n + Len(todo) : t[i] = IF i <= n THEN popped[i] ELSE todo[i - n]
  <2>1. t = popped \o todo
    BY DEF Popping
  <2> HIDE DEF popped, n, t
  <2> QED BY <1>1, <1>2, <2>1, ConcatProperties
<1>4. \A i \in 1 .. n + Len(todo) : f[i] = IF i <= n THEN p ELSE from[i - n]
  BY DEF PoppingFrom
<1>5. 0 \in Lists /\ p \in Lists /\ p # 0 /\ \A a \in Lists : a # 0 => a \in Promises
  BY ListOfPromise
<1>6. \A a \in Lists : a # 0 /\ a # p => y.promises[a].handlers = x.promises[a].handlers
  BY <1>5 DEF Pops
<1>7. y.promises[p].handlers = <<>>
  BY DEF Pops
<1>8. \A a \in Lists : Places(x, todo, a) \subseteq Nat
  BY HandlerTypes
<1> HIDE DEF hs, popped, t, f, n
<1>9. DOMAIN t = 1 .. n + Len(todo)
  BY <1>3
<1>10. \A i \in DOMAIN t :
         IF i <= n THEN t[i].status = status /\ f[i] = p
         ELSE i - n \in DOMAIN todo /\ t[i] = todo[i - n] /\ f[i] = from[i - n]
  BY <1>1, <1>2, <1>3, <1>4, <1>9
<1>11. ASSUME NEW a \in Lists, NEW i \in Places(y, t, a)
       PROVE  /\ ListWas(x, p, a, i) \in Lists
              /\ PlaceWas(x, p, a, i) \in Places(x, todo, ListWas(x, p, a, i))
              /\ Listed(y, t, a)[i].child
                   = Listed(x, todo, ListWas(x, p, a, i))[PlaceWas(x, p, a, i)].child
              /\ Listed(y, t, a)[i].kind
                   = Listed(x, todo, ListWas(x, p, a, i))[PlaceWas(x, p, a, i)].kind
              /\ Origin(f, a, i) = Origin(from, ListWas(x, p, a, i), PlaceWas(x, p, a, i))
              /\ i \in Nat /\ a # p
  <2>1. CASE a # 0
    <3>1. a # p
      BY <2>1, <1>7 DEF Places, Listed
    <3>2. ListWas(x, p, a, i) = a /\ PlaceWas(x, p, a, i) = i
      BY <2>1 DEF ListWas, PlaceWas
    <3>3. Listed(y, t, a) = Listed(x, todo, a) /\ Places(y, t, a) = Places(x, todo, a)
      BY <2>1, <3>1, <1>6 DEF Listed, Places
    <3> QED BY <2>1, <3>1, <3>2, <3>3, <1>8 DEF Origin
  <2>2. CASE a = 0 /\ i <= n
    <3>2. i \in 1 .. n
      BY <2>2, <1>1, <1>2, <1>9 DEF Places, Listed
    <3>0. i \in Nat /\ ~(i > n)
      BY <3>2, <1>1
    <3>1. ListWas(x, p, a, i) = p /\ PlaceWas(x, p, a, i) = i
      BY <2>2, <3>0 DEF ListWas, PlaceWas, n
    <3>3. i \in 1 .. n + Len(todo)
      BY <3>2, <1>1, <1>2
    <3>4. i \in Places(x, todo, p) /\ Listed(x, todo, p) = hs
      BY <3>2, <1>1, <1>5 DEF Places, Listed, hs
    <3>5. t[i] = popped[i] /\ f[i] = p
      BY <2>2, <3>3, <1>3, <1>4
    <3> QED BY <2>2, <3>1, <3>2, <3>4, <3>5, <1>1, <1>5 DEF Listed, Origin
  <2>3. CASE a = 0 /\ ~(i <= n)
    <3>1. ListWas(x, p, a, i) = 0
      BY <2>3 DEF ListWas, n
    <3>2. i \in DOMAIN t
      BY <2>3 DEF Places, Listed
    <3>3. i > n /\ i \in Nat
      BY <2>3, <3>2, <1>1, <1>2, <1>9
    <3>4. PlaceWas(x, p, a, i) = i - n
      BY <2>3, <3>3 DEF PlaceWas, n
    <3> QED BY <2>3, <3>1, <3>2, <3>3, <3>4, <1>5, <1>10 DEF Places, Listed, Origin
  <2> QED BY <2>1, <2>2, <2>3
<1>12. ASSUME NEW b \in Lists, NEW j \in Places(x, todo, b)
       PROVE  /\ ListIs(p, b) \in Lists
              /\ PlaceIs(x, p, b, j) \in Places(y, t, ListIs(p, b))
              /\ Listed(y, t, ListIs(p, b))[PlaceIs(x, p, b, j)].child
                   = Listed(x, todo, b)[j].child
              /\ Listed(y, t, ListIs(p, b))[PlaceIs(x, p, b, j)].kind
                   = Listed(x, todo, b)[j].kind
              /\ Origin(f, ListIs(p, b), PlaceIs(x, p, b, j)) = Origin(from, b, j)
  <2>1. CASE b # 0 /\ b # p
    <3>1. ListIs(p, b) = b /\ PlaceIs(x, p, b, j) = j
      BY <2>1 DEF ListIs, PlaceIs
    <3>2. Listed(y, t, b) = Listed(x, todo, b) /\ Places(y, t, b) = Places(x, todo, b)
      BY <2>1, <1>6 DEF Listed, Places
    <3> QED BY <2>1, <3>1, <3>2 DEF Origin
  <2>2. CASE b = p
    <3>1. ListIs(p, b) = 0 /\ PlaceIs(x, p, b, j) = j
      BY <2>2, <1>5 DEF ListIs, PlaceIs
    <3>2. j \in 1 .. n /\ Listed(x, todo, b) = hs
      BY <2>2, <1>1, <1>5 DEF Places, Listed, hs
    <3>3. j \in 1 .. n + Len(todo) /\ j <= n
      BY <3>2, <1>1, <1>2
    <3>4. t[j] = popped[j] /\ f[j] = p
      BY <3>3, <1>3, <1>4
    <3> QED BY <2>2, <3>1, <3>2, <3>3, <3>4, <1>1, <1>5, <1>9 DEF Listed, Places, Origin
  <2>3. CASE b = 0
    <3>1. ListIs(p, b) = 0 /\ PlaceIs(x, p, b, j) = j + n
      BY <2>3, <1>5 DEF ListIs, PlaceIs, n
    <3>2. j \in 1 .. Len(todo)
      BY <2>3, <1>2 DEF Places, Listed
    <3>3. j + n \in 1 .. n + Len(todo) /\ ~(j + n <= n) /\ (j + n) - n = j
      BY <3>2, <1>1, <1>2
    <3>4. t[j + n] = todo[j] /\ f[j + n] = from[j]
      BY <3>3, <1>3, <1>4
    <3> QED BY <2>3, <3>1, <3>3, <3>4, <1>5, <1>9 DEF Listed, Places, Origin
  <2> QED BY <2>1, <2>2, <2>3
<1>13. /\ \A a \in Lists : \A i \in Places(y, t, a) :
              /\ ListWas(x, p, a, i) \in Lists
              /\ PlaceWas(x, p, a, i) \in Places(x, todo, ListWas(x, p, a, i))
              /\ Listed(y, t, a)[i].child
                   = Listed(x, todo, ListWas(x, p, a, i))[PlaceWas(x, p, a, i)].child
              /\ Listed(y, t, a)[i].kind
                   = Listed(x, todo, ListWas(x, p, a, i))[PlaceWas(x, p, a, i)].kind
              /\ Origin(f, a, i) = Origin(from, ListWas(x, p, a, i), PlaceWas(x, p, a, i))
              /\ i \in Nat /\ a # p
       /\ \A b \in Lists : \A j \in Places(x, todo, b) :
              /\ ListIs(p, b) \in Lists
              /\ PlaceIs(x, p, b, j) \in Places(y, t, ListIs(p, b))
              /\ Listed(y, t, ListIs(p, b))[PlaceIs(x, p, b, j)].child
                   = Listed(x, todo, b)[j].child
              /\ Listed(y, t, ListIs(p, b))[PlaceIs(x, p, b, j)].kind
                   = Listed(x, todo, b)[j].kind
              /\ Origin(f, ListIs(p, b), PlaceIs(x, p, b, j)) = Origin(from, b, j)
  BY <1>11, <1>12
<1> QED BY <1>3, <1>9, <1>10, <1>13 DEF t, f, n

LEMMA PoppingHandlers ==
  ASSUME NEW x \in StateType, NEW todo, Tasks(x, todo), NEW from,
         HandlersInv(x, todo, from),
         NEW p \in Promises, NEW status \in Status, NEW y, Pops(x, y, p, status),
         x.promises[p].status \in {"pending", status},
         \A a \in Lists : \A i \in Places(x, todo, a) :
           Single(Listed(x, todo, a)[i]) => Listed(x, todo, a)[i].child # p
  PROVE  HandlersInv(y, Popping(x, p, status, todo), PoppingFrom(x, p, todo, from))
<1> DEFINE t == Popping(x, p, status, todo)
           f == PoppingFrom(x, p, todo, from)
           n == Handlers(x, p)
<1>1. \A i \in DOMAIN t :
         IF i <= n THEN t[i].status = status /\ f[i] = p
         ELSE i - n \in DOMAIN todo /\ t[i] = todo[i - n] /\ f[i] = from[i - n]
  BY PoppingPlaces
<1>2. \A a \in Lists : \A i \in Places(y, t, a) :
              /\ ListWas(x, p, a, i) \in Lists
              /\ PlaceWas(x, p, a, i) \in Places(x, todo, ListWas(x, p, a, i))
              /\ Listed(y, t, a)[i].child
                   = Listed(x, todo, ListWas(x, p, a, i))[PlaceWas(x, p, a, i)].child
              /\ Listed(y, t, a)[i].kind
                   = Listed(x, todo, ListWas(x, p, a, i))[PlaceWas(x, p, a, i)].kind
              /\ Origin(f, a, i) = Origin(from, ListWas(x, p, a, i), PlaceWas(x, p, a, i))
  BY PoppingPlaces
<1>3. DOMAIN t = 1 .. n + Len(todo) /\ f = [i \in DOMAIN t |-> f[i]]
  BY PoppingPlaces DEF PoppingFrom
<1>3b. \A a \in Lists : \A i \in Places(y, t, a) : i \in Nat /\ a # p
  <2> SUFFICES ASSUME NEW a \in Lists, NEW i \in Places(y, t, a)
               PROVE  i \in Nat /\ a # p
    OBVIOUS
  <2>1. p # 0 /\ y.promises[p].handlers = <<>>
    BY ListOfPromise DEF Pops
  <2>2. a # p
    BY <2>1 DEF Places, Listed
  <2>3. CASE a = 0
    <3>1. i \in DOMAIN t
      BY <2>3 DEF Places, Listed
    <3>2. DOMAIN t = 1 .. n + Len(todo)
      BY <1>3
    <3>3. n \in Nat /\ Len(todo) \in Nat
      BY PoppedFields, HandlerTypes
    <3> HIDE DEF t, n
    <3> QED BY <2>2, <3>1, <3>2, <3>3
  <2>4. CASE a # 0
    <3>1. a \in Promises
      BY <2>4, ListOfPromise
    <3>2. i \in Places(x, todo, a)
      BY <2>2, <2>4, <3>1 DEF Pops, Places, Listed
    <3> QED BY <2>2, <3>2, HandlerTypes
  <2> QED BY <2>3, <2>4
<1>3a. n \in Nat
  BY PoppedFields
<1> HIDE DEF t, f, n
<1>4. from \in [DOMAIN todo -> Promises]
  BY DEF HandlersInv
<1>5. f \in [DOMAIN t -> Promises]
  <2>1. \A i \in DOMAIN t : f[i] \in Promises
    BY <1>1, <1>4
  <2> QED BY <2>1, <1>3
<1>6. \A q \in Promises : q # p => y.promises[q].status = x.promises[q].status
  BY DEF Pops
<1>7. y.promises[p].status = status /\ status # "pending" /\ status # "none"
  BY DEF Pops, Status
<1>8. ASSUME NEW i \in DOMAIN t
      PROVE  t[i].status \in Status /\ y.promises[f[i]].status = t[i].status
  <2>1. CASE i <= n
    BY <2>1, <1>1, <1>7
  <2>2. CASE ~(i <= n)
    <3> DEFINE j == i - n
    <3>1. j \in DOMAIN todo /\ t[i] = todo[j] /\ f[i] = from[j]
      BY <2>2, <1>1
    <3> HIDE DEF j
    <3>2. todo[j].status \in Status /\ x.promises[from[j]].status = todo[j].status
          /\ from[j] \in Promises
      BY <3>1, <1>4 DEF HandlersInv
    <3>3. from[j] = p => todo[j].status = status
      BY <3>2 DEF Status
    <3> QED BY <3>1, <3>2, <3>3, <1>6, <1>7
  <2> QED BY <2>1, <2>2
<1>9. ASSUME NEW a \in Lists, NEW i \in Places(y, t, a)
      PROVE  HandlerFits(y, Listed(y, t, a)[i], Origin(f, a, i))
  <2> DEFINE b == ListWas(x, p, a, i)
             j == PlaceWas(x, p, a, i)
             h == Listed(y, t, a)[i]
             k == Listed(x, todo, b)[j]
  <2>1. /\ b \in Lists /\ j \in Places(x, todo, b)
        /\ h.child = k.child /\ h.kind = k.kind
        /\ Origin(f, a, i) = Origin(from, b, j)
    BY <1>2
  <2> HIDE DEF b, j
  <2>2. HandlerFits(x, k, Origin(from, b, j)) /\ k.child \in Promises
        /\ (Single(k) => k.child # p)
    BY <2>1, HandlerTypes DEF HandlersInv
  <2> HIDE DEF h, k
  <2>3. /\ y.promises[k.child].elements = x.promises[k.child].elements
        /\ y.promises[k.child].race = x.promises[k.child].race
        /\ k.child # p => y.promises[k.child].status = x.promises[k.child].status
    BY <2>2 DEF Pops
  <2>4. HandlerFits(y, h, Origin(f, a, i))
    BY <2>1, <2>2, <2>3 DEF HandlerFits, Single
  <2> QED BY <2>4 DEF h
<1>10. ASSUME NEW a \in Lists, NEW b \in Lists,
              NEW i \in Places(y, t, a), NEW j \in Places(y, t, b),
              Listed(y, t, a)[i].child = Listed(y, t, b)[j].child,
              Mark(Listed(y, t, a)[i], Origin(f, a, i)) = Mark(Listed(y, t, b)[j], Origin(f, b, j))
       PROVE  a = b /\ i = j
  <2> DEFINE c == ListWas(x, p, a, i)
             k == PlaceWas(x, p, a, i)
             d == ListWas(x, p, b, j)
             l == PlaceWas(x, p, b, j)
  <2>1. c = d /\ k = l
    <3>1. /\ c \in Lists /\ k \in Places(x, todo, c)
          /\ Listed(y, t, a)[i].child = Listed(x, todo, c)[k].child
          /\ Listed(y, t, a)[i].kind = Listed(x, todo, c)[k].kind
          /\ Origin(f, a, i) = Origin(from, c, k)
      BY <1>2
    <3>2. /\ d \in Lists /\ l \in Places(x, todo, d)
          /\ Listed(y, t, b)[j].child = Listed(x, todo, d)[l].child
          /\ Listed(y, t, b)[j].kind = Listed(x, todo, d)[l].kind
          /\ Origin(f, b, j) = Origin(from, d, l)
      BY <1>2
    <3> HIDE DEF c, d, k, l
    <3>3. Mark(Listed(x, todo, c)[k], Origin(from, c, k))
            = Mark(Listed(x, todo, d)[l], Origin(from, d, l))
      BY <1>10, <3>1, <3>2 DEF Mark, Single
    <3>4. Listed(x, todo, c)[k].child = Listed(x, todo, d)[l].child
      BY <1>10, <3>1, <3>2
    <3> QED BY <3>1, <3>2, <3>3, <3>4 DEF HandlersInv
  <2>2. i \in Nat /\ a # p /\ j \in Nat /\ b # p
    BY <1>3b
  <2>3. p # 0
    BY ListOfPromise
  <2> QED BY <2>1, <2>2, <2>3, <1>3a DEF ListWas, PlaceWas, n
<1>11. HandlersInv(y, t, f)
  BY <1>5, <1>8, <1>9, <1>10 DEF HandlersInv
<1> QED BY <1>11 DEF t, f

LEMMA PoppingUnheard ==
  ASSUME NEW x \in StateType, NEW todo, Tasks(x, todo), NEW from,
         NEW p \in Promises, NEW status \in Status, NEW y, Pops(x, y, p, status),
         NEW r, NEW q
  PROVE  Unheard(y, Popping(x, p, status, todo), PoppingFrom(x, p, todo, from), r, q)
           <=> Unheard(x, todo, from, r, q)
<1> DEFINE t == Popping(x, p, status, todo)
           f == PoppingFrom(x, p, todo, from)
<1>1. \A a \in Lists : \A i \in Places(y, t, a) :
              /\ ListWas(x, p, a, i) \in Lists
              /\ PlaceWas(x, p, a, i) \in Places(x, todo, ListWas(x, p, a, i))
              /\ Listed(y, t, a)[i].child
                   = Listed(x, todo, ListWas(x, p, a, i))[PlaceWas(x, p, a, i)].child
              /\ Listed(y, t, a)[i].kind
                   = Listed(x, todo, ListWas(x, p, a, i))[PlaceWas(x, p, a, i)].kind
              /\ Origin(f, a, i) = Origin(from, ListWas(x, p, a, i), PlaceWas(x, p, a, i))
  BY PoppingPlaces
<1>2. \A b \in Lists : \A j \in Places(x, todo, b) :
              /\ ListIs(p, b) \in Lists
              /\ PlaceIs(x, p, b, j) \in Places(y, t, ListIs(p, b))
              /\ Listed(y, t, ListIs(p, b))[PlaceIs(x, p, b, j)].child
                   = Listed(x, todo, b)[j].child
              /\ Listed(y, t, ListIs(p, b))[PlaceIs(x, p, b, j)].kind
                   = Listed(x, todo, b)[j].kind
              /\ Origin(f, ListIs(p, b), PlaceIs(x, p, b, j)) = Origin(from, b, j)
  BY PoppingPlaces
<1> HIDE DEF t, f
<1>3. Unheard(y, t, f, r, q) => Unheard(x, todo, from, r, q)
  <2> SUFFICES ASSUME NEW a \in Lists, NEW i \in Places(y, t, a),
                      ~Single(Listed(y, t, a)[i]), Listed(y, t, a)[i].child = r,
                      Origin(f, a, i) = q
               PROVE  Unheard(x, todo, from, r, q)
    BY DEF Unheard
  <2> DEFINE b == ListWas(x, p, a, i)
             j == PlaceWas(x, p, a, i)
  <2>1. /\ b \in Lists /\ j \in Places(x, todo, b)
        /\ Listed(y, t, a)[i].child = Listed(x, todo, b)[j].child
        /\ Listed(y, t, a)[i].kind = Listed(x, todo, b)[j].kind
        /\ Origin(f, a, i) = Origin(from, b, j)
    BY <1>1
  <2> HIDE DEF b, j
  <2> QED BY <2>1 DEF Unheard, Single
<1>4. Unheard(x, todo, from, r, q) => Unheard(y, t, f, r, q)
  <2> SUFFICES ASSUME NEW b \in Lists, NEW j \in Places(x, todo, b),
                      ~Single(Listed(x, todo, b)[j]), Listed(x, todo, b)[j].child = r,
                      Origin(from, b, j) = q
               PROVE  Unheard(y, t, f, r, q)
    BY DEF Unheard
  <2> DEFINE a == ListIs(p, b)
             i == PlaceIs(x, p, b, j)
  <2>1. /\ a \in Lists /\ i \in Places(y, t, a)
        /\ Listed(y, t, a)[i].child = Listed(x, todo, b)[j].child
        /\ Listed(y, t, a)[i].kind = Listed(x, todo, b)[j].kind
        /\ Origin(f, a, i) = Origin(from, b, j)
    BY <1>2
  <2> HIDE DEF a, i
  <2> QED BY <2>1 DEF Unheard, Single
<1> QED BY <1>3, <1>4 DEF t, f

LEMMA PoppingSources ==
  ASSUME NEW x \in StateType, PromiseInv(x), NEW todo, Tasks(x, todo),
         NEW leaving, SourcesInv(x, todo, leaving),
         NEW p \in Promises, NEW status \in Status, NEW y, Pops(x, y, p, status),
         \A c \in Contexts \ leaving : x.ctx[c].owes = p => x.ctx[c].executor
  PROVE  SourcesInv(y, Popping(x, p, status, todo), leaving)
<1> DEFINE t == Popping(x, p, status, todo)
<1>1. \A a \in Lists : \A i \in Places(y, t, a) :
              /\ ListWas(x, p, a, i) \in Lists
              /\ PlaceWas(x, p, a, i) \in Places(x, todo, ListWas(x, p, a, i))
              /\ Listed(y, t, a)[i].child
                   = Listed(x, todo, ListWas(x, p, a, i))[PlaceWas(x, p, a, i)].child
              /\ Listed(y, t, a)[i].kind
                   = Listed(x, todo, ListWas(x, p, a, i))[PlaceWas(x, p, a, i)].kind
  <2> DEFINE from == <<>>
             f == PoppingFrom(x, p, todo, from)
  <2> HIDE DEF from
  <2>1. \A a \in Lists : \A i \in Places(y, t, a) :
              /\ ListWas(x, p, a, i) \in Lists
              /\ PlaceWas(x, p, a, i) \in Places(x, todo, ListWas(x, p, a, i))
              /\ Listed(y, t, a)[i].child
                   = Listed(x, todo, ListWas(x, p, a, i))[PlaceWas(x, p, a, i)].child
              /\ Listed(y, t, a)[i].kind
                   = Listed(x, todo, ListWas(x, p, a, i))[PlaceWas(x, p, a, i)].kind
              /\ Origin(f, a, i) = Origin(from, ListWas(x, p, a, i), PlaceWas(x, p, a, i))
    BY PoppingPlaces
  <2> QED BY <2>1
<1> HIDE DEF t
<1>2. \A q \in Promises : SoleSource(x, todo, q) => SoleSource(y, t, q)
  <2> SUFFICES ASSUME NEW q \in Promises, SoleSource(x, todo, q)
               PROVE  SoleSource(y, t, q)
    OBVIOUS
  <2>1. y.promises[q].elements = {}
    BY DEF SoleSource, Pops
  <2>2. ASSUME NEW a \in Lists, NEW i \in Places(y, t, a), Single(Listed(y, t, a)[i])
        PROVE  Listed(y, t, a)[i].child # q
    <3> DEFINE b == ListWas(x, p, a, i)
               j == PlaceWas(x, p, a, i)
    <3>1. /\ b \in Lists /\ j \in Places(x, todo, b)
          /\ Listed(y, t, a)[i].child = Listed(x, todo, b)[j].child
          /\ Listed(y, t, a)[i].kind = Listed(x, todo, b)[j].kind
      BY <1>1
    <3> HIDE DEF b, j
    <3> QED BY <2>2, <3>1 DEF SoleSource, Single
  <2> QED BY <2>1, <2>2 DEF SoleSource
<1>3. ASSUME NEW c \in Contexts \ leaving, y.ctx[c].owes # None
      PROVE  /\ SoleSource(y, t, y.ctx[c].owes)
             /\ ~y.ctx[c].executor => y.promises[y.ctx[c].owes].status = "pending"
             /\ \A d \in Contexts \ leaving : y.ctx[d].owes = y.ctx[c].owes => c = d
  <2>1. /\ y.ctx[c].owes = x.ctx[c].owes /\ y.ctx[c].executor = x.ctx[c].executor
        /\ x.ctx[c].owes \in Promises
    BY <1>3, SourceTypes DEF Pops
  <2>2. \A d \in Contexts \ leaving : y.ctx[d].owes = y.ctx[c].owes => x.ctx[d].owes = x.ctx[c].owes
    BY <1>3, <2>1 DEF Pops
  <2>3. ~y.ctx[c].executor => x.ctx[c].owes # p
    BY <2>1
  <2>4. ~y.ctx[c].executor => y.promises[y.ctx[c].owes].status = "pending"
    BY <1>3, <2>1, <2>3 DEF SourcesInv, Pops
  <2> QED BY <1>2, <1>3, <2>1, <2>2, <2>4 DEF SourcesInv
<1>4. ASSUME NEW e \in 1 .. Entries, y.linked[e].live, y.linked[e].ctx = None
      PROVE  /\ SoleSource(y, t, y.linked[e].promise)
             /\ \A c \in Contexts \ leaving : y.ctx[c].owes # y.linked[e].promise
  <2>1. y.linked[e] = x.linked[e]
    BY DEF Pops
  <2>2. x.linked[e].promise \in Promises
    BY <1>4, <2>1, SourceTypes
  <2>3. x.linked[e].promise # None
    BY <2>2, SettlementAssumption DEF Promises, None
  <2>4. \A c \in Contexts \ leaving : y.ctx[c].owes # y.linked[e].promise
    BY <1>4, <2>1, <2>3 DEF SourcesInv, Pops
  <2> QED BY <1>2, <1>4, <2>1, <2>2, <2>4 DEF SourcesInv
<1>5. SourcesInv(y, t, leaving)
  BY <1>3, <1>4 DEF SourcesInv
<1> QED BY <1>5 DEF t

LEMMA PoppingResults ==
  ASSUME NEW x \in StateType, PromiseInv(x), ShapeInv(x), NEW todo, Tasks(x, todo), NEW from,
         NEW p \in Promises, NEW status \in Status, NEW y, Pops(x, y, p, status),
         x.promises[p].status \in {"pending", status},
         x.promises[p].elements # {} => Told(x, p, status)
  PROVE  /\ ShapeInv(y)
         /\ ResultInv(y, Popping(x, p, status, todo), PoppingFrom(x, p, todo, from), p)
         /\ \A r \in Promises : r # p /\ ResultInv(x, todo, from, r) =>
              ResultInv(y, Popping(x, p, status, todo), PoppingFrom(x, p, todo, from), r)
<1> DEFINE t == Popping(x, p, status, todo)
           f == PoppingFrom(x, p, todo, from)
<1>1. \A r, q : Unheard(y, t, f, r, q) <=> Unheard(x, todo, from, r, q)
  BY PoppingUnheard
<1> HIDE DEF t, f
<1>2. status \notin {"none", "pending"}
  BY DEF Status
<1>3. \A q \in Promises :
       /\ y.promises[q].elements = x.promises[q].elements
       /\ y.promises[q].race = x.promises[q].race
       /\ y.promises[q].remaining = x.promises[q].remaining
       /\ q # p => y.promises[q].status = x.promises[q].status
  BY DEF Pops
<1>4. y.promises[p].status = status
  BY DEF Pops
<1>5. \A r \in Promises : x.promises[r].elements \in SUBSET Promises
  BY SourceTypes
<1>6. \A q \in Promises : x.promises[q].status # "none" => y.promises[q].status # "none"
  BY <1>2, <1>3, <1>4
<1>7. ShapeInv(y)
  BY <1>3, <1>5, <1>6 DEF ShapeInv
<1>8. \A q \in Promises, s \in Status :
        x.promises[q].status = s => y.promises[q].status = s
  <2>1. \A s \in Status : s # "pending"
    BY DEF Status
  <2> QED BY <2>1, <1>3, <1>4
<1>9. \A r \in Promises, s \in Status : Told(x, r, s) => Told(y, r, s)
  <2>1. "resolved" \in Status
    BY DEF Status
  <2> QED BY <2>1, <1>3, <1>5, <1>8 DEF Told
<1>10. ResultInv(y, t, f, p)
  BY <1>2, <1>3, <1>4, <1>9 DEF ResultInv
<1>11. ASSUME NEW r \in Promises, r # p, ResultInv(x, todo, from, r)
       PROVE  ResultInv(y, t, f, r)
  <2>1. y.promises[r].status = x.promises[r].status
        /\ y.promises[r].elements = x.promises[r].elements
    BY <1>3, <1>11
  <2>2. CASE x.promises[r].status = "pending"
    <3>1. Awaits(x, todo, from, r) => Awaits(y, t, f, r)
      <4>1. "resolved" \in Status
        BY DEF Status
      <4> QED BY <4>1, <1>1, <1>3, <1>5, <1>8 DEF Awaits
    <3> QED BY <1>11, <2>1, <2>2, <3>1 DEF ResultInv
  <2>3. CASE x.promises[r].status # "pending"
    <3>1. x.promises[r].elements # {} => x.promises[r].status \in Status
      <4>1. x.promises[r].status \in {"none", "pending"} \cup Status
        BY DEF StateType, PromiseType
      <4> QED BY <4>1, <2>3 DEF ShapeInv
    <3> QED BY <1>9, <1>11, <2>1, <2>3, <3>1 DEF ResultInv
  <2> QED BY <2>2, <2>3
<1> QED BY <1>7, <1>10, <1>11 DEF t, f

(***************************************************************************)
(* One handler of a cascade                                                *)
(***************************************************************************)
\* y has the promises of x, but for their waiters and what is remaining of some.
Alike(x, y) ==
  \A p \in Promises : /\ y.promises[p].status = x.promises[p].status
                      /\ y.promises[p].handlers = x.promises[p].handlers
                      /\ y.promises[p].elements = x.promises[p].elements
                      /\ y.promises[p].race = x.promises[p].race

LEMMA AlikeKeeps ==
  ASSUME NEW x \in StateType, NEW todo, Tasks(x, todo), NEW y, Alike(x, y),
         NEW from
  PROVE  /\ HandlersInv(x, todo, from) => HandlersInv(y, todo, from)
         /\ \A p \in Promises : SoleSource(x, todo, p) => SoleSource(y, todo, p)
         /\ ShapeInv(x) => ShapeInv(y)
         /\ \A r, p : Unheard(y, todo, from, r, p) <=> Unheard(x, todo, from, r, p)
         /\ \A r \in Promises :
              /\ y.promises[r].remaining = x.promises[r].remaining
                   \/ y.promises[r].status # "pending" \/ y.promises[r].race
              /\ ResultInv(x, todo, from, r)
              => ResultInv(y, todo, from, r)
<1>1. \A a \in Lists : /\ Listed(y, todo, a) = Listed(x, todo, a)
                       /\ Places(y, todo, a) = Places(x, todo, a)
  BY ListOfPromise DEF Alike, Listed, Places
<1>2. \A a \in Lists : \A i \in Places(x, todo, a) :
        Listed(x, todo, a)[i].child \in Promises
  BY HandlerTypes
<1>3. \A p \in Promises :
       /\ y.promises[p].status = x.promises[p].status
       /\ y.promises[p].elements = x.promises[p].elements
       /\ y.promises[p].race = x.promises[p].race
  BY DEF Alike
<1>4. \A h, o : h.child \in Promises => (HandlerFits(y, h, o) <=> HandlerFits(x, h, o))
  BY <1>3 DEF HandlerFits
<1>5. HandlersInv(x, todo, from) => HandlersInv(y, todo, from)
  <2> HAVE HandlersInv(x, todo, from)
  <2>1. from \in [DOMAIN todo -> Promises]
    BY DEF HandlersInv
  <2>2. \A i \in DOMAIN todo :
          todo[i].status \in Status /\ y.promises[from[i]].status = todo[i].status
    BY <2>1, <1>3 DEF HandlersInv
  <2>3. \A a \in Lists : \A i \in Places(y, todo, a) :
          HandlerFits(y, Listed(y, todo, a)[i], Origin(from, a, i))
    BY <1>1, <1>2, <1>4 DEF HandlersInv
  <2>4. \A a, b \in Lists : \A i \in Places(y, todo, a), j \in Places(y, todo, b) :
       LET h == Listed(y, todo, a)[i]
           k == Listed(y, todo, b)[j]
       IN h.child = k.child /\ Mark(h, Origin(from, a, i)) = Mark(k, Origin(from, b, j))
            => a = b /\ i = j
    BY <1>1 DEF HandlersInv
  <2> QED BY <2>1, <2>2, <2>3, <2>4 DEF HandlersInv
<1>6. \A p \in Promises : SoleSource(x, todo, p) => SoleSource(y, todo, p)
  BY <1>1, <1>3 DEF SoleSource
<1>8. \A r \in Promises : x.promises[r].elements \in SUBSET Promises
  BY DEF StateType, PromiseType
<1>9. ShapeInv(x) => ShapeInv(y)
  BY <1>3, <1>8 DEF ShapeInv
<1>10. \A r, p : Unheard(y, todo, from, r, p) <=> Unheard(x, todo, from, r, p)
  BY <1>1 DEF Unheard
<1>11. ASSUME NEW r \in Promises, ResultInv(x, todo, from, r),
              y.promises[r].remaining = x.promises[r].remaining
                \/ y.promises[r].status # "pending" \/ y.promises[r].race
       PROVE  ResultInv(y, todo, from, r)
  <2>1. \A status : Told(x, r, status) <=> Told(y, r, status)
    BY <1>3, <1>8 DEF Told
  <2>2. CASE y.promises[r].remaining = x.promises[r].remaining \/ y.promises[r].race
    <3>1. Awaits(x, todo, from, r) <=> Awaits(y, todo, from, r)
      BY <2>2, <1>3, <1>8, <1>10 DEF Awaits
    <3> QED BY <1>3, <1>11, <2>1, <3>1 DEF ResultInv
  <2>3. CASE y.promises[r].status # "pending"
    BY <1>3, <1>11, <2>1, <2>3 DEF ResultInv
  <2> QED BY <1>11, <2>2, <2>3
<1> QED BY <1>5, <1>6, <1>9, <1>10, <1>11

LEMMA SettlesPops ==
  ASSUME NEW x \in StateType, NEW p \in Promises, NEW status \in Status, NEW y,
         Settles(x, y, p, status)
  PROVE  Pops(x, y, p, status)
<1>1. \A c \in Contexts : y.ctx[c].owes = x.ctx[c].owes /\ y.ctx[c].executor = x.ctx[c].executor
  BY DEF Settles, Given
<1> QED BY <1>1 DEF Settles, Pops

\* What is left to settle p with, is what settles it now.
Unsettled(x, todo, from, leaving, p, status) ==
  /\ HandlersInv(x, todo, from) /\ SourcesInv(x, todo, leaving) /\ ShapeInv(x)
  /\ \A r \in Promises : r # p => ResultInv(x, todo, from, r)
  /\ x.promises[p].status \in {"pending", status}
  /\ \A a \in Lists : \A i \in Places(x, todo, a) :
       Single(Listed(x, todo, a)[i]) => Listed(x, todo, a)[i].child # p
  /\ \A c \in Contexts \ leaving : x.ctx[c].owes = p => x.ctx[c].executor
  /\ x.promises[p].elements # {} => Told(x, p, status)

LEMMA PoppingNotices ==
  ASSUME NEW x \in StateType, PromiseInv(x), NEW todo, Tasks(x, todo), NEW from, NEW leaving,
         NEW p \in Promises, NEW status \in Status, Unsettled(x, todo, from, leaving, p, status),
         NEW y, Pops(x, y, p, status)
  PROVE  NoticeInv(y, Popping(x, p, status, todo), PoppingFrom(x, p, todo, from), leaving)
<1>1. HandlersInv(y, Popping(x, p, status, todo), PoppingFrom(x, p, todo, from))
  BY PoppingHandlers DEF Unsettled
<1>2. SourcesInv(y, Popping(x, p, status, todo), leaving)
  BY PoppingSources DEF Unsettled
<1>3. /\ ShapeInv(y)
      /\ \A r \in Promises :
           ResultInv(y, Popping(x, p, status, todo), PoppingFrom(x, p, todo, from), r)
  BY PoppingResults DEF Unsettled
<1> QED BY <1>1, <1>2, <1>3 DEF NoticeInv

LEMMA AllocatedNotices ==
  ASSUME NEW x \in StateType, PromiseInv(x), NEW todo, Tasks(x, todo), NEW from, NEW leaving,
         NoticeInv(x, todo, from, leaving),
         NEW promise \in {None} \cup Promises, NEW executor \in BOOLEAN,
         promise # None =>
           /\ SoleSource(x, todo, promise) /\ x.promises[promise].status = "pending"
           /\ \A c \in Contexts \ leaving : x.ctx[c].owes # promise
           /\ \A e \in 1 .. Entries : x.linked[e].live /\ x.linked[e].ctx = None =>
                x.linked[e].promise # promise,
         NEW y, y = Allocated(x, promise, executor)
  PROVE  NoticeInv(y, todo, from, leaving)
<1>1. CASE FreeContexts(x) = {}
  BY <1>1 DEF Allocated
<1>2. CASE FreeContexts(x) # {}
  <2>1. y.promises = x.promises /\ y.linked = x.linked /\ Enters(x, y, promise)
    BY <1>2, AllocatedFields
  <2>2. \E c \in Contexts : \E k : y.ctx = [x.ctx EXCEPT ![c] = k] /\ k.owes = promise
    BY <2>1 DEF Enters, FreshContext
  <2>2a. PICK c \in Contexts : \E k : y.ctx = [x.ctx EXCEPT ![c] = k] /\ k.owes = promise
    BY <2>2
  <2>2b. PICK k : y.ctx = [x.ctx EXCEPT ![c] = k] /\ k.owes = promise
    BY <2>2a
  <2>3. x.ctx \in [Contexts -> ContextType]
    BY DEF StateType
  <2>4. \A d \in Contexts : y.ctx[d] = IF d = c THEN k ELSE x.ctx[d]
    BY <2>2b, <2>3
  <2>5. Alike(x, y) /\ \A r \in Promises : y.promises[r].remaining = x.promises[r].remaining
    BY <2>1 DEF Alike
  <2>6. /\ HandlersInv(y, todo, from) /\ ShapeInv(y)
        /\ \A r \in Promises : ResultInv(y, todo, from, r)
        /\ \A p \in Promises : SoleSource(x, todo, p) => SoleSource(y, todo, p)
    BY <2>5, AlikeKeeps DEF NoticeInv
  <2>7. SourcesInv(x, todo, leaving)
    BY DEF NoticeInv
  <2>8. ASSUME NEW d \in Contexts \ leaving, y.ctx[d].owes # None
        PROVE  /\ SoleSource(y, todo, y.ctx[d].owes)
               /\ ~y.ctx[d].executor => y.promises[y.ctx[d].owes].status = "pending"
               /\ \A b \in Contexts \ leaving : y.ctx[b].owes = y.ctx[d].owes => d = b
    <3>1. CASE d = c
      BY <2>1, <2>2b, <2>4, <2>6, <2>8, <3>1
    <3>2. CASE d # c
      <4>1. y.ctx[d] = x.ctx[d] /\ x.ctx[d].owes \in Promises
        BY <2>4, <2>8, <3>2, SourceTypes
      <4>2. promise # None => x.ctx[d].owes # promise
        OBVIOUS
      <4> QED BY <2>1, <2>2b, <2>4, <2>6, <2>7, <2>8, <4>1, <4>2 DEF SourcesInv
    <3> QED BY <3>1, <3>2
  <2>9. ASSUME NEW e \in 1 .. Entries, y.linked[e].live, y.linked[e].ctx = None
        PROVE  /\ SoleSource(y, todo, y.linked[e].promise)
               /\ \A d \in Contexts \ leaving : y.ctx[d].owes # y.linked[e].promise
    <3>1. x.linked[e].promise \in Promises
      BY <2>1, <2>9, SourceTypes
    <3>2. x.linked[e].promise # None
      BY <3>1, SettlementAssumption DEF Promises, None
    <3> QED BY <2>1, <2>2b, <2>4, <2>6, <2>7, <2>9, <3>1, <3>2 DEF SourcesInv
  <2>10. SourcesInv(y, todo, leaving)
    BY <2>8, <2>9 DEF SourcesInv
  <2> QED BY <2>6, <2>10 DEF NoticeInv
<1> QED BY <1>1, <1>2

(***************************************************************************)
(* What a cascade may still have to run                                    *)
(***************************************************************************)
Left(x, todo, from) ==
  UNION {{<<Listed(x, todo, a)[i].child, Mark(Listed(x, todo, a)[i], Origin(from, a, i))>> :
            i \in Places(x, todo, a)} : a \in Lists}

LEMMA LeftMeans ==
  ASSUME NEW x, NEW todo, NEW from, NEW key
  PROVE  key \in Left(x, todo, from) <=>
           \E a \in Lists : \E i \in Places(x, todo, a) :
             key = <<Listed(x, todo, a)[i].child, Mark(Listed(x, todo, a)[i], Origin(from, a, i))>>
BY DEF Left

\* Settling brings nothing, and taking the first one leaves fewer.
LEMMA LeftPopping ==
  ASSUME NEW x \in StateType, NEW todo, Tasks(x, todo), NEW from,
         NEW p \in Promises, NEW status \in Status, NEW y, Pops(x, y, p, status)
  PROVE  Left(y, Popping(x, p, status, todo), PoppingFrom(x, p, todo, from))
           \subseteq Left(x, todo, from)
<1> DEFINE t == Popping(x, p, status, todo)
           f == PoppingFrom(x, p, todo, from)
<1>1. \A a \in Lists : \A i \in Places(y, t, a) :
              /\ ListWas(x, p, a, i) \in Lists
              /\ PlaceWas(x, p, a, i) \in Places(x, todo, ListWas(x, p, a, i))
              /\ Listed(y, t, a)[i].child
                   = Listed(x, todo, ListWas(x, p, a, i))[PlaceWas(x, p, a, i)].child
              /\ Listed(y, t, a)[i].kind
                   = Listed(x, todo, ListWas(x, p, a, i))[PlaceWas(x, p, a, i)].kind
              /\ Origin(f, a, i) = Origin(from, ListWas(x, p, a, i), PlaceWas(x, p, a, i))
  BY PoppingPlaces
<1> HIDE DEF t, f
<1>2. ASSUME NEW key \in Left(y, t, f)
      PROVE  key \in Left(x, todo, from)
  <2>1. PICK a \in Lists : \E i \in Places(y, t, a) :
          key = <<Listed(y, t, a)[i].child, Mark(Listed(y, t, a)[i], Origin(f, a, i))>>
    BY LeftMeans
  <2>2. PICK i \in Places(y, t, a) :
          key = <<Listed(y, t, a)[i].child, Mark(Listed(y, t, a)[i], Origin(f, a, i))>>
    BY <2>1
  <2> DEFINE b == ListWas(x, p, a, i)
             j == PlaceWas(x, p, a, i)
  <2>3. /\ b \in Lists /\ j \in Places(x, todo, b)
        /\ Listed(y, t, a)[i].child = Listed(x, todo, b)[j].child
        /\ Listed(y, t, a)[i].kind = Listed(x, todo, b)[j].kind
        /\ Origin(f, a, i) = Origin(from, b, j)
    BY <1>1
  <2> HIDE DEF b, j
  <2>4. key = <<Listed(x, todo, b)[j].child, Mark(Listed(x, todo, b)[j], Origin(from, b, j))>>
    BY <2>2, <2>3 DEF Mark, Single
  <2> QED BY <2>3, <2>4, LeftMeans
<1> QED BY <1>2 DEF t, f

LEMMA LeftTail ==
  ASSUME NEW x \in StateType, NEW todo, Tasks(x, todo), todo # <<>>, NEW from,
         HandlersInv(x, todo, from), NEW h, h = Head(todo),
         NEW t, t = Tail(todo), NEW f, f = Dropped(todo, from)
  PROVE  /\ <<h.child, Mark(h, from[1])>> \in Left(x, todo, from)
         /\ Left(x, t, f) \subseteq Left(x, todo, from) \ {<<h.child, Mark(h, from[1])>>}
<1>1. /\ 0 \in Lists /\ 1 \in Places(x, todo, 0) /\ Listed(x, todo, 0)[1] = h
      /\ Origin(from, 0, 1) = from[1]
  BY TailPlaces DEF Origin
<1>2. <<h.child, Mark(h, from[1])>> \in Left(x, todo, from)
  BY <1>1, LeftMeans
<1>3. Spoken(x, t, f, h.child, Mark(h, from[1]))
  BY TailHandlers
<1>4. ASSUME NEW key \in Left(x, t, f)
      PROVE  key \in Left(x, todo, from) /\ key # <<h.child, Mark(h, from[1])>>
  <2>1. PICK a \in Lists : \E i \in Places(x, t, a) :
          key = <<Listed(x, t, a)[i].child, Mark(Listed(x, t, a)[i], Origin(f, a, i))>>
    BY LeftMeans
  <2>2. PICK i \in Places(x, t, a) :
          key = <<Listed(x, t, a)[i].child, Mark(Listed(x, t, a)[i], Origin(f, a, i))>>
    BY <2>1
  <2> DEFINE j == Was(a, i)
  <2>3. /\ j \in Places(x, todo, a) /\ Listed(x, t, a)[i] = Listed(x, todo, a)[j]
        /\ Origin(f, a, i) = Origin(from, a, j)
    BY TailPlaces
  <2> HIDE DEF j
  <2>4. key \in Left(x, todo, from)
    BY <2>2, <2>3, LeftMeans
  <2>5. key # <<h.child, Mark(h, from[1])>>
    BY <1>3, <2>2 DEF Spoken
  <2> QED BY <2>4, <2>5
<1> QED BY <1>2, <1>4

LEMMA TwoHalves ==
  ASSUME NEW n \in Nat, NEW a \in 1 .. n, NEW b \in 1 .. n, NEW P, NEW Q,
         (IF P THEN a ELSE a + n) = (IF Q THEN b ELSE b + n)
  PROVE  a = b /\ (P <=> Q)
<1>1. CASE P /\ Q
  BY <1>1
<1>2. CASE P /\ ~Q
  BY <1>2
<1>3. CASE ~P /\ Q
  BY <1>3
<1>4. CASE ~P /\ ~Q
  BY <1>4
<1> QED BY <1>1, <1>2, <1>3, <1>4

\* A child has a key for itself, or one for each of its two elements.
LEMMA LeftBounded ==
  ASSUME NEW x \in StateType, NEW todo, Tasks(x, todo), NEW from,
         HandlersInv(x, todo, from), ShapeInv(x)
  PROVE  /\ IsFiniteSet(Left(x, todo, from))
         /\ Cardinality(Left(x, todo, from)) <= MaxHandlers
<1> DEFINE S == Left(x, todo, from)
           First(r) == CHOOSE p \in x.promises[r].elements : TRUE
           number == [key \in S |-> IF key[2] \in {0, First(key[1])} THEN key[1]
                                    ELSE key[1] + MaxPromises]
<1>1. \A key \in S : /\ key = <<key[1], key[2]>> /\ key[1] \in Promises
                     /\ \/ x.promises[key[1]].elements = {} /\ key[2] = 0
                        \/ key[2] \in x.promises[key[1]].elements
  <2> SUFFICES ASSUME NEW key \in S
               PROVE  /\ key = <<key[1], key[2]>> /\ key[1] \in Promises
                      /\ \/ x.promises[key[1]].elements = {} /\ key[2] = 0
                         \/ key[2] \in x.promises[key[1]].elements
    OBVIOUS
  <2>1. PICK a \in Lists : \E i \in Places(x, todo, a) :
          key = <<Listed(x, todo, a)[i].child, Mark(Listed(x, todo, a)[i], Origin(from, a, i))>>
    BY LeftMeans
  <2>2. PICK i \in Places(x, todo, a) :
          key = <<Listed(x, todo, a)[i].child, Mark(Listed(x, todo, a)[i], Origin(from, a, i))>>
    BY <2>1
  <2> DEFINE h == Listed(x, todo, a)[i]
             o == Origin(from, a, i)
  <2>3. HandlerFits(x, h, o) /\ h.child \in Promises
    BY HandlerTypes DEF HandlersInv
  <2> HIDE DEF h, o
  <2>4. key = <<h.child, Mark(h, o)>>
    BY <2>2 DEF h, o
  <2>5. key[1] = h.child /\ key[2] = Mark(h, o)
    BY <2>4
  <2> QED BY <2>3, <2>4, <2>5 DEF HandlerFits, Mark
<1>2. \A r \in Promises : x.promises[r].elements # {} =>
        /\ First(r) \in x.promises[r].elements
        /\ \E p, q \in x.promises[r].elements : x.promises[r].elements = {p, q}
  BY DEF ShapeInv
<1>3. \A r \in Promises : x.promises[r].elements \in SUBSET Promises /\ 0 \notin Promises
  BY SettlementAssumption DEF StateType, PromiseType, Promises
<1>4. MaxPromises \in Nat /\ Promises = 1 .. MaxPromises
  BY SettlementAssumption DEF Promises
<1> HIDE DEF S, First
<1>5. \A key \in S : number[key] \in 1 .. MaxHandlers
  BY <1>1, <1>4 DEF MaxHandlers
<1>6. ASSUME NEW k \in S, NEW l \in S, number[k] = number[l]
      PROVE  k = l
  <2>1. /\ k[1] \in 1 .. MaxPromises /\ l[1] \in 1 .. MaxPromises
        /\ number[k] = IF k[2] \in {0, First(k[1])} THEN k[1] ELSE k[1] + MaxPromises
        /\ number[l] = IF l[2] \in {0, First(l[1])} THEN l[1] ELSE l[1] + MaxPromises
    BY <1>1, <1>4
  <2> DEFINE P == k[2] \in {0, First(k[1])}
             Q == l[2] \in {0, First(l[1])}
  <2>2. k[1] = l[1] /\ (k[2] \in {0, First(k[1])} <=> l[2] \in {0, First(k[1])})
    <3>1. (IF P THEN k[1] ELSE k[1] + MaxPromises) = (IF Q THEN l[1] ELSE l[1] + MaxPromises)
      BY <1>6, <2>1
    <3>2. k[1] \in 1 .. MaxPromises /\ l[1] \in 1 .. MaxPromises /\ MaxPromises \in Nat
      BY <1>4, <2>1
    <3> DEFINE a == k[1]
               b == l[1]
    <3> HIDE DEF P, Q, a, b
    <3>3. a = b /\ (P <=> Q)
      BY <3>1, <3>2, TwoHalves DEF a, b
    <3> QED BY <3>3 DEF P, Q, a, b
  <2>3. \A r, m, n : /\ r \in Promises /\ (m \in {0, First(r)} <=> n \in {0, First(r)})
                     /\ \/ x.promises[r].elements = {} /\ m = 0
                        \/ m \in x.promises[r].elements
                     /\ \/ x.promises[r].elements = {} /\ n = 0
                        \/ n \in x.promises[r].elements
                     => m = n
    <3> SUFFICES ASSUME NEW r \in Promises, NEW m, NEW n,
                        m \in {0, First(r)} <=> n \in {0, First(r)},
                        \/ x.promises[r].elements = {} /\ m = 0
                        \/ m \in x.promises[r].elements,
                        \/ x.promises[r].elements = {} /\ n = 0
                        \/ n \in x.promises[r].elements
                 PROVE  m = n
      OBVIOUS
    <3>4. CASE x.promises[r].elements = {}
      BY <3>4
    <3>5. CASE x.promises[r].elements # {}
      <4>1. PICK p, q \in x.promises[r].elements : x.promises[r].elements = {p, q}
        BY <1>2, <3>5
      <4>2. First(r) \in {p, q} /\ m \in {p, q} /\ n \in {p, q}
        BY <1>2, <3>5, <4>1
      <4>3. m # 0 /\ n # 0
        BY <1>3, <3>5
      <4> QED BY <4>2, <4>3
    <3> QED BY <3>4, <3>5
  <2>4. k[2] = l[2]
    BY <1>1, <2>2, <2>3
  <2> QED BY <1>1, <2>2, <2>4
<1>7. number \in [S -> 1 .. MaxHandlers]
  BY <1>5
<1> HIDE DEF number
<1>8. number \in Injection(S, 1 .. MaxHandlers)
  BY <1>6, <1>7 DEF Injection, IsInjective
<1>9. MaxHandlers \in Nat
  BY <1>4 DEF MaxHandlers
<1>10. IsFiniteSet(1 .. MaxHandlers) /\ Cardinality(1 .. MaxHandlers) = MaxHandlers
  BY <1>9, FS_Interval
<1>11. IsFiniteSet(S) /\ Cardinality(S) <= MaxHandlers
  BY <1>8, <1>10, FS_Injection
<1> QED BY <1>11 DEF S

\* A cascade that keeps the invariant, and has at most n handlers still to run
Cascading(w, leaving, n) ==
  \E from : /\ NoticeInv(w.drone, w.todo, from, leaving)
            /\ w.todo # <<>> =>
                 /\ IsFiniteSet(Left(w.drone, w.todo, from))
                 /\ Cardinality(Left(w.drone, w.todo, from)) <= n

\* One handler, the first of todo.  The list is w.todo of a state w afterwards.
LEMMA HandledNotices ==
  ASSUME NEW x \in StateType, NEW D, Inv(x, D), NEW todo, Tasks(x, todo), todo # <<>>,
         NEW from, NEW leaving, NoticeInv(x, todo, from, leaving),
         NEW w, w = Handled(x, Head(todo), Tail(todo))
  PROVE  \E f : /\ NoticeInv(w.drone, w.todo, f, leaving)
                /\ Left(w.drone, w.todo, f) \subseteq Left(x, Tail(todo), Dropped(todo, from))
<1> DEFINE h == Head(todo)
           t == Tail(todo)
           f == Dropped(todo, from)
           o == from[1]
           q == h.child
<1>1. /\ HandlersInv(x, todo, from) /\ SourcesInv(x, todo, leaving) /\ ShapeInv(x)
      /\ \A r \in Promises : ResultInv(x, todo, from, r)
      /\ PromiseInv(x) /\ CtxInv(x) /\ WaiterInv(x)
  BY DEF NoticeInv, Inv
<1>3. /\ Tasks(x, t) /\ h \in TaskType /\ q \in Promises
      /\ h.kind \in {"pass", "spawn", "race", "all"}
      /\ 0 \in Lists /\ 1 \in Places(x, todo, 0) /\ Listed(x, todo, 0)[1] = h
  BY TailPlaces DEF TaskType
<1>4. SourcesInv(x, t, leaving)
  BY <1>1, TailSources
<1>r. \A a, b : w = [drone |-> a, todo |-> b] => w.drone = a /\ w.todo = b
  OBVIOUS
<1>w. /\ w = Handled(x, h, t)
      /\ h = Head(todo) /\ t = Tail(todo) /\ f = Dropped(todo, from)
  OBVIOUS
<1> HIDE DEF h, t, f
<1>2. /\ HandlersInv(x, t, f) /\ HandlerFits(x, h, o) /\ o \in Promises
      /\ h.status \in Status /\ x.promises[o].status = h.status
      /\ Spoken(x, t, f, q, Mark(h, o))
  <2>1. /\ HandlersInv(x, t, f)
        /\ HandlerFits(x, h, from[1]) /\ from[1] \in Promises
        /\ h.status \in Status /\ x.promises[from[1]].status = h.status
        /\ Spoken(x, t, f, h.child, Mark(h, from[1]))
    <3>1. HandlersInv(x, t, f)
      BY <1>w, <1>1, TailHandlers
    <3>2. HandlerFits(x, h, from[1])
      BY <1>w, <1>1, TailHandlers
    <3>3. from[1] \in Promises /\ h.status \in Status /\ x.promises[from[1]].status = h.status
      BY <1>w, <1>1, TailHandlers
    <3>4. Spoken(x, t, f, h.child, Mark(h, from[1]))
      BY <1>w, <1>1, TailHandlers
    <3> QED BY <3>1, <3>2, <3>3, <3>4
  <2> QED BY <2>1 DEF q, o
<1>5. \A r \in Promises : Single(h) \/ r # q \/ x.promises[r].status # "pending"
        => ResultInv(x, t, f, r)
  BY <1>w, <1>1, TailResults DEF q
<1>6. x.promises[q].elements \in SUBSET Promises
  BY <1>3 DEF StateType, PromiseType
<1>u. /\ \A p : Single(h) \/ p # o => (Unheard(x, t, f, q, p) <=> Unheard(x, todo, from, q, p))
      /\ ~Single(h) => Unheard(x, todo, from, q, o) /\ ~Unheard(x, t, f, q, o)
  BY <1>w, <1>1, TailUnheard DEF q, o
<1> HIDE DEF o, q
<1>7. ASSUME NEW status \in Status, w = Settling(x, q, status, t),
             Unsettled(x, t, f, leaving, q, status)
      PROVE  \E g : /\ NoticeInv(w.drone, w.todo, g, leaving)
                    /\ Left(w.drone, w.todo, g) \subseteq Left(x, t, f)
  <2>1. Pops(x, w.drone, q, status)
    BY <1>1, <1>3, <1>7, SettlesWaiters, SettlesPops
  <2>2. w.todo = Popping(x, q, status, t)
    BY <1>7 DEF Settling, Popping
  <2>3. NoticeInv(w.drone, w.todo, PoppingFrom(x, q, t, f), leaving)
    BY <1>1, <1>3, <1>7, <2>1, <2>2, PoppingNotices
  <2>4. Left(w.drone, w.todo, PoppingFrom(x, q, t, f)) \subseteq Left(x, t, f)
    BY <1>3, <2>1, <2>2, LeftPopping
  <2> QED BY <2>3, <2>4
<1>8. CASE Single(h)
  <2>1. x.promises[q].elements = {} /\ x.promises[q].status = "pending" /\ Mark(h, o) = 0
    BY <1>2, <1>8 DEF HandlerFits, Mark, q
  <2>2. SoleSource(x, t, q)
    BY <1>2, <2>1 DEF SoleSource, Spoken, Mark
  <2>3. ~SoleSource(x, todo, q)
    BY <1>3, <1>8 DEF SoleSource, q
  <2>4. q # None
    BY <1>3, SettlementAssumption DEF Promises, None
  <2>5. /\ \A c \in Contexts \ leaving : x.ctx[c].owes # q
        /\ \A e \in 1 .. Entries : x.linked[e].live /\ x.linked[e].ctx = None =>
             x.linked[e].promise # q
    BY <1>1, <2>3, <2>4 DEF SourcesInv
  <2>6. NoticeInv(x, t, f, leaving)
    BY <1>1, <1>2, <1>4, <1>5, <1>8 DEF NoticeInv
  <2>7. CASE h.kind = "pass"
    <3>1. w = Settling(x, q, h.status, t)
      BY <1>w, <2>7 DEF Handled, q
    <3>2. Unsettled(x, t, f, leaving, q, h.status)
      BY <2>1, <2>2, <2>5, <2>6 DEF Unsettled, NoticeInv, SoleSource
    <3> QED BY <1>2, <1>7, <3>1, <3>2 DEF t, f
  <2>8. CASE h.kind = "spawn"
    <3>0. w = [drone |-> Allocated(x, q, FALSE), todo |-> t]
      BY <1>w, <2>8 DEF Handled, q
    <3>1. w.drone = Allocated(x, q, FALSE) /\ w.todo = t
      BY <3>0, <1>r
    <3>2. NoticeInv(w.drone, w.todo, f, leaving)
      BY <1>1, <1>3, <2>1, <2>2, <2>5, <2>6, <3>1, AllocatedNotices
    <3>3. \A a \in Lists : Listed(w.drone, t, a) = Listed(x, t, a)
                             /\ Places(w.drone, t, a) = Places(x, t, a)
      <4>1. w.drone.promises = x.promises
        <5> DEFINE y == Allocated(x, q, FALSE)
        <5>1. CASE FreeContexts(x) = {}
          BY <3>1, <5>1 DEF Allocated
        <5>2. CASE FreeContexts(x) # {}
          <6>1. q \in {None} \cup Promises /\ FALSE \in BOOLEAN
            BY <1>3
          <6>2. y = Allocated(x, q, FALSE)
            OBVIOUS
          <6> HIDE DEF y
          <6>3. y.promises = x.promises
            BY <5>2, <6>1, <6>2, AllocatedFields
          <6> QED BY <3>1, <6>2, <6>3
        <5> QED BY <5>1, <5>2
      <4> QED BY <4>1 DEF Listed, Places
    <3>4. Left(w.drone, w.todo, f) = Left(x, t, f)
      BY <3>1, <3>3 DEF Left
    <3> QED BY <3>2, <3>4 DEF t, f
  <2> QED BY <1>8, <2>7, <2>8 DEF Single
<1>9. CASE ~Single(h)
  <2>1. /\ o \in x.promises[q].elements
        /\ h.kind = IF x.promises[q].race THEN "race" ELSE "all"
    BY <1>2, <1>9 DEF HandlerFits, q
  <2>2. \A a \in Lists : \A i \in Places(x, t, a) :
          Single(Listed(x, t, a)[i]) => Listed(x, t, a)[i].child # q
    BY <1>2, <2>1 DEF HandlersInv, HandlerFits
  <2>3. ~SoleSource(x, t, q)
    BY <2>1 DEF SoleSource
  <2>4. q # None
    BY <1>3, SettlementAssumption DEF Promises, None
  <2>5. \A c \in Contexts \ leaving : x.ctx[c].owes # q
    BY <1>4, <2>3, <2>4 DEF SourcesInv
  <2>6. ASSUME NEW status \in Status, x.promises[q].status = "pending", Told(x, q, status)
        PROVE  Unsettled(x, t, f, leaving, q, status)
    BY <1>1, <1>2, <1>4, <1>5, <2>2, <2>5, <2>6 DEF Unsettled
  <2>7. CASE x.promises[q].status # "pending"
    <3>1. w = [drone |-> x, todo |-> t]
      BY <1>w, <2>1, <2>7 DEF Handled, q
    <3>2. NoticeInv(x, t, f, leaving)
      BY <1>1, <1>2, <1>4, <1>5, <2>7 DEF NoticeInv
    <3>3. w.drone = x /\ w.todo = t
      BY <3>1
    <3> QED BY <3>2, <3>3 DEF t, f
  <2>8. CASE x.promises[q].status = "pending" /\ x.promises[q].race
    <3>1. w = Settling(x, q, h.status, t)
      BY <1>w, <2>1, <2>8 DEF Handled, q
    <3>2. Told(x, q, h.status)
      BY <1>2, <2>1, <2>8 DEF Told
    <3> QED BY <1>2, <1>7, <2>6, <2>8, <3>1, <3>2 DEF t, f
  <2>9. CASE x.promises[q].status = "pending" /\ ~x.promises[q].race /\ h.status = "rejected"
    <3>1. w = Settling(x, q, "rejected", t)
      BY <1>w, <2>1, <2>9 DEF Handled, q
    <3>2. Told(x, q, "rejected")
      BY <1>2, <2>1, <2>9 DEF Told
    <3>3. "rejected" \in Status
      BY DEF Status
    <3> QED BY <1>7, <2>6, <2>9, <3>1, <3>2, <3>3 DEF t, f
  <2>10. CASE x.promises[q].status = "pending" /\ ~x.promises[q].race /\ h.status = "resolved"
    <3> DEFINE a == x.promises[q]
    <3>1. Awaits(x, todo, from, q)
      BY <1>1, <1>3, <2>1, <2>10 DEF ResultInv
    <3>2. /\ a.remaining \in {1, 2}
          /\ \A p \in a.elements :
               Unheard(x, todo, from, q, p) \/ x.promises[p].status = "resolved"
          /\ \A p, s \in a.elements : p # s =>
               (a.remaining = 2 <=> Unheard(x, todo, from, q, p) /\ Unheard(x, todo, from, q, s))
      BY <2>10, <3>1 DEF Awaits
    <3>3. PICK p, s \in a.elements : p # s /\ a.elements = {p, s}
      BY <1>1, <1>3, <2>1 DEF ShapeInv
    <3>4. PICK m \in a.elements : m # o /\ a.elements = {o, m}
      BY <2>1, <3>3
    <3>5. x.promises[o].status = "resolved" /\ o \in Promises /\ m \in Promises
      BY <1>2, <1>6, <2>10
    <3>6. CASE a.remaining = 1
      <4>1. w = Settling(x, q, "resolved", t)
        <5>1. h.kind = "all" /\ h.status # "rejected" /\ x.promises[h.child].remaining = 1
              /\ x.promises[h.child].status = "pending"
          BY <2>1, <2>10, <3>6 DEF q
        <5> QED BY <1>w, <5>1 DEF Handled, q
      <4>2. ~Unheard(x, todo, from, q, m)
        BY <1>u, <1>9, <2>1, <3>2, <3>4, <3>6
      <4>3. x.promises[m].status = "resolved"
        BY <3>2, <4>2
      <4>4. Told(x, q, "resolved")
        BY <3>4, <3>5, <4>3, <2>10 DEF Told
      <4>5. "resolved" \in Status
        BY DEF Status
      <4> QED BY <1>7, <2>6, <2>10, <4>1, <4>4, <4>5 DEF t, f
    <3>7. CASE a.remaining # 1
      <4> DEFINE y == [x EXCEPT !.promises[q].remaining = @ - 1]
      <4>1. w = [drone |-> y, todo |-> t]
        <5>1. h.kind = "all" /\ h.status # "rejected" /\ x.promises[h.child].remaining # 1
              /\ x.promises[h.child].status = "pending"
          BY <2>1, <2>10, <3>7 DEF q
        <5> QED BY <1>w, <5>1 DEF Handled, q
      <4>2. a.remaining = 2
        BY <3>2, <3>7
      <4>3. /\ y.ctx = x.ctx /\ y.linked = x.linked
            /\ y.promises = [x.promises EXCEPT ![q] = [a EXCEPT !.remaining = @ - 1]]
        BY DEF StateType
      <4>4. x.promises \in [Promises -> PromiseType] /\ a \in PromiseType
        BY <1>3 DEF StateType
      <4> HIDE DEF y
      <4>5. /\ \A r \in Promises : r # q => y.promises[r] = x.promises[r]
            /\ y.promises[q] = [a EXCEPT !.remaining = @ - 1]
        BY <1>3, <4>3, <4>4
      <4>6. /\ y.promises[q].status = a.status /\ y.promises[q].handlers = a.handlers
            /\ y.promises[q].elements = a.elements /\ y.promises[q].race = a.race
            /\ y.promises[q].remaining = 1
        BY <4>2, <4>4, <4>5 DEF PromiseType
      <4>7. Alike(x, y)
        BY <4>5, <4>6 DEF Alike
      <4>8. /\ HandlersInv(y, t, f) /\ ShapeInv(y)
            /\ \A r \in Promises : SoleSource(x, t, r) => SoleSource(y, t, r)
            /\ \A r, p1 : Unheard(y, t, f, r, p1) <=> Unheard(x, t, f, r, p1)
            /\ \A r \in Promises : r # q => ResultInv(y, t, f, r)
        BY <1>1, <1>2, <1>3, <1>5, <4>5, <4>7, AlikeKeeps
      <4>9. SourcesInv(y, t, leaving)
        <5>1. \A c \in Contexts : x.ctx[c].owes # None => x.ctx[c].owes \in Promises
          BY <1>1, SourceTypes
        <5>2. \A e \in 1 .. Entries : x.linked[e].live /\ x.linked[e].ctx = None =>
                x.linked[e].promise \in Promises
          BY <1>1, SourceTypes
        <5>3. \A r \in Promises : y.promises[r].status = x.promises[r].status
          BY <4>7 DEF Alike
        <5> QED BY <1>4, <4>3, <4>8, <5>1, <5>2, <5>3 DEF SourcesInv
      <4>10. Awaits(y, t, f, q)
        <5>1. ~Unheard(y, t, f, q, o) /\ Unheard(y, t, f, q, m)
          BY <1>u, <1>9, <2>1, <3>2, <3>4, <4>2, <4>8
        <5>2. y.promises[o].status = "resolved"
          BY <3>5, <4>7 DEF Alike
        <5>3. /\ y.promises[q].elements = {o, m} /\ ~y.promises[q].race
              /\ y.promises[q].remaining = 1
          BY <2>10, <3>4, <4>6
        <5> QED BY <5>1, <5>2, <5>3 DEF Awaits
      <4>11. ResultInv(y, t, f, q)
        BY <2>10, <4>6, <4>10 DEF ResultInv
      <4>12. NoticeInv(y, t, f, leaving)
        BY <4>8, <4>9, <4>11 DEF NoticeInv
      <4>13. \A b \in Lists : Listed(y, t, b) = Listed(x, t, b) /\ Places(y, t, b) = Places(x, t, b)
        BY <4>7, ListOfPromise DEF Alike, Listed, Places
      <4>14. Left(y, t, f) = Left(x, t, f)
        BY <4>13 DEF Left
      <4>15. w.drone = y /\ w.todo = t
        BY <4>1
      <4> QED BY <4>12, <4>14, <4>15 DEF t, f
    <3> QED BY <3>6, <3>7
  <2> QED BY <1>2, <2>7, <2>8, <2>9, <2>10 DEF Status
<1> QED BY <1>8, <1>9

(***************************************************************************)
(* A whole cascade                                                         *)
(***************************************************************************)
\* Nothing is left to run, and the invariant holds.
Rests(x, leaving) == \E from : NoticeInv(x, <<>>, from, leaving)

LEMMA HandledNextCascades ==
  ASSUME NEW x, NEW D, NEW w, Reached(x, D, w), NEW leaving, NEW n \in Int,
         Cascading(w, leaving, n)
  PROVE  /\ w.todo # <<>> => n > 0
         /\ Cascading(HandledNext(w), leaving, n - 1)
<1>1. CASE w.todo = <<>>
  <2>1. HandledNext(w) = w
    BY <1>1 DEF HandledNext
  <2> QED BY <1>1, <2>1 DEF Cascading
<1>2. CASE w.todo # <<>>
  <2> DEFINE y == w.drone
             todo == w.todo
             v == HandledNext(w)
  <2>1. PICK from : /\ NoticeInv(y, todo, from, leaving)
                    /\ IsFiniteSet(Left(y, todo, from))
                    /\ Cardinality(Left(y, todo, from)) <= n
    BY <1>2 DEF Cascading
  <2>2. y \in StateType /\ Inv(y, D) /\ Tasks(y, todo)
    BY DEF Reached, Cascades
  <2>3. v = Handled(y, Head(todo), Tail(todo))
    BY <1>2 DEF HandledNext
  <2>4. todo # <<>>
    BY <1>2
  <2>5. HandlersInv(y, todo, from)
    BY <2>1 DEF NoticeInv
  <2> HIDE DEF y, todo, v
  <2>6. PICK f : /\ NoticeInv(v.drone, v.todo, f, leaving)
                 /\ Left(v.drone, v.todo, f) \subseteq Left(y, Tail(todo), Dropped(todo, from))
    BY <2>1, <2>2, <2>3, <2>4, HandledNotices
  <2> DEFINE S == Left(y, todo, from)
             T == Left(v.drone, v.todo, f)
  <2>7. PICK key : key \in S /\ T \subseteq S \ {key}
    <3> DEFINE h == Head(todo)
               t == Tail(todo)
               g == Dropped(todo, from)
               k == <<h.child, Mark(h, from[1])>>
    <3>1. h = Head(todo) /\ t = Tail(todo) /\ g = Dropped(todo, from)
      OBVIOUS
    <3> HIDE DEF h, t, g
    <3>2. k \in Left(y, todo, from) /\ Left(y, t, g) \subseteq Left(y, todo, from) \ {k}
      BY <2>2, <2>4, <2>5, <3>1, LeftTail
    <3> QED BY <2>6, <3>1, <3>2
  <2> HIDE DEF S, T
  <2>8. IsFiniteSet(S) /\ Cardinality(S) <= n /\ Cardinality(S) \in Nat
    BY <2>1, FS_CardinalityType DEF S
  <2>9. IsFiniteSet(S \ {key}) /\ Cardinality(S \ {key}) = Cardinality(S) - 1
        /\ Cardinality(S \ {key}) \in Nat
    BY <2>7, <2>8, FS_RemoveElement, FS_CardinalityType
  <2>10. IsFiniteSet(T) /\ Cardinality(T) <= Cardinality(S \ {key}) /\ Cardinality(T) \in Nat
    BY <2>7, <2>9, FS_Subset, FS_CardinalityType
  <2>11. n > 0 /\ Cardinality(T) <= n - 1
    BY <2>8, <2>9, <2>10
  <2>12. Cascading(v, leaving, n - 1)
    BY <2>6, <2>10, <2>11 DEF Cascading, T
  <2> QED BY <2>11, <2>12 DEF v
<1> QED BY <1>1, <1>2

LEMMA AllHandledNotices ==
  ASSUME NEW x, NEW D, NEW w, Reached(x, D, w), NEW from, NEW leaving,
         NoticeInv(w.drone, w.todo, from, leaving)
  PROVE  Rests(AllHandled(w), leaving)
<1> DEFINE N == MaxHandlers
<1>1. N \in Nat
  BY SettlementAssumption DEF MaxHandlers
<1>2. PICK f : /\ f[0] = w /\ \A i \in 1 .. N : f[i] = HandledNext(f[i - 1])
               /\ AllHandled(w) = f[N].drone
  BY AllHandledRuns
<1>3. Cascading(w, leaving, N)
  <2>1. w.drone \in StateType /\ Tasks(w.drone, w.todo)
    BY DEF Reached, Cascades
  <2>2. /\ IsFiniteSet(Left(w.drone, w.todo, from))
        /\ Cardinality(Left(w.drone, w.todo, from)) <= N
    BY <2>1, LeftBounded DEF NoticeInv
  <2> QED BY <2>2 DEF Cascading
<1> HIDE DEF N
<1>4. \A n \in 0 .. N : Reached(x, D, f[n]) /\ Cascading(f[n], leaving, N - n)
  <2> DEFINE bad == {n \in 0 .. N : ~(Reached(x, D, f[n]) /\ Cascading(f[n], leaving, N - n))}
  <2>1. SUFFICES ASSUME bad # {} PROVE FALSE
    OBVIOUS
  <2>2. bad \in SUBSET Nat
    BY <1>1
  <2>3. PICK n \in bad : \A k \in bad : n <= k
    BY <2>1, <2>2, LeastNat
  <2>4. n \in 0 .. N /\ ~(Reached(x, D, f[n]) /\ Cascading(f[n], leaving, N - n))
    OBVIOUS
  <2>5. n # 0
    <3>1. N - 0 = N
      BY <1>1
    <3> QED BY <1>2, <1>3, <2>4, <3>1
  <2>6. n \in 1 .. N /\ n - 1 \in 0 .. N /\ n - 1 < n
    BY <1>1, <2>4, <2>5
  <2>7. Reached(x, D, f[n - 1]) /\ Cascading(f[n - 1], leaving, N - (n - 1))
    <3>1. n - 1 \notin bad
      BY <2>3, <2>6
    <3> QED BY <2>6, <3>1
  <2>8. N - (n - 1) \in Int /\ (N - (n - 1)) - 1 = N - n
    BY <1>1, <2>6
  <2>9. Reached(x, D, f[n])
    BY <1>2, <2>6, <2>7, HandledNextKeeps
  <2>10. Cascading(HandledNext(f[n - 1]), leaving, (N - (n - 1)) - 1)
    BY <2>7, <2>8, HandledNextCascades
  <2>11. Cascading(f[n], leaving, N - n)
    BY <1>2, <2>6, <2>8, <2>10
  <2> QED BY <2>4, <2>9, <2>11
<1>5. Reached(x, D, f[N]) /\ Cascading(f[N], leaving, 0)
  <2>1. N \in 0 .. N /\ N - N = 0
    BY <1>1
  <2>2. Reached(x, D, f[N]) /\ Cascading(f[N], leaving, N - N)
    BY <1>4, <2>1
  <2> QED BY <2>1, <2>2
<1>6. f[N].todo = <<>>
  <2>1. 0 \in Int /\ ~(0 > 0)
    OBVIOUS
  <2> QED BY <1>5, <2>1, HandledNextCascades
<1>7. \E g : NoticeInv(f[N].drone, <<>>, g, leaving)
  BY <1>5, <1>6 DEF Cascading
<1> QED BY <1>2, <1>7 DEF Rests

\* Promise p, which nothing else is to settle, is settled.
LEMMA SettledAsRests ==
  ASSUME NEW x \in StateType, NEW D, Inv(x, D), NEW from, NEW leaving,
         NEW p \in Promises, Made(x, p), NEW status \in Status,
         Unsettled(x, <<>>, from, leaving, p, status)
  PROVE  Rests(SettledAs(x, p, status), leaving)
<1> DEFINE w == Settling(x, p, status, <<>>)
<1>1. Tasks(x, <<>>)
  BY EmptySeq DEF Tasks
<1>2. PromiseInv(x) /\ CtxInv(x) /\ WaiterInv(x)
  BY DEF Inv
<1>3. Pops(x, w.drone, p, status)
  BY <1>2, SettlesWaiters, SettlesPops
<1>4. w.todo = Popping(x, p, status, <<>>)
  BY DEF Settling, Popping
<1>5. Reached(x, D, w)
  BY <1>1, SettlingKeeps DEF Reached
<1>6. SettledAs(x, p, status) = AllHandled(w)
  BY DEF SettledAs
<1> HIDE DEF w
<1>7. NoticeInv(w.drone, w.todo, PoppingFrom(x, p, <<>>, from), leaving)
  BY <1>1, <1>2, <1>3, <1>4, PoppingNotices
<1> QED BY <1>5, <1>6, <1>7, AllHandledNotices

\* The handlers of a settled promise are popped.
LEMMA ProcessHandlersRests ==
  ASSUME NEW x \in StateType, NEW D, NEW from, NEW leaving, NEW p \in Promises,
         Inv(HandlersPopped(x, p), D), HandlersPopped(x, p) \in StateType,
         x.promises[p].status \in Status,
         NoticeInv(HandlersPopped(x, p), Popped(x, p, x.promises[p].status), from, leaving),
         Tasks(HandlersPopped(x, p), Popped(x, p, x.promises[p].status))
  PROVE  Rests(ProcessHandlers(x, p), leaving)
<1> DEFINE y == HandlersPopped(x, p)
           w == [drone |-> y, todo |-> Popped(x, p, x.promises[p].status)]
<1>1. Cascades(y, y)
  BY DEF Cascades
<1>2. Reached(y, D, w)
  BY <1>1 DEF Reached
<1>3. ProcessHandlers(x, p) = AllHandled(w)
  BY DEF ProcessHandlers
<1>4. NoticeInv(w.drone, w.todo, from, leaving)
  OBVIOUS
<1> HIDE DEF w
<1> QED BY <1>2, <1>3, <1>4, AllHandledNotices

(***************************************************************************)
(* What every action leaves at rest: the steps that settle.                *)
(***************************************************************************)
LEMMA NoTasks ==
  ASSUME NEW x
  PROVE  Tasks(x, <<>>)
BY EmptySeq DEF Tasks

LEMMA FadesRests ==
  ASSUME NEW x, Good(x), NEW y, Fades(x, y), NEW leaving, Rests(x, leaving)
  PROVE  Rests(y, leaving)
<1>1. PICK from : NoticeInv(x, <<>>, from, leaving)
  BY DEF Rests
<1>2. x \in StateType /\ PromiseInv(x)
  BY DEF Good, Inv
<1>3. NoticeInv(y, <<>>, from, leaving)
  BY <1>1, <1>2, NoTasks, FadesKeeps DEF NoticeInv
<1> QED BY <1>3 DEF Rests

LEMMA InitRests ==
  Init => Rests(st, {})
<1> SUFFICES ASSUME Init PROVE Rests(st, {})
  OBVIOUS
<1>1. \A p \in Promises : st.promises[p] = NoPromise
  BY DEF Init
<1>2. \A e \in 1 .. Entries : ~st.linked[e].live
  BY DEF Init, NoEntry
<1>3. \A c \in Contexts : st.ctx[c].owes = None
  BY DEF Init, Unused
<1>4. \A a \in Lists : Places(st, <<>>, a) = {}
  BY <1>1, ListOfPromise DEF Places, Listed, NoPromise
<1>5. <<>> \in [DOMAIN <<>> -> Promises] /\ DOMAIN <<>> = {}
  OBVIOUS
<1>6. HandlersInv(st, <<>>, <<>>)
  BY <1>4, <1>5 DEF HandlersInv
<1>7. SourcesInv(st, <<>>, {})
  BY <1>2, <1>3 DEF SourcesInv
<1>8. \A p \in Promises : st.promises[p].elements = {}
  BY <1>1 DEF NoPromise
<1>9. ShapeInv(st) /\ \A r \in Promises : ResultInv(st, <<>>, <<>>, r)
  BY <1>8 DEF ShapeInv, ResultInv
<1> QED BY <1>6, <1>7, <1>9 DEF NoticeInv, Rests

\* A pending promise whose only sources are executors, or have left
LEMMA AloneUnsettled ==
  ASSUME NEW x, NEW from, NEW leaving, NoticeInv(x, <<>>, from, leaving),
         NEW p \in Promises, x.promises[p].status = "pending", SoleSource(x, <<>>, p),
         \A c \in Contexts \ leaving : x.ctx[c].owes = p => x.ctx[c].executor,
         NEW status
  PROVE  Unsettled(x, <<>>, from, leaving, p, status)
BY DEF Unsettled, NoticeInv, SoleSource

LEMMA SettleOwnRests ==
  ASSUME Good(st), Rests(st, {}), NEW c \in Contexts, NEW p \in Promises,
         NEW status \in Status, SettleOwn(c, p, status)
  PROVE  Rests(st', {})
<1> DEFINE x == Begun(st, c)
<1>1. /\ Runnable(c) /\ st.promises[p].status = "pending" /\ st' = SettledAs(x, p, status)
      /\ \E d \in Contexts : st.ctx[d].owes = p /\ st.ctx[d].executor
  BY DEF SettleOwn
<1>2. Good(x) /\ x.promises = st.promises /\ Runs(st, x, c) /\ Fades(st, x)
  BY <1>1, BegunGood
<1> HIDE DEF x
<1>3. PICK d \in Contexts : x.ctx[d].owes = p /\ x.ctx[d].executor
  BY <1>1, <1>2 DEF Runs
<1>4. Rests(x, {})
  BY <1>2, FadesRests
<1>5. PICK from : NoticeInv(x, <<>>, from, {})
  BY <1>4 DEF Rests
<1>6. p # None
  BY SettlementAssumption DEF Promises, None
<1>7. SoleSource(x, <<>>, p) /\ \A b \in Contexts : x.ctx[b].owes = p => x.ctx[b].executor
  BY <1>3, <1>5, <1>6 DEF NoticeInv, SourcesInv
<1>8. Unsettled(x, <<>>, from, {}, p, status)
  BY <1>1, <1>2, <1>5, <1>7, AloneUnsettled
<1>9. Made(x, p)
  BY <1>1, <1>2 DEF Made
<1> QED BY <1>1, <1>2, <1>8, <1>9, SettledAsRests DEF Good

\* The context that has settled its promise is gone.
LEMMA FreedRests ==
  ASSUME NEW x, Good(x), NEW c \in Contexts, Rests(x, {c}), NEW y, y = Freed(x, c)
  PROVE  Rests(y, {})
<1>1. PICK from : NoticeInv(x, <<>>, from, {c})
  BY DEF Rests
<1>2. x \in StateType /\ PromiseInv(x)
  BY DEF Good, Inv
<1>3. /\ \A d \in Contexts : d # c => y.ctx[d] = x.ctx[d]
      /\ y.ctx[c].owes = None /\ y.linked = x.linked /\ y.promises = x.promises
  BY <1>2, FreedFields
<1>4. Fades(x, y)
  BY <1>3 DEF Fades
<1>5. NoticeInv(y, <<>>, from, {c})
  BY <1>1, <1>2, <1>4, NoTasks, FadesKeeps DEF NoticeInv
<1>6. SourcesInv(y, <<>>, {c}) => SourcesInv(y, <<>>, {})
  <2> SUFFICES ASSUME SourcesInv(y, <<>>, {c}) PROVE SourcesInv(y, <<>>, {})
    OBVIOUS
  <2>1. ASSUME NEW d \in Contexts, y.ctx[d].owes # None
        PROVE  d \in Contexts \ {c}
    BY <1>3, <2>1
  <2>2. ASSUME NEW e \in 1 .. Entries, y.linked[e].live, y.linked[e].ctx = None
        PROVE  y.linked[e].promise # None
    <3>1. x.linked[e].promise \in Promises
      BY <1>2, <1>3, <2>2, SourceTypes
    <3> QED BY <1>3, <3>1, SettlementAssumption DEF Promises, None
  <2>3. ASSUME NEW d \in Contexts, y.ctx[d].owes # None
        PROVE  /\ SoleSource(y, <<>>, y.ctx[d].owes)
               /\ ~y.ctx[d].executor => y.promises[y.ctx[d].owes].status = "pending"
               /\ \A b \in Contexts : y.ctx[b].owes = y.ctx[d].owes => d = b
    BY <2>1, <2>3 DEF SourcesInv
  <2>4. ASSUME NEW e \in 1 .. Entries, y.linked[e].live, y.linked[e].ctx = None
        PROVE  /\ SoleSource(y, <<>>, y.linked[e].promise)
               /\ \A b \in Contexts : y.ctx[b].owes # y.linked[e].promise
    <3>1. /\ SoleSource(y, <<>>, y.linked[e].promise)
          /\ \A b \in Contexts \ {c} : y.ctx[b].owes # y.linked[e].promise
      BY <2>4 DEF SourcesInv
    <3> QED BY <1>3, <2>2, <2>4, <3>1
  <2> QED BY <2>3, <2>4 DEF SourcesInv
<1>7. NoticeInv(y, <<>>, from, {})
  BY <1>5, <1>6 DEF NoticeInv
<1> QED BY <1>7 DEF Rests

LEMMA FinishRests ==
  ASSUME Good(st), Rests(st, {}), NEW c \in Contexts, NEW status \in Status, Finish(c, status)
  PROVE  Rests(st', {})
<1> DEFINE x == Begun(st, c)
           p == x.ctx[c].owes
<1>1. /\ Runnable(c)
      /\ \/ st' = Freed(x, c)
         \/ /\ p # None /\ (x.ctx[c].executor => x.promises[p].status = "pending")
            /\ st' = Freed(SettledAs(x, p, status), c)
  BY DEF Finish
<1>2. Good(x) /\ x.ctx[c].live /\ x.ctx[c].exit = "run" /\ Fades(st, x)
  BY <1>1, BegunGood
<1> HIDE DEF x
<1>3. Rests(x, {})
  BY <1>2, FadesRests
<1>4. PICK from : NoticeInv(x, <<>>, from, {})
  BY <1>3 DEF Rests
<1>5. NoticeInv(x, <<>>, from, {c})
  BY <1>4 DEF NoticeInv, SourcesInv
<1>6. CASE st' = Freed(x, c)
  BY <1>2, <1>3, <1>6, FreedGood, FadesRests
<1>7. CASE /\ p # None /\ (x.ctx[c].executor => x.promises[p].status = "pending")
           /\ st' = Freed(SettledAs(x, p, status), c)
  <2>1. Made(x, p) /\ p \in Promises
    BY <1>2, <1>7 DEF Good, Inv, PromiseInv, Made
  <2>2. /\ SoleSource(x, <<>>, p) /\ x.promises[p].status = "pending"
        /\ \A d \in Contexts : x.ctx[d].owes = p => c = d
    BY <1>4, <1>7 DEF NoticeInv, SourcesInv
  <2> DEFINE z == SettledAs(x, p, status)
  <2> HIDE DEF p
  <2>3. Unsettled(x, <<>>, from, {c}, p, status)
    BY <1>5, <2>1, <2>2, AloneUnsettled
  <2>4. Rests(z, {c})
    BY <1>2, <2>1, <2>3, SettledAsRests DEF Good
  <2>5. Inv(z, {}) /\ Cascades(x, z)
    BY <1>2, <2>1, SettledAsKeeps DEF Good, Made
  <2>6. st' = Freed(z, c)
    BY <1>7
  <2> HIDE DEF z
  <2>7. Good(z)
    BY <2>5 DEF Good, Cascades
  <2> QED BY <2>4, <2>6, <2>7, FreedRests
<1> QED BY <1>1, <1>6, <1>7

\* An entry that names a promise settles it, as its only source.
LEMMA EntryRests ==
  ASSUME NEW x \in StateType, NEW D, Inv(x, D), Rests(x, {}), NEW e \in 1 .. Entries,
         x.linked[e].live, x.linked[e].ctx = None, NEW p, p = x.linked[e].promise,
         x.promises[p].status = "pending", NEW status \in Status
  PROVE  Rests(SettledAs(x, p, status), {})
<1>1. Made(x, p) /\ p \in Promises
  BY DEF Inv, PromiseInv, Made
<1>2. PICK from : NoticeInv(x, <<>>, from, {})
  BY DEF Rests
<1>3. SoleSource(x, <<>>, p) /\ \A c \in Contexts : x.ctx[c].owes # p
  BY <1>2 DEF NoticeInv, SourcesInv
<1>4. Unsettled(x, <<>>, from, {}, p, status)
  BY <1>1, <1>2, <1>3, AloneUnsettled
<1> QED BY <1>1, <1>4, SettledAsRests

LEMMA SettledBySlotRests ==
  ASSUME NEW x, Good(x), Rests(x, {}), NEW e \in 1 .. Entries, NEW status \in Status,
         NEW y, \/ Fades(x, y)
                \/ /\ x.linked[e].live /\ x.linked[e].ctx = None
                   /\ x.promises[x.linked[e].promise].status = "pending"
                   /\ y = EntryFreed(SettledAs(x, x.linked[e].promise, status), e)
  PROVE  Rests(y, {})
<1> DEFINE p == x.linked[e].promise
           z == SettledAs(x, p, status)
<1>1. CASE Fades(x, y)
  BY <1>1, FadesRests
<1>2. CASE /\ x.linked[e].live /\ x.linked[e].ctx = None
           /\ x.promises[p].status = "pending" /\ y = EntryFreed(z, e)
  <2>1. x \in StateType /\ Inv(x, {})
    BY DEF Good
  <2>2. Made(x, p) /\ p \in Promises
    BY <1>2, <2>1 DEF Inv, PromiseInv, Made
  <2>3. Rests(z, {})
    BY <1>2, <2>1, EntryRests
  <2> HIDE DEF p
  <2>4. Inv(z, {}) /\ Cascades(x, z)
    BY <2>1, <2>2, SettledAsKeeps
  <2> HIDE DEF z
  <2>5. z \in StateType /\ z.linked[e].live /\ FreeInv(z) /\ Good(z)
    BY <1>2, <2>4 DEF Cascades, Inv, Good
  <2>6. /\ y.ctx = z.ctx /\ y.promises = z.promises
        /\ \A f \in 1 .. Entries : y.linked[f] = IF f = e THEN NoEntry ELSE z.linked[f]
    BY <1>2, <2>5, EntryFreedFields
  <2>7. Fades(z, y)
    BY <2>6 DEF Fades, NoEntry
  <2> QED BY <2>3, <2>5, <2>7, FadesRests
<1> QED BY <1>1, <1>2

LEMMA SettleLinkedRests ==
  ASSUME Good(st), Rests(st, {}), NEW s \in st.settlers, NEW status \in Status,
         SettleLinked(s, status)
  PROVE  Rests(st', {})
<1>1. PICK x : /\ Good(x) /\ Fades(st, x)
               /\ \/ Fades(x, st')
                  \/ /\ x.linked[s.entry].live /\ x.linked[s.entry].ctx = None
                     /\ x.promises[x.linked[s.entry].promise].status = "pending"
                     /\ st' = EntryFreed(SettledAs(x, x.linked[s.entry].promise, status), s.entry)
  BY SettleLinkedGood
<1>2. s.entry \in 1 .. Entries
  BY DEF Good, StateType, SettlerType
<1>3. Rests(x, {})
  BY <1>1, FadesRests
<1> QED BY <1>1, <1>2, <1>3, SettledBySlotRests

LEMMA EmbedderSettleRests ==
  ASSUME Good(st), Rests(st, {}), NEW e \in 1 .. Entries, NEW status \in Status,
         EmbedderSettle(e, status)
  PROVE  Rests(st', {})
BY EmbedderSettleGood, SettledBySlotRests

\* The sweep of the entries that a restart left
SweptAtRest(x, n) == Swept(x, n) /\ Rests(x, {})

LEMMA SweptOneRests ==
  ASSUME NEW x, NEW n \in 1 .. Entries, SweptAtRest(x, n - 1)
  PROVE  SweptAtRest(OrphanRejected(x, n), n)
<1> DEFINE D == 1 .. (n - 1)
           y == OrphanRejected(x, n)
           p == x.linked[n].promise
<1>1. Swept(y, n)
  BY SweptOne DEF SweptAtRest
<1>2. x \in StateType /\ Inv(x, D) /\ x.settlers = {}
  BY DEF SweptAtRest, Swept
<1> HIDE DEF p
<1>6. n \notin D
  BY SettlementAssumption
<1>3. \/ Fades(x, y)
      \/ /\ x.linked[n].live /\ x.linked[n].ctx = None
         /\ x.promises[p].status = "pending" /\ y = SettledAs(x, p, "rejected")
  <2> HIDE DEF D, y
  <2>1. y = OrphanRejected(x, n)
    BY DEF y
  <2>2. /\ Inv(y, D \cup {n})
        /\ Fades(x, y) \/ (x.linked[n].live /\ x.linked[n].ctx = None)
    BY <1>2, <1>6, <2>1, OrphanRejectedKeeps
  <2>3. /\ Inv(y, D \cup {n})
        /\ Fades(x, y) \/ x.promises[x.linked[n].promise].status = "pending"
    BY <1>2, <1>6, <2>1, OrphanRejectedKeeps
  <2>4. /\ Inv(y, D \cup {n})
        /\ Fades(x, y) \/ y = SettledAs(x, x.linked[n].promise, "rejected")
    BY <1>2, <1>6, <2>1, OrphanRejectedKeeps
  <2> QED BY <2>2, <2>3, <2>4 DEF p
<1>4. CASE Fades(x, y)
  <2>1. PICK from : NoticeInv(x, <<>>, from, {})
    BY DEF SweptAtRest, Rests
  <2>2. PromiseInv(x)
    BY <1>2 DEF Inv
  <2> HIDE DEF y
  <2>3. NoticeInv(y, <<>>, from, {})
    BY <1>2, <1>4, <2>1, <2>2, NoTasks, FadesKeeps DEF NoticeInv
  <2>4. Rests(y, {})
    BY <2>3 DEF Rests
  <2> QED BY <1>1, <2>4 DEF SweptAtRest, y
<1>5. CASE /\ x.linked[n].live /\ x.linked[n].ctx = None
           /\ x.promises[p].status = "pending" /\ y = SettledAs(x, p, "rejected")
  <2>1. Rests(x, {}) /\ "rejected" \in Status
    BY DEF SweptAtRest, Status
  <2> HIDE DEF D
  <2>3. p = x.linked[n].promise
    BY DEF p
  <2>2. Rests(SettledAs(x, p, "rejected"), {})
    BY <1>2, <1>5, <2>1, <2>3, EntryRests
  <2> QED BY <1>1, <1>5, <2>2 DEF SweptAtRest
<1> QED BY <1>3, <1>4, <1>5

LEMMA ClearedFades ==
  ASSUME NEW x \in StateType, FreeInv(x), 
         NEW S \in SUBSET (1 .. Entries), \A e \in S : x.linked[e].live,
         NEW y, y = EntriesFreed(x, S)
  PROVE  Fades(x, y)
<1>1. /\ y \in StateType /\ FreeInv(y)
      /\ y.ctx = x.ctx /\ y.promises = x.promises /\ y.settlers = x.settlers
      /\ y.wakes = x.wakes
      /\ \A e \in 1 .. Entries : y.linked[e] = IF e \in S THEN NoEntry ELSE x.linked[e]
  BY EntriesFreedFields
<1> QED BY <1>1 DEF Fades, NoEntry

LEMMA RejectOrphansRests ==
  ASSUME Good(st), Rests(st, {}), RejectOrphans
  PROVE  Rests(st', {})
<1>1. PICK f : Sweep(f) /\ st' = EntriesFreed(f[Entries], LiveEntries(st))
  BY RejectOrphansRuns
<1> DEFINE N == Entries
           S == LiveEntries(st)
<1>2. N \in Nat
  BY SettlementAssumption
<1>3. f[0] = st /\ \A i \in 1 .. N : f[i] = OrphanRejected(f[i - 1], i)
  BY <1>1 DEF Sweep
<1>4. SweptAtRest(f[0], 0)
  <2>1. 1 .. 0 = {} /\ st.settlers = {}
    BY RejectOrphansRuns
  <2> QED BY <1>3, <2>1 DEF SweptAtRest, Swept, Good
<1>5. \A n \in 0 .. N : SweptAtRest(f[n], n)
  <2> DEFINE bad == {n \in 0 .. N : ~SweptAtRest(f[n], n)}
  <2>1. SUFFICES ASSUME bad # {} PROVE FALSE
    OBVIOUS
  <2>2. bad \in SUBSET Nat
    BY <1>2
  <2>3. PICK n \in bad : \A k \in bad : n <= k
    BY <2>1, <2>2, LeastNat
  <2>4. n \in 0 .. N /\ ~SweptAtRest(f[n], n)
    OBVIOUS
  <2>5. n # 0
    BY <1>4, <2>4
  <2>6. n \in 1 .. N /\ n - 1 \in 0 .. N /\ n - 1 < n
    BY <1>2, <2>4, <2>5
  <2>7. SweptAtRest(f[n - 1], n - 1)
    <3>1. n - 1 \notin bad
      BY <2>3, <2>6
    <3> QED BY <2>6, <3>1
  <2>8. SweptAtRest(f[n], n)
    BY <1>3, <2>6, <2>7, SweptOneRests
  <2> QED BY <2>4, <2>8
<1> DEFINE x == f[N]
<1>6. SweptAtRest(x, N)
  BY <1>2, <1>5
<1> HIDE DEF x
<1>7. /\ x \in StateType /\ PromiseInv(x) /\ FreeInv(x) /\ Rests(x, {})
  BY <1>6 DEF SweptAtRest, Swept, Inv
<1>13. S \in SUBSET (1 .. Entries) /\ \A e \in S : x.linked[e].live
  BY <1>6 DEF SweptAtRest, Swept, LiveEntries
<1> DEFINE y == EntriesFreed(x, S)
<1> HIDE DEF S
<1>8. y = EntriesFreed(x, S)
  BY DEF y
<1> HIDE DEF y
<1>9. Fades(x, y)
  BY <1>7, <1>8, <1>13, ClearedFades
<1>10. PICK from : NoticeInv(x, <<>>, from, {})
  BY <1>7 DEF Rests
<1>11. NoticeInv(y, <<>>, from, {})
  BY <1>7, <1>9, <1>10, NoTasks, FadesKeeps DEF NoticeInv
<1>12. st' = y
  BY <1>1 DEF x, y, S
<1> QED BY <1>11, <1>12 DEF Rests

(***************************************************************************)
(* What every action leaves at rest: a new promise, and who is to settle   *)
(* it.                                                                     *)
(***************************************************************************)
LEMMA StartRests ==
  ASSUME Good(st), Rests(st, {}), Start
  PROVE  Rests(st', {})
<1>1. st' = Allocated(st, None, FALSE)
  BY DEF Start
<1>2. PICK from : NoticeInv(st, <<>>, from, {})
  BY DEF Rests
<1>3. st \in StateType /\ PromiseInv(st) /\ Tasks(st, <<>>)
  BY NoTasks DEF Good, Inv
<1>4. NoticeInv(st', <<>>, from, {})
  BY <1>1, <1>2, <1>3, AllocatedNotices
<1> QED BY <1>4 DEF Rests

\* Nothing refers to r: it is no element, nor the promise of a handler, a context or an
\* entry.
Unclaimed(x, r) ==
  /\ \A p \in Promises :
       /\ r \notin x.promises[p].elements
       /\ \A i \in DOMAIN x.promises[p].handlers : x.promises[p].handlers[i].child # r
  /\ \A c \in Contexts : x.ctx[c].owes # r
  /\ \A e \in 1 .. Entries :
       x.linked[e].live /\ x.linked[e].ctx = None => x.linked[e].promise # r

\* A new promise r, an aggregate or none
LEMMA CreatedNotices ==
  ASSUME NEW x, Good(x), NEW from, NoticeInv(x, <<>>, from, {}),
         NEW r, NEW z, Creates(x, z, r), z.promises[r].status = "pending",
         z.promises[r].handlers = <<>>,
         \/ z.promises[r].elements = x.promises[r].elements
         \/ \E p, q : p # q /\ z.promises[r].elements = {p, q} /\ Made(x, p) /\ Made(x, q)
  PROVE  /\ HandlersInv(z, <<>>, from) /\ SourcesInv(z, <<>>, {}) /\ ShapeInv(z)
         /\ \A s \in Promises : s # r => ResultInv(z, <<>>, from, s)
         /\ Unclaimed(z, r)
         /\ z.promises[r].elements = x.promises[r].elements => z.promises[r].elements = {}
<1>1. x \in StateType /\ PromiseInv(x) /\ ShapeInv(x) /\ HandlersInv(x, <<>>, from)
      /\ SourcesInv(x, <<>>, {}) /\ \A s \in Promises : ResultInv(x, <<>>, from, s)
  BY DEF Good, Inv, NoticeInv
<1>2. /\ r \in Promises /\ ~Made(x, r) /\ z.ctx = x.ctx /\ z.linked = x.linked
      /\ \A p \in Promises : p # r => z.promises[p] = x.promises[p]
  BY DEF Creates
<1>3. x.promises[r].status = "none" /\ x.promises[r].handlers = <<>>
  BY <1>1, <1>2 DEF Made, PromiseInv
<1>4. x.promises[r].elements = {}
  BY <1>1, <1>2, <1>3 DEF ShapeInv
<1>5. \A p \in Promises : z.promises[p].handlers = x.promises[p].handlers
  BY <1>2, <1>3
<1>6. \A p \in Promises : x.promises[p].elements \subseteq Promises /\ r \notin x.promises[p].elements
  <2>1. \A p \in Promises : x.promises[p].elements \subseteq Promises
    BY <1>1, SourceTypes
  <2>2. ASSUME NEW p \in Promises, r \in x.promises[p].elements PROVE FALSE
    BY <1>1, <1>3, <2>2 DEF ShapeInv
  <2> QED BY <2>1, <2>2
<1>7. r \notin z.promises[r].elements
  BY <1>2, <1>6 DEF Made
<1>8. Unclaimed(z, r)
  <2>1. \A p \in Promises : r \notin z.promises[p].elements
    BY <1>2, <1>6, <1>7
  <2>2. \A p \in Promises : \A i \in DOMAIN x.promises[p].handlers :
          x.promises[p].handlers[i].child # r
    BY <1>1, <1>2 DEF PromiseInv
  <2>3. \A c \in Contexts : x.ctx[c].owes # r
    <3>1. r # None
      BY <1>2, SettlementAssumption DEF Promises, None
    <3> QED BY <1>1, <1>2, <3>1 DEF PromiseInv
  <2>4. \A e \in 1 .. Entries :
          x.linked[e].live /\ x.linked[e].ctx = None => x.linked[e].promise # r
    BY <1>1, <1>2 DEF PromiseInv
  <2> QED BY <1>2, <1>5, <2>1, <2>2, <2>3, <2>4 DEF Unclaimed
<1>9. \A a \in Lists : /\ Listed(z, <<>>, a) = Listed(x, <<>>, a)
                       /\ Places(z, <<>>, a) = Places(x, <<>>, a)
  BY <1>5, ListOfPromise DEF Listed, Places
<1>10. \A a \in Lists : \A i \in Places(x, <<>>, a) :
         /\ Listed(x, <<>>, a)[i].child \in Promises /\ Listed(x, <<>>, a)[i].child # r
  <2>1. Tasks(x, <<>>)
    BY NoTasks
  <2>2. \A a \in Lists : \A i \in Places(x, <<>>, a) : Listed(x, <<>>, a)[i].child \in Promises
    BY <1>1, <2>1, HandlerTypes
  <2>3. ASSUME NEW a \in Lists, NEW i \in Places(x, <<>>, a)
        PROVE  Listed(x, <<>>, a)[i].child # r
    <3>1. CASE a = 0
      <4>1. DOMAIN <<>> = {}
        OBVIOUS
      <4> QED BY <3>1, <4>1, <2>3 DEF Places, Listed
    <3>2. CASE a # 0
      <4>1. a \in Promises
        BY <3>2, ListOfPromise
      <4>2. i \in DOMAIN z.promises[a].handlers
            /\ Listed(x, <<>>, a)[i] = z.promises[a].handlers[i]
        BY <1>5, <3>2, <4>1 DEF Places, Listed
      <4> QED BY <1>8, <4>1, <4>2 DEF Unclaimed
    <3> QED BY <3>1, <3>2
  <2> QED BY <2>2, <2>3
<1>11. HandlersInv(z, <<>>, from)
  <2>1. \A a \in Lists : \A i \in Places(z, <<>>, a) :
          HandlerFits(z, Listed(z, <<>>, a)[i], Origin(from, a, i))
    <3> SUFFICES ASSUME NEW a \in Lists, NEW i \in Places(x, <<>>, a)
                 PROVE  HandlerFits(z, Listed(x, <<>>, a)[i], Origin(from, a, i))
      BY <1>9
    <3> DEFINE h == Listed(x, <<>>, a)[i]
               o == Origin(from, a, i)
    <3>1. HandlerFits(x, h, o)
      BY <1>1 DEF HandlersInv
    <3>2. z.promises[h.child] = x.promises[h.child]
      BY <1>2, <1>10
    <3> HIDE DEF h, o
    <3>3. HandlerFits(z, h, o)
      BY <3>1, <3>2 DEF HandlerFits
    <3> QED BY <3>3 DEF h, o
  <2>2. \A i \in DOMAIN <<>> : FALSE
    OBVIOUS
  <2>3. from \in [DOMAIN <<>> -> Promises]
    BY <1>1 DEF HandlersInv
  <2>4. \A a, b \in Lists : \A i \in Places(z, <<>>, a), j \in Places(z, <<>>, b) :
          LET h == Listed(z, <<>>, a)[i]
              k == Listed(z, <<>>, b)[j]
          IN h.child = k.child /\ Mark(h, Origin(from, a, i)) = Mark(k, Origin(from, b, j))
               => a = b /\ i = j
    BY <1>1, <1>9 DEF HandlersInv
  <2> QED BY <2>1, <2>2, <2>3, <2>4 DEF HandlersInv
<1>12. \A p \in Promises : p # r /\ SoleSource(x, <<>>, p) => SoleSource(z, <<>>, p)
  BY <1>2, <1>9 DEF SoleSource
<1>13. SourcesInv(z, <<>>, {})
  <2>1. ASSUME NEW c \in Contexts, z.ctx[c].owes # None
        PROVE  /\ SoleSource(z, <<>>, z.ctx[c].owes)
               /\ ~z.ctx[c].executor => z.promises[z.ctx[c].owes].status = "pending"
               /\ \A d \in Contexts : z.ctx[d].owes = z.ctx[c].owes => c = d
    <3> DEFINE p == x.ctx[c].owes
    <3>1. z.ctx = x.ctx /\ p # None
      BY <1>2, <2>1
    <3>2. p \in Promises /\ p # r
      BY <1>1, <1>8, <3>1, SourceTypes DEF Unclaimed
    <3>3. /\ SoleSource(x, <<>>, p)
          /\ ~x.ctx[c].executor => x.promises[p].status = "pending"
          /\ \A d \in Contexts : x.ctx[d].owes = p => c = d
      BY <1>1, <3>1 DEF SourcesInv
    <3>4. z.promises[p] = x.promises[p]
      BY <1>2, <3>2
    <3> HIDE DEF p
    <3>5. SoleSource(z, <<>>, p)
      BY <1>12, <3>2, <3>3
    <3> QED BY <3>1, <3>3, <3>4, <3>5 DEF p
  <2>2. ASSUME NEW e \in 1 .. Entries, z.linked[e].live, z.linked[e].ctx = None
        PROVE  /\ SoleSource(z, <<>>, z.linked[e].promise)
               /\ \A c \in Contexts : z.ctx[c].owes # z.linked[e].promise
    <3> DEFINE p == x.linked[e].promise
    <3>1. z.ctx = x.ctx /\ z.linked = x.linked
      BY <1>2
    <3>2. p \in Promises /\ p # r
      BY <1>1, <1>8, <2>2, <3>1, SourceTypes DEF Unclaimed
    <3>3. SoleSource(x, <<>>, p) /\ \A c \in Contexts : x.ctx[c].owes # p
      BY <1>1, <2>2, <3>1 DEF SourcesInv
    <3> HIDE DEF p
    <3>4. SoleSource(z, <<>>, p)
      BY <1>12, <3>2, <3>3
    <3> QED BY <3>1, <3>3, <3>4 DEF p
  <2> QED BY <2>1, <2>2 DEF SourcesInv
<1>14. \A p \in Promises : x.promises[p].status # "none" => z.promises[p].status # "none"
  BY <1>2
<1>15. ShapeInv(z)
  <2> SUFFICES ASSUME NEW s \in Promises, z.promises[s].elements # {}
               PROVE  /\ z.promises[s].status # "none" /\ s \notin z.promises[s].elements
                      /\ \A p \in z.promises[s].elements : z.promises[p].status # "none"
                      /\ \E p, q \in z.promises[s].elements :
                           p # q /\ z.promises[s].elements = {p, q}
    BY DEF ShapeInv
  <2>1. CASE s = r
    <3>1. PICK p, q : p # q /\ z.promises[r].elements = {p, q} /\ Made(x, p) /\ Made(x, q)
      BY <1>4, <2>1
    <3>2. z.promises[p].status # "none" /\ z.promises[q].status # "none"
      BY <1>14, <3>1 DEF Made
    <3> QED BY <1>7, <2>1, <3>1, <3>2
  <2>2. CASE s # r
    <3>1. z.promises[s] = x.promises[s]
      BY <1>2, <2>2
    <3>2. /\ x.promises[s].status # "none" /\ s \notin x.promises[s].elements
          /\ \A p \in x.promises[s].elements : x.promises[p].status # "none"
          /\ \E p, q \in x.promises[s].elements :
               p # q /\ x.promises[s].elements = {p, q}
      BY <1>1, <3>1 DEF ShapeInv
    <3> QED BY <1>6, <1>14, <3>1, <3>2
  <2> QED BY <2>1, <2>2
<1>16. \A s, p : Unheard(z, <<>>, from, s, p) <=> Unheard(x, <<>>, from, s, p)
  BY <1>9 DEF Unheard
<1>17. ASSUME NEW s \in Promises, s # r PROVE ResultInv(z, <<>>, from, s)
  <2>1. z.promises[s] = x.promises[s] /\ ResultInv(x, <<>>, from, s)
    BY <1>1, <1>2, <1>17
  <2>2. \A p \in x.promises[s].elements : z.promises[p] = x.promises[p]
    BY <1>2, <1>6
  <2> DEFINE k == x.promises[s]
  <2>3. z.promises[s] = k /\ \A p \in k.elements : z.promises[p] = x.promises[p]
    BY <2>1, <2>2
  <2>4. k = x.promises[s]
    OBVIOUS
  <2> HIDE DEF k
  <2>5. Awaits(x, <<>>, from, s) => Awaits(z, <<>>, from, s)
    BY <1>16, <2>3, <2>4 DEF Awaits
  <2>6. Told(x, s, k.status) => Told(z, s, k.status)
    BY <2>3, <2>4 DEF Told
  <2> QED BY <2>1, <2>3, <2>4, <2>5, <2>6 DEF ResultInv
<1> QED BY <1>4, <1>8, <1>11, <1>13, <1>15, <1>17

LEMMA PendsNotices ==
  ASSUME NEW x, NEW from, NoticeInv(x, <<>>, from, {}), NEW r, NEW z, Pends(x, z, r)
  PROVE  /\ NoticeInv(z, <<>>, from, {}) /\ Unclaimed(z, r)
         /\ z.promises[r].elements = {} /\ SoleSource(z, <<>>, r)
<1>1. /\ Good(x) /\ Creates(x, z, r) /\ z.promises[r].status = "pending"
      /\ z.promises[r].handlers = <<>> /\ z.promises[r].elements = x.promises[r].elements
  BY DEF Pends
<1>2. /\ HandlersInv(z, <<>>, from) /\ SourcesInv(z, <<>>, {}) /\ ShapeInv(z)
      /\ \A s \in Promises : s # r => ResultInv(z, <<>>, from, s)
      /\ Unclaimed(z, r)
      /\ z.promises[r].elements = x.promises[r].elements => z.promises[r].elements = {}
  BY <1>1, CreatedNotices
<1>3. z.promises[r].elements = {}
  BY <1>1, <1>2
<1>4. ResultInv(z, <<>>, from, r)
  BY <1>3 DEF ResultInv
<1>5. SoleSource(z, <<>>, r)
  <2>1. DOMAIN <<>> = {}
    OBVIOUS
  <2> QED BY <1>2, <1>3, <2>1, ListOfPromise DEF SoleSource, Unclaimed, Places, Listed
<1> QED BY <1>2, <1>3, <1>4, <1>5 DEF NoticeInv

LEMMA SpawnRests ==
  ASSUME Good(st), Rests(st, {}), NEW c \in Contexts, NEW executor \in BOOLEAN,
         Spawn(c, executor)
  PROVE  Rests(st', {})
<1> DEFINE x == Begun(st, c)
           r == NextPromise
           z == MadePending(x, r)
<1>1. Runnable(c) /\ CanPromise /\ st' = Allocated(z, r, executor)
  BY DEF Spawn, MadePending
<1>2. Good(x) /\ x.promises = st.promises /\ Fades(st, x)
  BY <1>1, BegunGood
<1> HIDE DEF x
<1>3. Pends(x, z, r)
  BY <1>1, <1>2, MadePendingGood
<1> HIDE DEF z, r
<1>4. Rests(x, {})
  BY <1>2, FadesRests
<1>5. PICK from : NoticeInv(x, <<>>, from, {})
  BY <1>4 DEF Rests
<1>6. /\ NoticeInv(z, <<>>, from, {}) /\ Unclaimed(z, r) /\ SoleSource(z, <<>>, r)
  BY <1>3, <1>5, PendsNotices
<1>7. /\ z \in StateType /\ PromiseInv(z) /\ Tasks(z, <<>>) /\ z.promises[r].status = "pending"
      /\ r \in {None} \cup Promises
  BY <1>3, NoTasks DEF Pends, Good, Inv, Creates
<1>8. NoticeInv(st', <<>>, from, {})
  BY <1>1, <1>6, <1>7, AllocatedNotices DEF Unclaimed
<1> QED BY <1>8 DEF Rests

LEMMA LinksEntryNotices ==
  ASSUME NEW z, Good(z), NEW from, NoticeInv(z, <<>>, from, {}), NEW r \in Promises,
         Unclaimed(z, r), SoleSource(z, <<>>, r), NEW e \in 1 .. Entries, NEW s,
         NEW y, LinksEntry(z, y, r, e, s)
  PROVE  NoticeInv(y, <<>>, from, {})
<1>1. /\ y.ctx = z.ctx /\ y.promises = z.promises
      /\ \A f \in 1 .. Entries : f # e => y.linked[f] = z.linked[f]
      /\ y.linked[e].promise = r
  BY DEF LinksEntry
<1>2. Alike(z, y) /\ z \in StateType /\ Tasks(z, <<>>)
  BY <1>1, NoTasks DEF Alike, Good
<1>3. HandlersInv(z, <<>>, from) /\ ShapeInv(z) /\ SourcesInv(z, <<>>, {})
      /\ \A q \in Promises : ResultInv(z, <<>>, from, q)
  BY DEF NoticeInv
<1>4. HandlersInv(y, <<>>, from) /\ ShapeInv(y)
  BY <1>2, <1>3, AlikeKeeps
<1>5. \A q \in Promises : ResultInv(y, <<>>, from, q)
  BY <1>1, <1>2, <1>3, AlikeKeeps
<1>6. \A p : SoleSource(z, <<>>, p) => SoleSource(y, <<>>, p)
  BY <1>1 DEF SoleSource, Listed, Places
<1>7. SourcesInv(y, <<>>, {})
  <2>1. \A c \in Contexts : LET p == y.ctx[c].owes IN
          p # None =>
            /\ SoleSource(y, <<>>, p)
            /\ ~y.ctx[c].executor => y.promises[p].status = "pending"
            /\ \A d \in Contexts : y.ctx[d].owes = p => c = d
    BY <1>1, <1>3, <1>6 DEF SourcesInv
  <2>2. \A f \in 1 .. Entries :
          y.linked[f].live /\ y.linked[f].ctx = None =>
            /\ SoleSource(y, <<>>, y.linked[f].promise)
            /\ \A c \in Contexts : y.ctx[c].owes # y.linked[f].promise
    <3> SUFFICES ASSUME NEW f \in 1 .. Entries, y.linked[f].live, y.linked[f].ctx = None
                 PROVE  /\ SoleSource(y, <<>>, y.linked[f].promise)
                        /\ \A c \in Contexts : y.ctx[c].owes # y.linked[f].promise
      OBVIOUS
    <3>1. CASE f = e
      BY <1>1, <1>6, <3>1 DEF Unclaimed
    <3>2. CASE f # e
      BY <1>1, <1>3, <1>6, <3>2 DEF SourcesInv
    <3> QED BY <3>1, <3>2
  <2> QED BY <2>1, <2>2 DEF SourcesInv
<1> QED BY <1>4, <1>5, <1>7 DEF NoticeInv

LEMMA LinkRests ==
  ASSUME Good(st), Rests(st, {}), NEW c \in Contexts, Link(c)
  PROVE  Rests(st', {})
<1>1. PICK x, z : Good(x) /\ Fades(st, x) /\ LinksPromise(x, z, st')
  BY LinkGood
<1>2. PICK r, e, s :
          Pends(x, z, r) /\ e \in 1 .. Entries /\ LinksEntry(z, st', r, e, s)
  BY <1>1 DEF LinksPromise
<1>3. Rests(x, {})
  BY <1>1, FadesRests
<1>4. PICK from : NoticeInv(x, <<>>, from, {})
  BY <1>3 DEF Rests
<1>5. /\ NoticeInv(z, <<>>, from, {}) /\ Unclaimed(z, r) /\ SoleSource(z, <<>>, r)
  BY <1>2, <1>4, PendsNotices
<1>6. Good(z) /\ r \in Promises
  BY <1>2 DEF Pends, Creates
<1>7. NoticeInv(st', <<>>, from, {})
  BY <1>2, <1>5, <1>6, LinksEntryNotices
<1> QED BY <1>7 DEF Rests

(***************************************************************************)
(* What every action leaves at rest: one more handler.                     *)
(***************************************************************************)
\* The handlers of y, and those to run, are those of x and handler h, which is the n-th
\* of list b and is for promise o.
Adds(x, from, y, todo, f, b, n, h, o) ==
  /\ b \in Lists /\ n \notin Places(x, <<>>, b) /\ n \in Places(y, todo, b)
  /\ Listed(y, todo, b)[n].kind = h.kind /\ Listed(y, todo, b)[n].child = h.child
  /\ Origin(f, b, n) = o
  /\ \A a \in Lists : \A i : ~(a = b /\ i = n) =>
       (i \in Places(y, todo, a) <=> i \in Places(x, <<>>, a))
  /\ \A a \in Lists : \A i \in Places(x, <<>>, a) :
       /\ Listed(y, todo, a)[i] = Listed(x, <<>>, a)[i]
       /\ Origin(f, a, i) = Origin(from, a, i)
  /\ \A p \in Promises :
       /\ y.promises[p].status = x.promises[p].status
       /\ y.promises[p].elements = x.promises[p].elements
       /\ y.promises[p].race = x.promises[p].race
       /\ y.promises[p].remaining = x.promises[p].remaining
  /\ y.ctx = x.ctx /\ y.linked = x.linked

LEMMA AddsPlaces ==
  ASSUME NEW x, NEW from, NEW y, NEW todo, NEW f, NEW b, NEW n, NEW h, NEW o,
         Adds(x, from, y, todo, f, b, n, h, o), NEW a \in Lists, NEW i \in Places(y, todo, a)
  PROVE  \/ /\ a = b /\ i = n /\ Listed(y, todo, a)[i].kind = h.kind
            /\ Listed(y, todo, a)[i].child = h.child /\ Origin(f, a, i) = o
         \/ /\ i \in Places(x, <<>>, a) /\ Listed(y, todo, a)[i] = Listed(x, <<>>, a)[i]
            /\ Origin(f, a, i) = Origin(from, a, i) /\ ~(a = b /\ i = n)
BY DEF Adds

LEMMA AddsUnheard ==
  ASSUME NEW x, NEW from, NEW y, NEW todo, NEW f, NEW b, NEW n, NEW h, NEW o,
         Adds(x, from, y, todo, f, b, n, h, o), NEW r, NEW p
  PROVE  Unheard(y, todo, f, r, p)
           <=> Unheard(x, <<>>, from, r, p) \/ (~Single(h) /\ h.child = r /\ o = p)
<1>1. ASSUME Unheard(y, todo, f, r, p)
      PROVE  Unheard(x, <<>>, from, r, p) \/ (~Single(h) /\ h.child = r /\ o = p)
  <2>1. PICK a \in Lists : \E i \in Places(y, todo, a) :
          /\ ~Single(Listed(y, todo, a)[i]) /\ Listed(y, todo, a)[i].child = r
          /\ Origin(f, a, i) = p
    BY <1>1 DEF Unheard
  <2>2. PICK i \in Places(y, todo, a) :
          /\ ~Single(Listed(y, todo, a)[i]) /\ Listed(y, todo, a)[i].child = r
          /\ Origin(f, a, i) = p
    BY <2>1
  <2>3. CASE /\ a = b /\ i = n /\ Listed(y, todo, a)[i].kind = h.kind
             /\ Listed(y, todo, a)[i].child = h.child /\ Origin(f, a, i) = o
    BY <2>2, <2>3 DEF Single
  <2>4. CASE /\ i \in Places(x, <<>>, a) /\ Listed(y, todo, a)[i] = Listed(x, <<>>, a)[i]
             /\ Origin(f, a, i) = Origin(from, a, i) /\ ~(a = b /\ i = n)
    BY <2>2, <2>4 DEF Unheard
  <2> QED BY <2>3, <2>4, AddsPlaces
<1>2. ASSUME Unheard(x, <<>>, from, r, p)
      PROVE  Unheard(y, todo, f, r, p)
  <2>1. PICK a \in Lists : \E i \in Places(x, <<>>, a) :
          /\ ~Single(Listed(x, <<>>, a)[i]) /\ Listed(x, <<>>, a)[i].child = r
          /\ Origin(from, a, i) = p
    BY <1>2 DEF Unheard
  <2>2. PICK i \in Places(x, <<>>, a) :
          /\ ~Single(Listed(x, <<>>, a)[i]) /\ Listed(x, <<>>, a)[i].child = r
          /\ Origin(from, a, i) = p
    BY <2>1
  <2>3. /\ i \in Places(y, todo, a) /\ Listed(y, todo, a)[i] = Listed(x, <<>>, a)[i]
        /\ Origin(f, a, i) = Origin(from, a, i)
    BY DEF Adds
  <2> QED BY <2>2, <2>3 DEF Unheard
<1>3. ASSUME ~Single(h), h.child = r, o = p
      PROVE  Unheard(y, todo, f, r, p)
  <2>1. /\ b \in Lists /\ n \in Places(y, todo, b)
        /\ Listed(y, todo, b)[n].kind = h.kind /\ Listed(y, todo, b)[n].child = h.child
        /\ Origin(f, b, n) = o
    BY DEF Adds
  <2>2. ~Single(Listed(y, todo, b)[n])
    BY <1>3, <2>1 DEF Single
  <2> QED BY <1>3, <2>1, <2>2 DEF Unheard
<1> QED BY <1>1, <1>2, <1>3

LEMMA FitsAlike ==
  ASSUME NEW x, NEW y, NEW h, NEW k, NEW o, h.child \in Promises,
         k.kind = h.kind, k.child = h.child, HandlerFits(x, h, o),
         \A p \in Promises :
           /\ y.promises[p].status = x.promises[p].status
           /\ y.promises[p].elements = x.promises[p].elements
           /\ y.promises[p].race = x.promises[p].race
  PROVE  HandlerFits(y, k, o)
BY DEF HandlerFits, Single

LEMMA AddsHandlers ==
  ASSUME NEW x \in StateType, NEW from, HandlersInv(x, <<>>, from),
         NEW y, NEW todo, NEW f, NEW b, NEW n, NEW h, h.child \in Promises, NEW o,
         Adds(x, from, y, todo, f, b, n, h, o), HandlerFits(x, h, o),
         f \in [DOMAIN todo -> Promises],
         \A i \in DOMAIN todo :
           todo[i].status \in Status /\ x.promises[f[i]].status = todo[i].status,
         \A a \in Lists : \A i \in Places(x, <<>>, a) :
           ~(/\ Listed(x, <<>>, a)[i].child = h.child
             /\ Mark(Listed(x, <<>>, a)[i], Origin(from, a, i)) = Mark(h, o))
  PROVE  HandlersInv(y, todo, f)
<1>1. \A p \in Promises :
           /\ y.promises[p].status = x.promises[p].status
           /\ y.promises[p].elements = x.promises[p].elements
           /\ y.promises[p].race = x.promises[p].race
  BY DEF Adds
<1>2. \A a \in Lists : \A i \in Places(x, <<>>, a) : Listed(x, <<>>, a)[i].child \in Promises
  BY NoTasks, HandlerTypes
<1>3. ASSUME NEW a \in Lists, NEW i \in Places(y, todo, a)
      PROVE  HandlerFits(y, Listed(y, todo, a)[i], Origin(f, a, i))
  <2>1. CASE /\ a = b /\ i = n /\ Listed(y, todo, a)[i].kind = h.kind
             /\ Listed(y, todo, a)[i].child = h.child /\ Origin(f, a, i) = o
    <3> DEFINE k == Listed(y, todo, a)[i]
    <3>1. k.kind = h.kind /\ k.child = h.child
      BY <2>1
    <3> HIDE DEF k
    <3>2. HandlerFits(y, k, o)
      BY <1>1, <3>1, FitsAlike
    <3> QED BY <2>1, <3>2 DEF k
  <2>2. CASE /\ i \in Places(x, <<>>, a) /\ Listed(y, todo, a)[i] = Listed(x, <<>>, a)[i]
             /\ Origin(f, a, i) = Origin(from, a, i) /\ ~(a = b /\ i = n)
    <3> DEFINE k == Listed(x, <<>>, a)[i]
               m == Origin(from, a, i)
    <3>1. HandlerFits(x, k, m) /\ k.child \in Promises
      BY <1>2, <2>2 DEF HandlersInv
    <3> HIDE DEF k, m
    <3>2. HandlerFits(y, k, m)
      BY <1>1, <3>1, FitsAlike
    <3> QED BY <2>2, <3>2 DEF k, m
  <2> QED BY <2>1, <2>2, AddsPlaces
<1>4. ASSUME NEW a \in Lists, NEW c \in Lists, NEW i \in Places(y, todo, a),
             NEW j \in Places(y, todo, c),
             Listed(y, todo, a)[i].child = Listed(y, todo, c)[j].child,
             Mark(Listed(y, todo, a)[i], Origin(f, a, i))
               = Mark(Listed(y, todo, c)[j], Origin(f, c, j))
      PROVE  a = c /\ i = j
  <2>1. \/ /\ a = b /\ i = n /\ Listed(y, todo, a)[i].kind = h.kind
           /\ Listed(y, todo, a)[i].child = h.child /\ Origin(f, a, i) = o
        \/ /\ i \in Places(x, <<>>, a) /\ Listed(y, todo, a)[i] = Listed(x, <<>>, a)[i]
           /\ Origin(f, a, i) = Origin(from, a, i) /\ ~(a = b /\ i = n)
    BY AddsPlaces
  <2>2. \/ /\ c = b /\ j = n /\ Listed(y, todo, c)[j].kind = h.kind
           /\ Listed(y, todo, c)[j].child = h.child /\ Origin(f, c, j) = o
        \/ /\ j \in Places(x, <<>>, c) /\ Listed(y, todo, c)[j] = Listed(x, <<>>, c)[j]
           /\ Origin(f, c, j) = Origin(from, c, j) /\ ~(c = b /\ j = n)
    BY AddsPlaces
  <2>3. CASE a = b /\ i = n /\ c = b /\ j = n
    BY <2>3
  <2>4. CASE a = b /\ i = n /\ ~(c = b /\ j = n)
    <3>1. Mark(Listed(y, todo, a)[i], Origin(f, a, i)) = Mark(h, o)
      BY <2>1, <2>4 DEF Mark, Single
    <3> QED BY <1>4, <2>1, <2>2, <2>4, <3>1
  <2>5. CASE ~(a = b /\ i = n) /\ c = b /\ j = n
    <3>1. Mark(Listed(y, todo, c)[j], Origin(f, c, j)) = Mark(h, o)
      BY <2>2, <2>5 DEF Mark, Single
    <3> QED BY <1>4, <2>1, <2>2, <2>5, <3>1
  <2>6. CASE ~(a = b /\ i = n) /\ ~(c = b /\ j = n)
    <3>1. /\ i \in Places(x, <<>>, a) /\ j \in Places(x, <<>>, c)
          /\ Listed(x, <<>>, a)[i].child = Listed(x, <<>>, c)[j].child
          /\ Mark(Listed(x, <<>>, a)[i], Origin(from, a, i))
               = Mark(Listed(x, <<>>, c)[j], Origin(from, c, j))
      BY <1>4, <2>1, <2>2, <2>6
    <3> QED BY <3>1 DEF HandlersInv
  <2> QED BY <2>3, <2>4, <2>5, <2>6
<1>5. \A i \in DOMAIN todo :
        todo[i].status \in Status /\ y.promises[f[i]].status = todo[i].status
  BY <1>1
<1> QED BY <1>3, <1>4, <1>5 DEF HandlersInv

LEMMA AddsSources ==
  ASSUME NEW x \in StateType, PromiseInv(x), NEW from, SourcesInv(x, <<>>, {}), ShapeInv(x),
         NEW y, NEW todo, NEW f, NEW b, NEW n, NEW h, NEW o,
         Adds(x, from, y, todo, f, b, n, h, o),
         Single(h) =>
           /\ \A c \in Contexts : x.ctx[c].owes # h.child
           /\ \A e \in 1 .. Entries :
                x.linked[e].live /\ x.linked[e].ctx = None => x.linked[e].promise # h.child
  PROVE  SourcesInv(y, todo, {}) /\ ShapeInv(y)
<1>1. /\ y.ctx = x.ctx /\ y.linked = x.linked
      /\ \A p \in Promises :
           /\ y.promises[p].status = x.promises[p].status
           /\ y.promises[p].elements = x.promises[p].elements
           /\ y.promises[p].race = x.promises[p].race
  BY DEF Adds
<1>2. ASSUME NEW p \in Promises, SoleSource(x, <<>>, p), Single(h) => p # h.child
      PROVE  SoleSource(y, todo, p)
  <2>1. ASSUME NEW a \in Lists, NEW i \in Places(y, todo, a), Single(Listed(y, todo, a)[i])
        PROVE  Listed(y, todo, a)[i].child # p
    <3>1. CASE /\ a = b /\ i = n /\ Listed(y, todo, a)[i].kind = h.kind
               /\ Listed(y, todo, a)[i].child = h.child /\ Origin(f, a, i) = o
      BY <1>2, <2>1, <3>1 DEF Single
    <3>2. CASE /\ i \in Places(x, <<>>, a) /\ Listed(y, todo, a)[i] = Listed(x, <<>>, a)[i]
               /\ Origin(f, a, i) = Origin(from, a, i) /\ ~(a = b /\ i = n)
      BY <1>2, <2>1, <3>2 DEF SoleSource
    <3> QED BY <3>1, <3>2, AddsPlaces
  <2> QED BY <1>1, <1>2, <2>1 DEF SoleSource
<1>3. /\ \A c \in Contexts : x.ctx[c].owes # None => x.ctx[c].owes \in Promises
      /\ \A e \in 1 .. Entries : x.linked[e].live /\ x.linked[e].ctx = None =>
           x.linked[e].promise \in Promises
      /\ \A p \in Promises : x.promises[p].elements \in SUBSET Promises
  BY SourceTypes
<1>4. SourcesInv(y, todo, {})
  <2>1. ASSUME NEW c \in Contexts, y.ctx[c].owes # None
        PROVE  /\ SoleSource(y, todo, y.ctx[c].owes)
               /\ ~y.ctx[c].executor => y.promises[y.ctx[c].owes].status = "pending"
               /\ \A d \in Contexts : y.ctx[d].owes = y.ctx[c].owes => c = d
    <3>1. SoleSource(y, todo, x.ctx[c].owes)
      BY <1>1, <1>2, <1>3, <2>1 DEF SourcesInv
    <3> QED BY <1>1, <1>3, <2>1, <3>1 DEF SourcesInv
  <2>2. ASSUME NEW e \in 1 .. Entries, y.linked[e].live, y.linked[e].ctx = None
        PROVE  /\ SoleSource(y, todo, y.linked[e].promise)
               /\ \A c \in Contexts : y.ctx[c].owes # y.linked[e].promise
    <3>1. SoleSource(y, todo, x.linked[e].promise)
      BY <1>1, <1>2, <1>3, <2>2 DEF SourcesInv
    <3> QED BY <1>1, <2>2, <3>1 DEF SourcesInv
  <2> QED BY <2>1, <2>2 DEF SourcesInv
<1>5. ShapeInv(y)
  <2> SUFFICES ASSUME NEW s \in Promises, y.promises[s].elements # {}
               PROVE  /\ y.promises[s].status # "none" /\ s \notin y.promises[s].elements
                      /\ \A p \in y.promises[s].elements : y.promises[p].status # "none"
                      /\ \E p, q \in y.promises[s].elements :
                           p # q /\ y.promises[s].elements = {p, q}
    BY DEF ShapeInv
  <2>1. y.promises[s].elements = x.promises[s].elements
    BY <1>1
  <2>2. /\ x.promises[s].status # "none" /\ s \notin x.promises[s].elements
        /\ \A p \in x.promises[s].elements : x.promises[p].status # "none"
        /\ \E p, q \in x.promises[s].elements :
             p # q /\ x.promises[s].elements = {p, q}
    BY <2>1 DEF ShapeInv
  <2>3. \A p \in x.promises[s].elements : y.promises[p].status = x.promises[p].status
    BY <1>1, <1>3
  <2> QED BY <1>1, <2>1, <2>2, <2>3
<1> QED BY <1>4, <1>5

LEMMA AddsResults ==
  ASSUME NEW x \in StateType, PromiseInv(x), NEW from,
         NEW y, NEW todo, NEW f, NEW b, NEW n, NEW h, NEW o,
         Adds(x, from, y, todo, f, b, n, h, o),
         NEW r \in Promises, ResultInv(x, <<>>, from, r), Single(h) \/ h.child # r
  PROVE  ResultInv(y, todo, f, r)
<1> DEFINE k == x.promises[r]
<1>1. \A p : Unheard(y, todo, f, r, p) <=> Unheard(x, <<>>, from, r, p)
  BY AddsUnheard
<1>2. /\ y.promises[r].status = k.status /\ y.promises[r].elements = k.elements
      /\ y.promises[r].race = k.race /\ y.promises[r].remaining = k.remaining
  BY DEF Adds
<1>3. k.elements \in SUBSET Promises
  BY SourceTypes
<1>4. \A p \in k.elements : y.promises[p].status = x.promises[p].status
  BY <1>3 DEF Adds
<1>5. k = x.promises[r]
  OBVIOUS
<1> HIDE DEF k
<1>6. Awaits(x, <<>>, from, r) => Awaits(y, todo, f, r)
  BY <1>1, <1>2, <1>4, <1>5 DEF Awaits
<1>7. Told(x, r, k.status) => Told(y, r, k.status)
  BY <1>2, <1>4, <1>5 DEF Told
<1> QED BY <1>2, <1>5, <1>6, <1>7 DEF ResultInv

\* A handler appended to those of promise p
LEMMA AppendAdds ==
  ASSUME NEW x \in StateType, NEW from, NEW p \in Promises, NEW h \in HandlerType,
         NEW y, y = WithHandlers(x, p, Append(x.promises[p].handlers, h))
  PROVE  \E n : Adds(x, from, y, <<>>, from, p, n, h, p)
<1> DEFINE old == x.promises[p].handlers
           more == Append(old, h)
           n == Len(old) + 1
<1>1. old \in Seq(HandlerType)
  BY DEF StateType, PromiseType
<1>2. /\ more \in Seq(HandlerType) /\ DOMAIN old = 1 .. Len(old) /\ Len(old) \in Nat
      /\ DOMAIN more = 1 .. n /\ more[n] = h /\ \A i \in 1 .. Len(old) : more[i] = old[i]
  BY <1>1
<1>3. y = WithHandlers(x, p, more)
  OBVIOUS
<1>4. /\ n \notin DOMAIN old /\ n \in DOMAIN more
      /\ \A i : i # n => (i \in DOMAIN more <=> i \in DOMAIN old)
      /\ \A i \in DOMAIN old : more[i] = old[i]
  BY <1>2
<1>5. more \in Seq(HandlerType) /\ more[n] = h /\ old = x.promises[p].handlers
  BY <1>2
<1> HIDE DEF more, n, old
<1>6. /\ y.ctx = x.ctx /\ y.linked = x.linked
      /\ \A q \in Promises : q # p => y.promises[q] = x.promises[q]
      /\ y.promises[p].handlers = more
      /\ y.promises[p].status = x.promises[p].status
      /\ y.promises[p].elements = x.promises[p].elements
      /\ y.promises[p].race = x.promises[p].race
      /\ y.promises[p].remaining = x.promises[p].remaining
  BY <1>3, <1>5, WithHandlersFields
<1>7. \A a \in Lists : a # 0 => a \in Promises
  BY ListOfPromise
<1>8. p \in Lists /\ p # 0
  BY ListOfPromise
<1>9. \A a \in Lists : a # p => /\ Listed(y, <<>>, a) = Listed(x, <<>>, a)
                                /\ Places(y, <<>>, a) = Places(x, <<>>, a)
  BY <1>6, <1>7 DEF Listed, Places
<1>10. Listed(y, <<>>, p) = more /\ Listed(x, <<>>, p) = old
  BY <1>5, <1>6, <1>8 DEF Listed
<1>11. Places(y, <<>>, p) = DOMAIN more /\ Places(x, <<>>, p) = DOMAIN old
  BY <1>10 DEF Places
<1>12. Origin(from, p, n) = p
  BY <1>8 DEF Origin
<1>13. \A q \in Promises :
         /\ y.promises[q].status = x.promises[q].status
         /\ y.promises[q].elements = x.promises[q].elements
         /\ y.promises[q].race = x.promises[q].race
         /\ y.promises[q].remaining = x.promises[q].remaining
  BY <1>6
<1>14. \A a \in Lists : \A i : ~(a = p /\ i = n) =>
         (i \in Places(y, <<>>, a) <=> i \in Places(x, <<>>, a))
  <2> SUFFICES ASSUME NEW a \in Lists, NEW i, ~(a = p /\ i = n)
               PROVE  i \in Places(y, <<>>, a) <=> i \in Places(x, <<>>, a)
    OBVIOUS
  <2>1. CASE a = p
    BY <1>4, <1>11, <2>1
  <2>2. CASE a # p
    BY <1>9, <2>2
  <2> QED BY <2>1, <2>2
<1>15. \A a \in Lists : \A i \in Places(x, <<>>, a) :
         /\ Listed(y, <<>>, a)[i] = Listed(x, <<>>, a)[i]
         /\ Origin(from, a, i) = Origin(from, a, i)
  <2> SUFFICES ASSUME NEW a \in Lists, NEW i \in Places(x, <<>>, a)
               PROVE  Listed(y, <<>>, a)[i] = Listed(x, <<>>, a)[i]
    OBVIOUS
  <2>1. CASE a = p
    BY <1>4, <1>10, <1>11, <2>1
  <2>2. CASE a # p
    BY <1>9, <2>2
  <2> QED BY <2>1, <2>2
<1>16. /\ p \in Lists /\ n \notin Places(x, <<>>, p) /\ n \in Places(y, <<>>, p)
       /\ Listed(y, <<>>, p)[n].kind = h.kind /\ Listed(y, <<>>, p)[n].child = h.child
  BY <1>4, <1>5, <1>8, <1>10, <1>11
<1>17. Adds(x, from, y, <<>>, from, p, n, h, p)
  BY <1>6, <1>12, <1>13, <1>14, <1>15, <1>16 DEF Adds
<1> QED BY <1>17

\* A handler of "then" for the new promise r
LEMMA SingleAdds ==
  ASSUME NEW x, Good(x), NEW from, NoticeInv(x, <<>>, from, {}), NEW r \in Promises,
         Unclaimed(x, r), x.promises[r].elements = {}, x.promises[r].status = "pending",
         NEW h, Single(h), h.child = r,
         NEW y, NEW todo, NEW f, NEW b, NEW n, NEW o, Adds(x, from, y, todo, f, b, n, h, o),
         f \in [DOMAIN todo -> Promises],
         \A i \in DOMAIN todo :
           todo[i].status \in Status /\ x.promises[f[i]].status = todo[i].status
  PROVE  NoticeInv(y, todo, f, {})
<1>1. /\ x \in StateType /\ PromiseInv(x) /\ HandlersInv(x, <<>>, from)
      /\ SourcesInv(x, <<>>, {}) /\ ShapeInv(x)
      /\ \A s \in Promises : ResultInv(x, <<>>, from, s)
  BY DEF Good, Inv, NoticeInv
<1>2. HandlerFits(x, h, o) /\ h.child \in Promises
  BY DEF HandlerFits
<1>3. \A a \in Lists : \A i \in Places(x, <<>>, a) : Listed(x, <<>>, a)[i].child # h.child
  <2>1. DOMAIN <<>> = {}
    OBVIOUS
  <2> QED BY <2>1, ListOfPromise DEF Unclaimed, Places, Listed
<1>4. HandlersInv(y, todo, f)
  BY <1>1, <1>2, <1>3, AddsHandlers
<1>5. /\ \A c \in Contexts : x.ctx[c].owes # h.child
      /\ \A e \in 1 .. Entries :
           x.linked[e].live /\ x.linked[e].ctx = None => x.linked[e].promise # h.child
  BY DEF Unclaimed
<1>6. SourcesInv(y, todo, {}) /\ ShapeInv(y)
  BY <1>1, <1>5, AddsSources
<1>7. \A s \in Promises : ResultInv(y, todo, f, s)
  BY <1>1, AddsResults
<1> QED BY <1>4, <1>6, <1>7 DEF NoticeInv

LEMMA FadesUnclaimed ==
  ASSUME NEW x, NEW y, Fades(x, y), NEW r \in Promises, Unclaimed(x, r)
  PROVE  Unclaimed(y, r)
<1>1. r # None
  BY SettlementAssumption DEF Promises, None
<1>2. \A c \in Contexts : y.ctx[c].owes # r
  BY <1>1 DEF Fades, Unclaimed
<1>3. \A p \in Promises :
       /\ r \notin y.promises[p].elements
       /\ \A i \in DOMAIN y.promises[p].handlers : y.promises[p].handlers[i].child # r
  BY DEF Fades, Unclaimed
<1>4. \A e \in 1 .. Entries :
        y.linked[e].live /\ y.linked[e].ctx = None => y.linked[e].promise # r
  BY DEF Fades, Unclaimed
<1> QED BY <1>2, <1>3, <1>4 DEF Unclaimed

LEMMA ThenRests ==
  ASSUME Good(st), Rests(st, {}), NEW c \in Contexts, NEW p \in Promises,
         NEW kind \in {"pass", "spawn"}, Then(c, p, kind)
  PROVE  Rests(st', {})
<1>1. PICK b, z, r : ThenLeads(b, z, r, p, kind, st')
  BY ThenSteps
<1> DEFINE h == [kind |-> kind, child |-> r]
           x == Chained(z, r, p, kind)
           y == HandlersPopped(x, p)
           status == x.promises[p].status
           t == [kind |-> kind, child |-> r, status |-> status]
<1>2. /\ Fades(st, b) /\ Pends(b, z, r) /\ Made(z, p)
      /\ st' = IF z.promises[p].status = "pending" THEN x ELSE ProcessHandlers(x, p)
  BY <1>1 DEF ThenLeads
<1>3. /\ Good(z) /\ z \in StateType /\ PromiseInv(z) /\ Made(z, r) /\ r \in Promises
      /\ z.promises[r].status = "pending"
  BY <1>2 DEF Pends, Creates, Good, Inv
<1>4. Rests(b, {})
  BY <1>2, FadesRests
<1>5. PICK from : NoticeInv(b, <<>>, from, {})
  BY <1>4 DEF Rests
<1>6. NoticeInv(z, <<>>, from, {}) /\ Unclaimed(z, r) /\ z.promises[r].elements = {}
  BY <1>2, <1>5, PendsNotices
<1>7. Single(h) /\ h.child = r /\ h \in HandlerType
  BY <1>3 DEF Single, HandlerType
<1>8. from \in [DOMAIN <<>> -> Promises] /\ \A i \in DOMAIN <<>> : FALSE
  BY <1>6 DEF NoticeInv, HandlersInv
<1>9. CASE z.promises[p].status = "pending"
  <2>1. x = WithHandlers(z, p, Append(z.promises[p].handlers, h))
    BY DEF Chained
  <2> HIDE DEF h, x
  <2>2. PICK n : Adds(z, from, x, <<>>, from, p, n, h, p)
    BY <1>3, <1>7, <2>1, AppendAdds
  <2>3. NoticeInv(x, <<>>, from, {})
    BY <1>3, <1>6, <1>7, <1>8, <2>2, SingleAdds
  <2> QED BY <1>2, <1>9, <2>3 DEF Rests
<1>10. CASE z.promises[p].status # "pending"
  <2> DEFINE todo == Popped(x, p, status)
             f == <<p>>
  <2>1. x = Chained(z, r, p, kind) /\ y = HandlersPopped(x, p) /\ status = x.promises[p].status
    OBVIOUS
  <2> HIDE DEF x, y, status
  <2>2. /\ Good(y) /\ Fades(z, y) /\ status \in Status /\ status = z.promises[p].status
        /\ todo = <<t>> /\ x \in StateType /\ Tasks(y, todo)
    BY <1>2, <1>3, <1>10, <2>1, ChainedPops
  <2>3. Unclaimed(y, r) /\ y.promises[r].elements = {} /\ y.promises[r].status = "pending"
        /\ y.promises[p].status = status
    <3>1. y.promises[r].elements = {} /\ y.promises[r].status = "pending"
          /\ y.promises[p].status = status
      BY <1>3, <1>6, <2>2 DEF Fades
    <3> QED BY <1>3, <1>6, <2>2, <3>1, FadesUnclaimed
  <2>4. NoticeInv(y, <<>>, from, {})
    <3>1. /\ HandlersInv(z, <<>>, from) /\ SourcesInv(z, <<>>, {}) /\ ShapeInv(z)
          /\ \A s \in Promises : ResultInv(z, <<>>, from, s)
      BY <1>6 DEF NoticeInv
    <3>2. Tasks(z, <<>>)
      BY NoTasks
    <3> QED BY <1>3, <2>2, <3>1, <3>2, FadesKeeps DEF NoticeInv
  <2>5. t.kind = h.kind /\ t.child = h.child /\ t.status = status
    BY <1>7
  <2>6. /\ DOMAIN <<t>> = {1} /\ <<t>>[1] = t /\ DOMAIN f = {1} /\ f[1] = p
        /\ DOMAIN <<>> = {}
    OBVIOUS
  <2>7. p \in Promises /\ 0 \in Lists /\ \A a \in Lists : a # 0 => a \in Promises
    BY ListOfPromise
  <2>8. f \in [DOMAIN todo -> Promises]
    BY <2>2, <2>6, <2>7
  <2> HIDE DEF t, h, f, todo
  <2>9. /\ DOMAIN todo = {1} /\ todo[1] = t
    BY <2>2, <2>6
  <2>10. Adds(y, from, y, todo, f, 0, 1, h, p)
    <3>1. \A a \in Lists : a # 0 => /\ Listed(y, todo, a) = Listed(y, <<>>, a)
                                    /\ Places(y, todo, a) = Places(y, <<>>, a)
                                    /\ \A i : Origin(f, a, i) = Origin(from, a, i)
      BY DEF Listed, Places, Origin
    <3>2. /\ Listed(y, todo, 0) = todo /\ Places(y, todo, 0) = {1}
          /\ Places(y, <<>>, 0) = {} /\ Origin(f, 0, 1) = p
      BY <2>6, <2>9 DEF Listed, Places, Origin
    <3>3. \A a \in Lists : \A i : ~(a = 0 /\ i = 1) =>
            (i \in Places(y, todo, a) <=> i \in Places(y, <<>>, a))
      BY <3>1, <3>2
    <3>4. \A a \in Lists : \A i \in Places(y, <<>>, a) :
            /\ Listed(y, todo, a)[i] = Listed(y, <<>>, a)[i]
            /\ Origin(f, a, i) = Origin(from, a, i)
      BY <3>1, <3>2
    <3> QED BY <2>5, <2>7, <2>9, <3>2, <3>3, <3>4 DEF Adds
  <2>11. \A i \in DOMAIN todo :
           todo[i].status \in Status /\ y.promises[f[i]].status = todo[i].status
    BY <2>2, <2>3, <2>5, <2>6, <2>9
  <2>12. NoticeInv(y, todo, f, {})
    BY <1>3, <1>7, <2>2, <2>3, <2>4, <2>8, <2>10, <2>11, SingleAdds
  <2>13. /\ Inv(HandlersPopped(x, p), {}) /\ HandlersPopped(x, p) \in StateType
         /\ x.promises[p].status \in Status
         /\ NoticeInv(HandlersPopped(x, p), Popped(x, p, x.promises[p].status), f, {})
         /\ Tasks(HandlersPopped(x, p), Popped(x, p, x.promises[p].status))
    BY <2>1, <2>2, <2>12 DEF Good, todo
  <2>14. Rests(ProcessHandlers(x, p), {})
    BY <2>2, <2>13, ProcessHandlersRests
  <2> QED BY <1>2, <1>10, <2>14
<1> QED BY <1>9, <1>10

(***************************************************************************)
(* What every action leaves at rest: a new aggregate.                      *)
(***************************************************************************)
\* The aggregate r of p and q is made, and nothing else is disturbed; what it has heard
\* of them is left open.
Growing(x, from, r, p, q, race) ==
  /\ Bare(x, r) /\ Made(x, p) /\ Made(x, q) /\ p # q /\ p # r /\ q # r
  /\ x.promises[r].elements = {p, q} /\ x.promises[r].race = race
  /\ HandlersInv(x, <<>>, from) /\ SourcesInv(x, <<>>, {}) /\ ShapeInv(x)
  /\ \A s \in Promises : s # r => ResultInv(x, <<>>, from, s)
  /\ \A s \in Promises : r \notin x.promises[s].elements

\* A change of r's status, or of what it waits for
LEMMA GrowingStays ==
  ASSUME NEW x, NEW from, NEW r, NEW p, NEW q, NEW race, Growing(x, from, r, p, q, race),
         NEW rec \in PromiseType, rec.status # "none", rec.waiters = {}, rec.handlers = <<>>,
         rec.elements = x.promises[r].elements, rec.race = x.promises[r].race,
         NEW y, y = WithPromise(x, r, rec)
  PROVE  /\ Growing(y, from, r, p, q, race) /\ y.promises[r] = rec
         /\ \A s \in Promises : s # r => y.promises[s] = x.promises[s]
         /\ \A d : Unheard(y, <<>>, from, r, d) <=> Unheard(x, <<>>, from, r, d)
<1>1. /\ Bare(x, r) /\ x \in StateType /\ PromiseInv(x) /\ r \in Promises
      /\ x.promises[r].handlers = <<>> /\ x.promises[r].elements = {p, q}
      /\ HandlersInv(x, <<>>, from) /\ SourcesInv(x, <<>>, {}) /\ ShapeInv(x)
      /\ \A s \in Promises : r \notin x.promises[s].elements
      /\ \A s \in Promises : s # r => ResultInv(x, <<>>, from, s)
  BY DEF Growing, Bare, Good, Inv, Made
<1>2. Bare(y, r) /\ \A s : Made(y, s) <=> Made(x, s)
  BY <1>1, BareStays
<1>3. /\ y.promises[r] = rec /\ y.ctx = x.ctx /\ y.linked = x.linked
      /\ \A s \in Promises : s # r => y.promises[s] = x.promises[s]
  BY <1>1 DEF WithPromise, StateType
<1>4. \A s \in Promises : /\ y.promises[s].handlers = x.promises[s].handlers
                          /\ y.promises[s].elements = x.promises[s].elements
                          /\ y.promises[s].race = x.promises[s].race
  BY <1>1, <1>3
<1>5. \A a \in Lists : /\ Listed(y, <<>>, a) = Listed(x, <<>>, a)
                       /\ Places(y, <<>>, a) = Places(x, <<>>, a)
  BY <1>4, ListOfPromise DEF Listed, Places
<1>6. \A s, d : Unheard(y, <<>>, from, s, d) <=> Unheard(x, <<>>, from, s, d)
  BY <1>5 DEF Unheard
<1>7. \A a \in Lists : \A i \in Places(x, <<>>, a) : Listed(x, <<>>, a)[i].child \in Promises
  BY <1>1, NoTasks, HandlerTypes
<1>8. HandlersInv(y, <<>>, from)
  <2>1. ASSUME NEW a \in Lists, NEW i \in Places(x, <<>>, a)
        PROVE  HandlerFits(y, Listed(x, <<>>, a)[i], Origin(from, a, i))
    <3> DEFINE h == Listed(x, <<>>, a)[i]
               o == Origin(from, a, i)
    <3>1. HandlerFits(x, h, o) /\ h.child \in Promises
      BY <1>1, <1>7 DEF HandlersInv
    <3> HIDE DEF h, o
    <3>2. /\ y.promises[h.child].elements = x.promises[h.child].elements
          /\ y.promises[h.child].race = x.promises[h.child].race
      BY <1>4, <3>1
    <3>3. Single(h) => h.child # r
      BY <1>1, <3>1 DEF HandlerFits
    <3>4. Single(h) => y.promises[h.child].status = x.promises[h.child].status
      BY <1>3, <3>1, <3>3
    <3>5. HandlerFits(y, h, o)
      BY <3>1, <3>2, <3>4 DEF HandlerFits
    <3> QED BY <3>5 DEF h, o
  <2>2. \A a \in Lists : \A i \in Places(y, <<>>, a) :
          HandlerFits(y, Listed(y, <<>>, a)[i], Origin(from, a, i))
    BY <1>5, <2>1
  <2>3. \A i \in DOMAIN <<>> : FALSE
    OBVIOUS
  <2>4. from \in [DOMAIN <<>> -> Promises]
    BY <1>1 DEF HandlersInv
  <2>5. \A a, b \in Lists : \A i \in Places(y, <<>>, a), j \in Places(y, <<>>, b) :
          LET h == Listed(y, <<>>, a)[i]
              k == Listed(y, <<>>, b)[j]
          IN h.child = k.child /\ Mark(h, Origin(from, a, i)) = Mark(k, Origin(from, b, j))
               => a = b /\ i = j
    BY <1>1, <1>5 DEF HandlersInv
  <2> QED BY <2>2, <2>3, <2>4, <2>5 DEF HandlersInv
<1>9. \A s \in Promises : SoleSource(x, <<>>, s) => SoleSource(y, <<>>, s) /\ s # r
  BY <1>1, <1>4, <1>5 DEF SoleSource
<1>10. SourcesInv(y, <<>>, {})
  <2>0. /\ \A c \in Contexts : x.ctx[c].owes # None => x.ctx[c].owes \in Promises
        /\ \A e \in 1 .. Entries : x.linked[e].live /\ x.linked[e].ctx = None =>
             x.linked[e].promise \in Promises
    BY <1>1, SourceTypes
  <2>1. ASSUME NEW c \in Contexts, y.ctx[c].owes # None
        PROVE  /\ SoleSource(y, <<>>, y.ctx[c].owes)
               /\ ~y.ctx[c].executor => y.promises[y.ctx[c].owes].status = "pending"
               /\ \A d \in Contexts : y.ctx[d].owes = y.ctx[c].owes => c = d
    <3>1. SoleSource(y, <<>>, x.ctx[c].owes) /\ x.ctx[c].owes # r /\ x.ctx[c].owes \in Promises
      BY <1>1, <1>3, <1>9, <2>0, <2>1 DEF SourcesInv
    <3> QED BY <1>1, <1>3, <2>1, <3>1 DEF SourcesInv
  <2>2. ASSUME NEW e \in 1 .. Entries, y.linked[e].live, y.linked[e].ctx = None
        PROVE  /\ SoleSource(y, <<>>, y.linked[e].promise)
               /\ \A c \in Contexts : y.ctx[c].owes # y.linked[e].promise
    BY <1>1, <1>3, <1>9, <2>0, <2>2 DEF SourcesInv
  <2> QED BY <2>1, <2>2 DEF SourcesInv
<1>11. \A s \in Promises : x.promises[s].status # "none" => y.promises[s].status # "none"
  BY <1>3
<1>12. \A s \in Promises : x.promises[s].elements \in SUBSET Promises
  BY <1>1, SourceTypes
<1>13. ShapeInv(y)
  <2> SUFFICES ASSUME NEW s \in Promises, y.promises[s].elements # {}
               PROVE  /\ y.promises[s].status # "none" /\ s \notin y.promises[s].elements
                      /\ \A d \in y.promises[s].elements : y.promises[d].status # "none"
                      /\ \E d, e \in y.promises[s].elements :
                           d # e /\ y.promises[s].elements = {d, e}
    BY DEF ShapeInv
  <2>1. y.promises[s].elements = x.promises[s].elements
    BY <1>4
  <2>2. /\ x.promises[s].status # "none" /\ s \notin x.promises[s].elements
        /\ \A d \in x.promises[s].elements : x.promises[d].status # "none"
        /\ \E d, e \in x.promises[s].elements :
             d # e /\ x.promises[s].elements = {d, e}
    BY <1>1, <2>1 DEF ShapeInv
  <2> QED BY <1>11, <1>12, <2>1, <2>2
<1>14. ASSUME NEW s \in Promises, s # r PROVE ResultInv(y, <<>>, from, s)
  <2> DEFINE k == x.promises[s]
  <2>1. y.promises[s] = k /\ ResultInv(x, <<>>, from, s)
    BY <1>1, <1>3, <1>14
  <2>2. \A d \in k.elements : y.promises[d] = x.promises[d]
    BY <1>1, <1>3, <1>12
  <2>3. k = x.promises[s]
    OBVIOUS
  <2> HIDE DEF k
  <2>4. Awaits(x, <<>>, from, s) => Awaits(y, <<>>, from, s)
    BY <1>6, <2>1, <2>2, <2>3 DEF Awaits
  <2>5. Told(x, s, k.status) => Told(y, s, k.status)
    BY <2>1, <2>2, <2>3 DEF Told
  <2> QED BY <2>1, <2>3, <2>4, <2>5 DEF ResultInv
<1>15. \A s \in Promises : r \notin y.promises[s].elements
  BY <1>1, <1>4
<1>16. /\ Made(y, p) /\ Made(y, q) /\ p # q /\ p # r /\ q # r
       /\ y.promises[r].elements = {p, q} /\ y.promises[r].race = race
  BY <1>1, <1>2, <1>4 DEF Growing
<1>17. Growing(y, from, r, p, q, race)
  BY <1>2, <1>8, <1>10, <1>13, <1>14, <1>15, <1>16 DEF Growing
<1> QED BY <1>3, <1>6, <1>17

\* No handler is there already for the child and the origin of one that is new.
LEMMA FreshHandler ==
  ASSUME NEW x \in StateType, NEW from, HandlersInv(x, <<>>, from),
         NEW e, NEW h, h.child \in Promises, HandlerFits(x, h, e), ~Single(h),
         ~Unheard(x, <<>>, from, h.child, e),
         x.promises[h.child].elements # {},
         NEW y, NEW n, Adds(x, from, y, <<>>, from, e, n, h, e)
  PROVE  HandlersInv(y, <<>>, from)
<1>1. ASSUME NEW a \in Lists, NEW i \in Places(x, <<>>, a), Listed(x, <<>>, a)[i].child = h.child,
             Mark(Listed(x, <<>>, a)[i], Origin(from, a, i)) = Mark(h, e)
      PROVE  FALSE
  <2> DEFINE k == Listed(x, <<>>, a)[i]
             o == Origin(from, a, i)
  <2>1. HandlerFits(x, k, o) /\ k.child = h.child
    BY <1>1 DEF HandlersInv
  <2>2. Mark(k, o) = Mark(h, e)
    BY <1>1
  <2>3. k = Listed(x, <<>>, a)[i] /\ o = Origin(from, a, i)
    OBVIOUS
  <2> HIDE DEF k, o
  <2>4. ~Single(k)
    BY <2>1 DEF HandlerFits
  <2>5. o = e
    BY <2>2, <2>4 DEF Mark
  <2> QED BY <2>1, <2>3, <2>4, <2>5 DEF Unheard
<1>2. from \in [DOMAIN <<>> -> Promises] /\ h.child \in Promises
  BY DEF HandlersInv
<1>3. \A i \in DOMAIN <<>> :
        <<>>[i].status \in Status /\ x.promises[from[i]].status = <<>>[i].status
  OBVIOUS
<1>4. \A a \in Lists : \A i \in Places(x, <<>>, a) :
        ~(/\ Listed(x, <<>>, a)[i].child = h.child
          /\ Mark(Listed(x, <<>>, a)[i], Origin(from, a, i)) = Mark(h, e))
  BY <1>1
<1> DEFINE todo == <<>>
<1>5. /\ Adds(x, from, y, todo, from, e, n, h, e) /\ from \in [DOMAIN todo -> Promises]
      /\ \A i \in DOMAIN todo :
           todo[i].status \in Status /\ x.promises[from[i]].status = todo[i].status
  BY <1>2, <1>3
<1>6. HandlersInv(y, todo, from)
  <2>1. h.child \in Promises
    BY <1>2
  <2> HIDE DEF todo
  <2> QED BY <2>1, <1>4, <1>5, AddsHandlers
<1> QED BY <1>6

\* A handler for r on the pending element e
LEMMA GrowingAdds ==
  ASSUME NEW x, NEW from, NEW r, NEW p, NEW q, NEW race, Growing(x, from, r, p, q, race),
         NEW e \in {p, q}, ~Unheard(x, <<>>, from, r, e), NEW h \in HandlerType,
         h.child = r, h.kind = IF race THEN "race" ELSE "all",
         NEW y, y = WithHandlers(x, e, Append(x.promises[e].handlers, h)), Bare(y, r)
  PROVE  /\ Growing(y, from, r, p, q, race)
         /\ \A s \in Promises : y.promises[s].status = x.promises[s].status
         /\ y.promises[r].remaining = x.promises[r].remaining
         /\ \A d : Unheard(y, <<>>, from, r, d) <=> Unheard(x, <<>>, from, r, d) \/ d = e
<1>1. /\ Bare(x, r) /\ x \in StateType /\ PromiseInv(x) /\ r \in Promises
      /\ x.promises[r].elements = {p, q} /\ x.promises[r].race = race
      /\ HandlersInv(x, <<>>, from) /\ SourcesInv(x, <<>>, {}) /\ ShapeInv(x)
      /\ \A s \in Promises : r \notin x.promises[s].elements
      /\ \A s \in Promises : s # r => ResultInv(x, <<>>, from, s)
      /\ e \in Promises
  BY DEF Growing, Bare, Good, Inv, Made
<1>2. ~Single(h) /\ HandlerFits(x, h, e)
  BY <1>1 DEF Single, HandlerFits
<1>3. PICK n : Adds(x, from, y, <<>>, from, e, n, h, e)
  BY <1>1, AppendAdds
<1>6. HandlersInv(y, <<>>, from)
  <2>1. /\ h.child \in Promises /\ ~Unheard(x, <<>>, from, h.child, e)
        /\ x.promises[h.child].elements # {}
    BY <1>1
  <2> QED BY <1>1, <1>2, <1>3, <2>1, FreshHandler
<1>7. SourcesInv(y, <<>>, {}) /\ ShapeInv(y)
  BY <1>1, <1>2, <1>3, AddsSources
<1>8. \A s \in Promises : s # r => ResultInv(y, <<>>, from, s)
  BY <1>1, <1>3, AddsResults
<1>9. \A d : Unheard(y, <<>>, from, r, d) <=> Unheard(x, <<>>, from, r, d) \/ d = e
  BY <1>2, <1>3, AddsUnheard
<1>10. \A s \in Promises :
         /\ y.promises[s].status = x.promises[s].status
         /\ y.promises[s].elements = x.promises[s].elements
         /\ y.promises[s].race = x.promises[s].race
         /\ y.promises[s].remaining = x.promises[s].remaining
  BY <1>3 DEF Adds
<1>11. Made(y, p) /\ Made(y, q) /\ p # q /\ p # r /\ q # r
  BY <1>10 DEF Growing, Made
<1>12. /\ y.promises[r].elements = {p, q} /\ y.promises[r].race = race
       /\ \A s \in Promises : r \notin y.promises[s].elements
       /\ y.promises[r].remaining = x.promises[r].remaining
  BY <1>1, <1>10
<1>13. Growing(y, from, r, p, q, race)
  BY <1>6, <1>7, <1>8, <1>11, <1>12 DEF Growing
<1> QED BY <1>9, <1>10, <1>12, <1>13

\* What r learns of element e
Hears(x, y, from, r, e) ==
  LET k == x.promises[r]
      j == y.promises[r]
      status == x.promises[e].status
  IN /\ \A s \in Promises : s # r => y.promises[s].status = x.promises[s].status
     /\ IF k.status # "pending" THEN j.status = k.status /\ j.remaining = k.remaining
        ELSE IF status = "pending"
        THEN /\ j.status = "pending" /\ j.remaining = k.remaining
             /\ \A d : Unheard(y, <<>>, from, r, d) <=> Unheard(x, <<>>, from, r, d) \/ d = e
        ELSE IF k.race \/ status = "rejected"
        THEN j.status = status /\ j.remaining = k.remaining
        ELSE /\ j.status = "pending" /\ j.remaining = k.remaining - 1
             /\ \A d : Unheard(y, <<>>, from, r, d) <=> Unheard(x, <<>>, from, r, d)
     /\ \A d : Unheard(y, <<>>, from, r, d) => Unheard(x, <<>>, from, r, d) \/ d = e

LEMMA ElementGrows ==
  ASSUME NEW x, NEW from, NEW r, NEW p, NEW q, NEW race, Growing(x, from, r, p, q, race),
         NEW e \in {p, q}, ~Unheard(x, <<>>, from, r, e), NEW y, y = Element(x, r, e)
  PROVE  Growing(y, from, r, p, q, race) /\ Hears(x, y, from, r, e)
<1> DEFINE k == x.promises[r]
           status == x.promises[e].status
           h == [kind |-> IF k.race THEN "race" ELSE "all", child |-> r]
<1>1. /\ Bare(x, r) /\ x \in StateType /\ r \in Promises /\ e \in Promises /\ e # r
      /\ Made(x, e) /\ k.race = race
  BY DEF Growing, Bare, Good, Made
<1>2. Bare(y, r)
  BY <1>1, ElementKeeps
<1>3. k \in PromiseType /\ k.waiters = {} /\ k.handlers = <<>> /\ k.status # "none"
      /\ status # "none" /\ status \in {"none", "pending"} \cup Status
  BY <1>1 DEF StateType, Bare, Made, PromiseType
<1>4. CASE k.status # "pending"
  BY <1>4 DEF Element, Hears
<1>5. CASE k.status = "pending" /\ status = "pending"
  <2>1. /\ h \in HandlerType /\ h.child = r /\ h.kind = IF race THEN "race" ELSE "all"
    BY <1>1 DEF HandlerType
  <2>2. y = WithHandlers(x, e, Append(x.promises[e].handlers, h))
    BY <1>5 DEF Element, WithHandlers
  <2> HIDE DEF h
  <2>3. /\ Growing(y, from, r, p, q, race)
        /\ \A s \in Promises : y.promises[s].status = x.promises[s].status
        /\ y.promises[r].remaining = x.promises[r].remaining
        /\ \A d : Unheard(y, <<>>, from, r, d) <=> Unheard(x, <<>>, from, r, d) \/ d = e
    BY <1>2, <2>1, <2>2, GrowingAdds
  <2> QED BY <1>1, <1>5, <2>3 DEF Hears
<1>6. CASE k.status = "pending" /\ status # "pending" /\ (k.race \/ status = "rejected")
  <2> DEFINE rec == [k EXCEPT !.status = status]
  <2>1. /\ rec \in PromiseType /\ rec.status # "none" /\ rec.waiters = {}
        /\ rec.handlers = <<>> /\ rec.elements = k.elements /\ rec.race = k.race
        /\ rec.status = status /\ rec.remaining = k.remaining
    <3> HIDE DEF k, status
    <3> QED BY <1>3 DEF PromiseType
  <2>2. y = WithPromise(x, r, rec)
    BY <1>6 DEF Element, WithPromise
  <2> HIDE DEF rec
  <2>3. /\ Growing(y, from, r, p, q, race) /\ y.promises[r] = rec
        /\ \A s \in Promises : s # r => y.promises[s] = x.promises[s]
        /\ \A d : Unheard(y, <<>>, from, r, d) <=> Unheard(x, <<>>, from, r, d)
    BY <2>1, <2>2, GrowingStays
  <2> QED BY <1>6, <2>1, <2>3 DEF Hears
<1>7. CASE k.status = "pending" /\ status # "pending" /\ ~(k.race \/ status = "rejected")
  <2> DEFINE rec == [k EXCEPT !.remaining = k.remaining - 1]
  <2>1. /\ rec \in PromiseType /\ rec.status # "none" /\ rec.waiters = {}
        /\ rec.handlers = <<>> /\ rec.elements = k.elements /\ rec.race = k.race
        /\ rec.status = "pending" /\ rec.remaining = k.remaining - 1
    <3> HIDE DEF k
    <3> DEFINE n == k.remaining - 1
    <3>1. n \in Int
      BY <1>3 DEF PromiseType
    <3>2. rec = [k EXCEPT !.remaining = n]
      BY DEF n
    <3>3. n = k.remaining - 1
      OBVIOUS
    <3> HIDE DEF n, rec
    <3>4. /\ rec \in PromiseType /\ rec.status = k.status /\ rec.waiters = k.waiters
          /\ rec.handlers = k.handlers /\ rec.elements = k.elements /\ rec.race = k.race
          /\ rec.remaining = n
      BY <1>3, <3>1, <3>2 DEF PromiseType
    <3> QED BY <1>3, <1>7, <3>3, <3>4
  <2>2. y = WithPromise(x, r, rec)
    BY <1>7 DEF Element, WithPromise
  <2> HIDE DEF rec
  <2>3. /\ Growing(y, from, r, p, q, race) /\ y.promises[r] = rec
        /\ \A s \in Promises : s # r => y.promises[s] = x.promises[s]
        /\ \A d : Unheard(y, <<>>, from, r, d) <=> Unheard(x, <<>>, from, r, d)
    BY <2>1, <2>2, GrowingStays
  <2> QED BY <1>7, <2>1, <2>3 DEF Hears
<1> QED BY <1>4, <1>5, <1>6, <1>7

(***************************************************************************)
(* What a new aggregate has heard of its two elements.                     *)
(***************************************************************************)
\* r is made in z, hears of p in y and of q in x.
HearsBoth(z, y, x, from, r, p, q) ==
  /\ p # q /\ p # r /\ q # r /\ r \in Promises
  /\ z.promises[r].status = "pending" /\ z.promises[r].remaining = 2
  /\ y.promises[r].race = z.promises[r].race /\ x.promises[r].race = z.promises[r].race
  /\ x.promises[r].elements = {p, q} /\ \A d : ~Unheard(z, <<>>, from, r, d)
  /\ z.promises[p].status \in {"pending"} \cup Status
  /\ z.promises[q].status \in {"pending"} \cup Status
  /\ Hears(z, y, from, r, p) /\ Hears(y, x, from, r, q)

LEMMA HeardOf ==
  ASSUME NEW z, NEW y, NEW x, NEW from, NEW r, NEW p \in Promises,
         NEW q \in Promises, HearsBoth(z, y, x, from, r, p, q)
  PROVE  /\ z.promises[r].race \/ x.promises[r].remaining # 0 => ResultInv(x, <<>>, from, r)
         /\ ~z.promises[r].race /\ x.promises[r].remaining = 0 =>
              \A d \in {p, q} : x.promises[d].status = "resolved"
<1>0. /\ p # q /\ p # r /\ q # r /\ r \in Promises
      /\ z.promises[r].status = "pending" /\ z.promises[r].remaining = 2
      /\ y.promises[r].race = z.promises[r].race /\ x.promises[r].race = z.promises[r].race
      /\ x.promises[r].elements = {p, q} /\ \A d : ~Unheard(z, <<>>, from, r, d)
      /\ z.promises[p].status \in {"pending"} \cup Status
      /\ z.promises[q].status \in {"pending"} \cup Status
      /\ Hears(z, y, from, r, p) /\ Hears(y, x, from, r, q)
  BY DEF HearsBoth
<1> DEFINE race == z.promises[r].race
           sp == z.promises[p].status
           sq == z.promises[q].status
           ky == y.promises[r].status
           kx == x.promises[r].status
           ny == y.promises[r].remaining
           nx == x.promises[r].remaining
           U(d) == Unheard(x, <<>>, from, r, d)
           V(d) == Unheard(y, <<>>, from, r, d)
<1>1. /\ y.promises[p].status = sp /\ y.promises[q].status = sq
      /\ x.promises[p].status = sp /\ x.promises[q].status = sq
  BY <1>0 DEF Hears
<1>2. /\ sp = "pending" => ky = "pending" /\ ny = 2 /\ \A d : V(d) <=> d = p
      /\ sp # "pending" /\ (race \/ sp = "rejected") => ky = sp /\ ny = 2
      /\ sp # "pending" /\ ~(race \/ sp = "rejected") =>
           ky = "pending" /\ ny = 2 - 1 /\ \A d : ~V(d)
  BY <1>0 DEF Hears
<1>3. /\ ky # "pending" => kx = ky /\ nx = ny
      /\ ky = "pending" /\ sq = "pending" =>
           kx = "pending" /\ nx = ny /\ \A d : U(d) <=> V(d) \/ d = q
      /\ ky = "pending" /\ sq # "pending" /\ (race \/ sq = "rejected") => kx = sq /\ nx = ny
      /\ ky = "pending" /\ sq # "pending" /\ ~(race \/ sq = "rejected") =>
           kx = "pending" /\ nx = ny - 1 /\ \A d : U(d) <=> V(d)
  BY <1>0, <1>1 DEF Hears
<1>4. sp \in {"pending", "resolved", "rejected"} /\ sq \in {"pending", "resolved", "rejected"}
  BY <1>0 DEF Status
<1>5. sp = x.promises[p].status /\ sq = x.promises[q].status /\ race = z.promises[r].race
  BY <1>1
<1> DEFINE a == x.promises[r]
<1>6. a = x.promises[r] /\ a.status = kx /\ a.remaining = nx /\ a.race = race
      /\ a.elements = {p, q} /\ \A d : U(d) <=> Unheard(x, <<>>, from, r, d)
  BY <1>0
<1> HIDE DEF race, sp, sq, ky, kx, ny, nx, U, V, a
<1>7. ASSUME kx = "pending", IF race THEN U(p) /\ U(q)
                             ELSE /\ nx \in {1, 2}
                                  /\ U(p) \/ sp = "resolved"
                                  /\ U(q) \/ sq = "resolved"
                                  /\ nx = 2 <=> U(p) /\ U(q)
                                  /\ U(p) \/ U(q)
      PROVE  ResultInv(x, <<>>, from, r)
  <2>1. Awaits(x, <<>>, from, r)
    BY <1>5, <1>6, <1>7 DEF Awaits
  <2> QED BY <1>6, <1>7, <2>1 DEF ResultInv
<1>8. ASSUME kx # "pending", race \/ kx # "resolved", kx \in {sp, sq}
      PROVE  ResultInv(x, <<>>, from, r)
  <2>1. \E d \in a.elements : x.promises[d].status = kx
    BY <1>5, <1>6, <1>8
  <2>2. Told(x, r, kx)
    BY <1>6, <1>8, <2>1 DEF Told
  <2> QED BY <1>6, <1>8, <2>2 DEF ResultInv
<1>9. ASSUME race PROVE ResultInv(x, <<>>, from, r)
  <2>1. CASE sp = "pending" /\ sq = "pending"
    BY <1>2, <1>3, <1>7, <1>9, <2>1
  <2>2. CASE sp = "pending" /\ sq # "pending"
    BY <1>2, <1>3, <1>8, <1>9, <2>2
  <2>3. CASE sp # "pending"
    BY <1>2, <1>3, <1>8, <1>9, <2>3
  <2> QED BY <2>1, <2>2, <2>3
<1>10. ASSUME ~race
       PROVE  /\ nx # 0 => ResultInv(x, <<>>, from, r)
              /\ nx = 0 => \A d \in {p, q} : x.promises[d].status = "resolved"
  <2>1. CASE sp = "pending" /\ sq = "pending"
    BY <1>2, <1>3, <1>6, <1>7, <1>10, <2>1
  <2>2. CASE sp = "pending" /\ sq = "resolved"
    <3>1. kx = "pending" /\ nx = 1 /\ U(p) /\ ~U(q)
      BY <1>0, <1>2, <1>3, <1>10, <2>2
    <3> QED BY <1>6, <1>7, <1>10, <2>2, <3>1
  <2>3. CASE sp = "pending" /\ sq = "rejected"
    <3>1. kx = "rejected" /\ nx = 2
      BY <1>2, <1>3, <1>10, <2>3
    <3> QED BY <1>6, <1>8, <1>10, <2>3, <3>1
  <2>4. CASE sp = "rejected"
    <3>1. kx = "rejected" /\ nx = 2
      BY <1>2, <1>3, <1>10, <2>4
    <3> QED BY <1>6, <1>8, <1>10, <2>4, <3>1
  <2>5. CASE sp = "resolved" /\ sq = "pending"
    <3>1. kx = "pending" /\ nx = 1 /\ U(q) /\ ~U(p)
      BY <1>0, <1>2, <1>3, <1>10, <2>5
    <3> QED BY <1>6, <1>7, <1>10, <2>5, <3>1
  <2>6. CASE sp = "resolved" /\ sq = "rejected"
    <3>1. kx = "rejected" /\ nx = 1
      BY <1>2, <1>3, <1>10, <2>6
    <3> QED BY <1>6, <1>8, <1>10, <2>6, <3>1
  <2>7. CASE sp = "resolved" /\ sq = "resolved"
    <3>1. nx = 0
      BY <1>2, <1>3, <1>10, <2>7
    <3> QED BY <1>5, <1>6, <1>10, <2>7, <3>1
  <2> QED BY <1>4, <2>1, <2>2, <2>3, <2>4, <2>5, <2>6, <2>7
<1>11. /\ race \/ nx # 0 => ResultInv(x, <<>>, from, r)
       /\ ~race /\ nx = 0 => \A d \in {p, q} : x.promises[d].status = "resolved"
  BY <1>9, <1>10
<1> QED BY <1>5, <1>6, <1>11

LEMMA GrowingNotices ==
  ASSUME NEW x, NEW from, NEW r, NEW p, NEW q, NEW race, Growing(x, from, r, p, q, race),
         ResultInv(x, <<>>, from, r)
  PROVE  Rests(x, {})
BY DEF Growing, NoticeInv, Rests

LEMMA AggregateRests ==
  ASSUME Good(st), Rests(st, {}), NEW c \in Contexts, NEW p \in Promises, NEW q \in Promises,
         p # q, NEW race \in BOOLEAN, Aggregate(c, p, q, race)
  PROVE  Rests(st', {})
<1>1. PICK b, z, r : AggregateLeads(b, z, r, p, q, race, st')
  BY AggregateSteps
<1> DEFINE y == Element(z, r, p)
           x == Element(y, r, q)
           rec == Resolved(x, r)
<1>2. /\ Fades(st, b) /\ Good(b) /\ Good(z) /\ Creates(b, z, r)
      /\ Made(b, p) /\ Made(b, q) /\ p # r /\ q # r
      /\ z.promises[r].status = "pending" /\ z.promises[r].waiters = {}
      /\ z.promises[r].handlers = <<>> /\ z.promises[r].remaining = 2
      /\ z.promises[r].elements = {p, q} /\ z.promises[r].race = race
      /\ st' = IF ~race /\ x.promises[r].remaining = 0 THEN WithPromise(x, r, rec) ELSE x
  BY <1>1 DEF AggregateLeads
<1>3. y = Element(z, r, p) /\ x = Element(y, r, q) /\ rec = Resolved(x, r)
  OBVIOUS
<1> HIDE DEF y, x, rec
<1>4. Rests(b, {})
  BY <1>2, FadesRests
<1>5. PICK from : NoticeInv(b, <<>>, from, {})
  BY <1>4 DEF Rests
<1>6. \E d, e : d # e /\ z.promises[r].elements = {d, e} /\ Made(b, d) /\ Made(b, e)
  BY <1>2
<1>7. /\ HandlersInv(z, <<>>, from) /\ SourcesInv(z, <<>>, {}) /\ ShapeInv(z)
      /\ \A s \in Promises : s # r => ResultInv(z, <<>>, from, s)
      /\ Unclaimed(z, r)
  BY <1>2, <1>5, <1>6, CreatedNotices
<1>8. r \in Promises /\ Made(z, r) /\ Made(z, p) /\ Made(z, q)
  BY <1>2 DEF Creates, Made
<1>9. Growing(z, from, r, p, q, race)
  <2>1. \A s \in Promises : r \notin z.promises[s].elements
    BY <1>7 DEF Unclaimed
  <2>2. Bare(z, r)
    BY <1>2, <1>8 DEF Bare
  <2> QED BY <1>2, <1>7, <1>8, <2>1, <2>2 DEF Growing
<1>10. \A d : ~Unheard(z, <<>>, from, r, d)
  <2>1. DOMAIN <<>> = {}
    OBVIOUS
  <2> QED BY <1>7, <2>1, ListOfPromise DEF Unclaimed, Unheard, Places, Listed
<1>11. Growing(y, from, r, p, q, race) /\ Hears(z, y, from, r, p)
  BY <1>3, <1>9, <1>10, ElementGrows
<1>12. ~Unheard(y, <<>>, from, r, q)
  BY <1>10, <1>11 DEF Hears
<1>13. Growing(x, from, r, p, q, race) /\ Hears(y, x, from, r, q)
  BY <1>3, <1>11, <1>12, ElementGrows
<1>14. /\ z.promises[p].status \in {"pending"} \cup Status
       /\ z.promises[q].status \in {"pending"} \cup Status
  BY <1>2, <1>8 DEF Good, StateType, PromiseType, Made
<1>15. /\ y.promises[r].race = race /\ x.promises[r].race = race
       /\ x.promises[r].elements = {p, q} /\ Bare(x, r)
  BY <1>11, <1>13 DEF Growing
<1>16. /\ z.promises[r].race \/ x.promises[r].remaining # 0 => ResultInv(x, <<>>, from, r)
       /\ ~z.promises[r].race /\ x.promises[r].remaining = 0 =>
            \A d \in {p, q} : x.promises[d].status = "resolved"
  <2>1. /\ r \in Promises /\ p # r /\ q # r
        /\ z.promises[r].status = "pending" /\ z.promises[r].remaining = 2
    BY <1>2, <1>8
  <2>2. Hears(z, y, from, r, p) /\ Hears(y, x, from, r, q)
    BY <1>11, <1>13
  <2>3. /\ y.promises[r].race = z.promises[r].race /\ x.promises[r].race = z.promises[r].race
        /\ x.promises[r].elements = {p, q}
    BY <1>2, <1>15
  <2>4. HearsBoth(z, y, x, from, r, p, q)
    BY <1>10, <1>14, <2>1, <2>2, <2>3 DEF HearsBoth
  <2> QED BY <2>4, HeardOf
<1>17. CASE race \/ x.promises[r].remaining # 0
  <2>1. ResultInv(x, <<>>, from, r)
    BY <1>2, <1>16, <1>17
  <2>2. Rests(x, {})
    BY <1>13, <2>1, GrowingNotices
  <2> QED BY <1>2, <1>17, <2>2
<1>18. CASE ~race /\ x.promises[r].remaining = 0
  <2> DEFINE w == WithPromise(x, r, rec)
  <2>1. /\ rec \in PromiseType /\ rec.status = "resolved" /\ rec.waiters = {}
        /\ rec.handlers = <<>> /\ rec.elements = x.promises[r].elements
        /\ rec.race = x.promises[r].race
    BY <1>3, <1>15, ResolvedKeeps
  <2>2. w = WithPromise(x, r, rec) /\ rec.status # "none"
    BY <2>1
  <2> HIDE DEF w
  <2>3. /\ Growing(w, from, r, p, q, race) /\ w.promises[r] = rec
        /\ \A s \in Promises : s # r => w.promises[s] = x.promises[s]
        /\ \A d : Unheard(w, <<>>, from, r, d) <=> Unheard(x, <<>>, from, r, d)
    BY <1>13, <2>1, <2>2, GrowingStays
  <2>4. \A d \in rec.elements : w.promises[d].status = "resolved"
    BY <1>2, <1>15, <1>16, <1>18, <2>1, <2>3
  <2>5. Told(w, r, "resolved")
    BY <1>15, <1>18, <2>1, <2>3, <2>4 DEF Told
  <2>6. ResultInv(w, <<>>, from, r)
    BY <2>1, <2>3, <2>5 DEF ResultInv
  <2>7. Rests(w, {})
    BY <2>3, <2>6, GrowingNotices
  <2> QED BY <1>2, <1>18, <2>2, <2>7
<1> QED BY <1>17, <1>18

(***************************************************************************)
(* Every step leaves every notice at rest.                                 *)
(***************************************************************************)
LEMMA NextRests ==
  ASSUME Good(st), Rests(st, {}), Disciplined, Next
  PROVE  Rests(st', {})
<1>0. Fades(st, st') => Rests(st', {})
  BY FadesRests
<1>1. CASE \E c \in Contexts : Suspend(c) \/ RequestGrant(c) \/ CancelContext(c)
  BY <1>0, <1>1, SuspendGood, RequestGrantGood, CancelContextGood
<1>2. CASE \E c \in Contexts : \/ Link(c)
                               \/ \E status \in Status : Finish(c, status)
                               \/ \E executor \in BOOLEAN : Spawn(c, executor)
  BY <1>2, LinkRests, FinishRests, SpawnRests
<1>3. CASE \E c \in Contexts, p \in Promises : Await(c, p)
  BY <1>0, <1>3, AwaitGood
<1>4. CASE \E c \in Contexts, p \in Promises, kind \in {"pass", "spawn"} : Then(c, p, kind)
  BY <1>4, ThenRests
<1>5. CASE \E c \in Contexts, p \in Promises, status \in Status : SettleOwn(c, p, status)
  BY <1>5, SettleOwnRests
<1>6. CASE \E c \in Contexts, p \in Promises, q \in Promises, race \in BOOLEAN :
             p < q /\ Aggregate(c, p, q, race)
  <2> SUFFICES ASSUME NEW c \in Contexts, NEW p \in Promises, NEW q \in Promises,
                      NEW race \in BOOLEAN, p < q, Aggregate(c, p, q, race)
               PROVE  Rests(st', {})
    BY <1>6
  <2>1. p # q
    BY SettlementAssumption DEF Promises
  <2> QED BY <2>1, AggregateRests
<1>7. CASE Start
  BY <1>7, StartRests
<1>8. CASE \E s \in st.settlers : Answer(s)
  <2> SUFFICES ASSUME NEW s \in st.settlers, Answer(s) PROVE Rests(st', {})
    BY <1>8
  <2>1. CASE ResolveCall(s)
    BY <1>0, <2>1, ResolveCallGood
  <2>2. CASE FinalizeGrant(s)
    BY <1>0, <2>2, FinalizeGrantGood
  <2>3. CASE SettleGrant(s)
    BY <1>0, <2>3, SettleGrantGood
  <2>4. CASE FailGrant(s)
    BY <1>0, <2>4, FailGrantGood
  <2>5. CASE \E status \in Status : SettleLinked(s, status)
    BY <2>5, SettleLinkedRests
  <2> QED BY <2>1, <2>2, <2>3, <2>4, <2>5 DEF Answer
<1>9. CASE \E e \in 1 .. Entries : Recover(e)
  <2>1. CASE \E e \in 1 .. Entries : ResumeGrant(e)
    BY <1>0, <2>1, ResumeGrantGood
  <2>2. CASE \E e \in 1 .. Entries, status \in Status : EmbedderSettle(e, status)
    BY <2>2, EmbedderSettleRests
  <2> QED BY <1>9, <2>1, <2>2 DEF Recover
<1>10. CASE Restart
  BY <1>0, <1>10, RestartGood
<1>11. CASE RejectOrphans
  BY <1>11, RejectOrphansRests
<1> QED BY <1>1, <1>2, <1>3, <1>4, <1>5, <1>6, <1>7, <1>8, <1>9, <1>10, <1>11 DEF Next

\* Between steps a settled promise has no handlers, so an aggregate has still to hear
\* of pending elements only.
LEMMA UnheardPending ==
  ASSUME NEW x \in StateType, PromiseInv(x), NEW from, HandlersInv(x, <<>>, from),
         NEW r, NEW p \in Promises, Unheard(x, <<>>, from, r, p)
  PROVE  x.promises[p].status = "pending"
<1>1. PICK a \in Lists : \E i \in Places(x, <<>>, a) :
        /\ ~Single(Listed(x, <<>>, a)[i]) /\ Listed(x, <<>>, a)[i].child = r
        /\ Origin(from, a, i) = p
  BY DEF Unheard
<1>2. PICK i \in Places(x, <<>>, a) : Origin(from, a, i) = p
  BY <1>1
<1>3. a # 0
  BY <1>2 DEF Places, Listed
<1>4. a = p /\ i \in DOMAIN x.promises[p].handlers
  BY <1>2, <1>3 DEF Origin, Places, Listed
<1>5. x.promises[p].handlers # <<>>
  BY <1>4
<1> QED BY <1>5 DEF PromiseInv

\* What is at rest agrees.
LEMMA RestsAgree ==
  ASSUME Good(st), Rests(st, {})
  PROVE  AggregatesAgree
<1>1. PICK from : NoticeInv(st, <<>>, from, {})
  BY DEF Rests
<1>2. /\ st \in StateType /\ PromiseInv(st) /\ HandlersInv(st, <<>>, from) /\ ShapeInv(st)
      /\ \A r \in Promises : ResultInv(st, <<>>, from, r)
  BY <1>1 DEF Good, Inv, NoticeInv
<1> SUFFICES ASSUME NEW r \in Promises, st.promises[r].elements # {}
             PROVE  LET a == st.promises[r]
                        is(status) == {p \in a.elements : st.promises[p].status = status}
                    IN IF a.race
                       THEN /\ (a.status = "pending") = (is("pending") = a.elements)
                            /\ a.status # "pending" => is(a.status) # {}
                       ELSE /\ (a.status = "rejected") = (is("rejected") # {})
                            /\ (a.status = "resolved") = (is("resolved") = a.elements)
  BY DEF AggregatesAgree
<1> DEFINE a == st.promises[r]
           S(p) == st.promises[p].status
           U(p) == Unheard(st, <<>>, from, r, p)
<1>3. PICK p, q : p # q /\ a.elements = {p, q} /\ p \in a.elements /\ q \in a.elements
  BY <1>2 DEF ShapeInv
<1>4. /\ p \in Promises /\ q \in Promises /\ S(p) # "none" /\ S(q) # "none"
      /\ a.status # "none" /\ a \in PromiseType
  <2>1. a \in PromiseType /\ a.elements \in SUBSET Promises
    BY <1>2 DEF StateType, PromiseType
  <2> QED BY <1>2, <1>3, <2>1 DEF ShapeInv
<1>5. /\ S(p) \in {"pending", "resolved", "rejected"} /\ S(q) \in {"pending", "resolved", "rejected"}
      /\ a.status \in {"pending", "resolved", "rejected"} /\ a.race \in BOOLEAN
  BY <1>2, <1>4 DEF StateType, PromiseType, Status
<1>6. (U(p) => S(p) = "pending") /\ (U(q) => S(q) = "pending")
  BY <1>2, <1>4, UnheardPending
<1>7. a.status = "pending" => Awaits(st, <<>>, from, r)
  BY <1>2 DEF ResultInv
<1>8. a.status # "pending" => Told(st, r, a.status)
  BY <1>2 DEF ResultInv
<1>9. CASE a.race
  <2>1. a.status = "pending" => S(p) = "pending" /\ S(q) = "pending"
    BY <1>3, <1>6, <1>7, <1>9 DEF Awaits
  <2>2. a.status # "pending" => S(p) = a.status \/ S(q) = a.status
    BY <1>3, <1>8, <1>9 DEF Told
  <2> QED BY <1>3, <1>9, <2>1, <2>2
<1>10. CASE ~a.race
  <2>1. a.status = "pending" => /\ S(p) \in {"pending", "resolved"}
                                /\ S(q) \in {"pending", "resolved"}
                                /\ S(p) = "pending" \/ S(q) = "pending"
    <3> SUFFICES ASSUME a.status = "pending"
                 PROVE  /\ S(p) \in {"pending", "resolved"} /\ S(q) \in {"pending", "resolved"}
                        /\ S(p) = "pending" \/ S(q) = "pending"
      OBVIOUS
    <3>1. /\ \A d \in a.elements : U(d) \/ S(d) = "resolved"
          /\ \E d \in a.elements : U(d)
      BY <1>7, <1>10 DEF Awaits
    <3> QED BY <1>3, <1>6, <3>1
  <2>2. a.status = "resolved" => S(p) = "resolved" /\ S(q) = "resolved"
    BY <1>3, <1>8, <1>10 DEF Told
  <2>3. a.status = "rejected" => S(p) = "rejected" \/ S(q) = "rejected"
    BY <1>3, <1>8, <1>10 DEF Told
  <2>4. a.status = "rejected" <=> S(p) = "rejected" \/ S(q) = "rejected"
    BY <1>5, <2>1, <2>2, <2>3
  <2>5. a.status = "resolved" <=> S(p) = "resolved" /\ S(q) = "resolved"
    BY <1>5, <2>1, <2>2, <2>3
  <2> QED BY <1>3, <1>10, <2>4, <2>5
<1> QED BY <1>9, <1>10

\* The invariant of every reachable state, with the handlers' part
LEMMA RestsAlways ==
  ASSUME Disciplined
  PROVE  Spec => [](Good(st) /\ Rests(st, {}))
<1>1. Init => Good(st) /\ Rests(st, {})
  BY InitGood, InitRests
<1>2. Good(st) /\ Rests(st, {}) /\ [Next]_st => (Good(st) /\ Rests(st, {}))'
  <2>1. ASSUME Good(st), Rests(st, {}), Next PROVE Good(st') /\ Rests(st', {})
    BY <2>1, NextGood, NextRests
  <2>2. ASSUME Good(st), Rests(st, {}), UNCHANGED st PROVE Good(st') /\ Rests(st', {})
    BY <2>2
  <2> QED BY <2>1, <2>2
<1> QED BY <1>1, <1>2, PTL DEF Spec

\* AggregatesAgree: the promise of Promise.all is rejected once an element is and
\* resolved once both are, that of Promise.race follows the first, however many of
\* the elements were settled when it was made (handlePromiseAll and
\* handlePromiseRace for those, the aggregators of the settle cascade for the
\* rest).
THEOREM AggregatesSayElements ==
  ASSUME Disciplined
  PROVE  Spec => []AggregatesAgree
<1>1. Good(st) /\ Rests(st, {}) => AggregatesAgree
  BY RestsAgree
<1> QED BY <1>1, RestsAlways, PTL

=============================================================================
