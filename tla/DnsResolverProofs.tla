------------------------- MODULE DnsResolverProofs -------------------------
(***************************************************************************)
(* Proofs about DnsResolver for any set of lookups, names and number of    *)
(* ids.                                                                    *)
(*                                                                         *)
(* What goes wrong when the id of a query that make_dns_query left in the  *)
(* map comes round is ruled out only where a theorem says so (NoReturn).   *)
(***************************************************************************)
EXTENDS DnsResolver, FiniteSets, FiniteSetTheorems, TLAPS

\* No query that an exception left in the map meets its id again: there is no
\* such query, or there are no more lookups than ids.
OneRound == IsFiniteSet(Lookups) /\ Cardinality(Lookups) <= IdSpace
NoReturn == BadNames = {} \/ OneRound

\* A query in the map was asked for, and its handler has not been posted.  It
\* has a timer with a valid token, unless its id is i; one that an exception
\* left behind never had.
EntryBut(x, i) ==
  \A l \in x.entries :
    /\ l \in x.asked /\ x.id[l] # -1
    /\ x.posted[l] = 0 /\ x.called[l] = 0
    /\ l \in x.threw => l \in BadNames /\ x.timer[l] = "none"
    /\ l \notin x.threw /\ x.id[l] # i => x.timer[l] # "none" /\ l \in x.live

EntryInv(x) == EntryBut(x, -1)

OnceInv(x) ==
  \A l \in Lookups :
    /\ x.posted[l] + x.called[l] <= 1
    /\ l \notin x.asked =>
         /\ x.posted[l] = 0 /\ x.called[l] = 0
         /\ l \notin x.threw /\ x.timer[l] = "none"

PcbInv(x) == NoReturn => x.pcbs \subseteq x.entries

IInv(x) == x \in Resolver /\ PcbInv(x) /\ EntryInv(x) /\ OnceInv(x)

\* The lookups that have an id.
Taken(x) == {l \in Lookups : x.id[l] # -1}

\* In the first round of ids no two lookups have the same, and next_id is the
\* one that nobody has.
Counted(x, n) ==
  n < IdSpace =>
    /\ x.next_id = IF n = IdSpace - 1 THEN 0 ELSE n + 1
    /\ \A l \in Taken(x) : x.id[l] \in 1 .. n

RoundInv(x) ==
  OneRound =>
    /\ Taken(x) \subseteq x.asked
    /\ \A l, m \in Taken(x) : x.id[l] = x.id[m] => l = m
    /\ Counted(x, Cardinality(Taken(x)))

\* No two queries in the map have the same id.
Apart(x) == \A l, m \in x.entries : x.id[l] = x.id[m] => l = m

Inv == IInv(d) /\ RoundInv(d) /\ Apart(d)

-----------------------------------------------------------------------------
(* The ids. *)

\* x' is y: its ids are those of x, and no query is new in its map.
SameIds(x, y) ==
  /\ y.id = x.id /\ y.next_id = x.next_id
  /\ x.asked \subseteq y.asked /\ y.entries \subseteq x.entries

\* x' is y: lookup l has got the next id, and may be in the map when no query
\* there has it.
TookId(x, y, l) ==
  /\ l \in Lookups \ x.asked /\ l \in y.asked /\ x.asked \subseteq y.asked
  /\ y.id = [x.id EXCEPT ![l] = x.next_id]
  /\ y.next_id = (x.next_id + 1) % IdSpace
  /\ l \notin x.entries /\ y.entries \subseteq x.entries \cup {l}
  /\ l \in y.entries => \A m \in x.entries : x.id[m] # x.next_id

\* A step that hands out no id keeps the ids of the round apart.
LEMMA SameRound == ASSUME NEW x, NEW y, RoundInv(x), SameIds(x, y) PROVE RoundInv(y)
<1>1. Taken(y) = Taken(x)
  BY DEF SameIds, Taken
<1> QED BY <1>1 DEF SameIds, RoundInv, Counted

\* While a lookup has not been asked for, fewer ids than there are have been taken.
LEMMA IdLeft ==
  ASSUME NEW x \in Resolver, RoundInv(x), OneRound, NEW l \in Lookups \ x.asked
  PROVE  LET n == Cardinality(Taken(x)) IN
         /\ n \in Nat /\ n < IdSpace /\ IsFiniteSet(Taken(x)) /\ l \notin Taken(x)
         /\ Cardinality(Taken(x) \cup {l}) = n + 1
<1> DEFINE T == Taken(x)  U == T \cup {l}
<1>1. T \subseteq Lookups /\ U \subseteq Lookups /\ l \notin T
  BY DEF RoundInv, Taken
<1>2. IsFiniteSet(Lookups) /\ Cardinality(Lookups) <= IdSpace
  BY DEF OneRound
<1> HIDE DEF T
<1>3. IsFiniteSet(T) /\ IsFiniteSet(U) /\ Cardinality(U) <= Cardinality(Lookups)
  BY <1>1, <1>2, FS_Subset
<1>4. Cardinality(T) \in Nat /\ Cardinality(Lookups) \in Nat
  BY <1>2, <1>3, FS_CardinalityType
<1>5. Cardinality(U) = Cardinality(T) + 1
  BY <1>1, <1>3, FS_AddElement
<1>6. Cardinality(T) < IdSpace
  BY <1>2, <1>3, <1>4, <1>5, Ids
<1> QED BY <1>1, <1>3, <1>4, <1>5, <1>6 DEF T

\* async_resolve taking the next id keeps the ids of the round apart.
LEMMA TookRound ==
  ASSUME NEW x \in Resolver, NEW y, NEW l, RoundInv(x), TookId(x, y, l)
  PROVE  RoundInv(y)
<1> SUFFICES ASSUME OneRound
             PROVE  /\ Taken(y) \subseteq y.asked
                    /\ \A k, m \in Taken(y) : y.id[k] = y.id[m] => k = m
                    /\ Counted(y, Cardinality(Taken(y)))
  BY DEF RoundInv
<1> DEFINE T == Taken(x)  n == Cardinality(T)  i == x.next_id
<1>0. /\ l \in Lookups \ x.asked /\ l \in y.asked /\ x.asked \subseteq y.asked
      /\ y.id = [x.id EXCEPT ![l] = i] /\ y.next_id = (i + 1) % IdSpace
  BY DEF TookId
<1>1. n \in Nat /\ n < IdSpace /\ l \notin T /\ Cardinality(T \cup {l}) = n + 1
  BY <1>0, IdLeft
<1>2. /\ i = IF n = IdSpace - 1 THEN 0 ELSE n + 1
      /\ \A m \in T : x.id[m] \in 1 .. n
      /\ T \subseteq x.asked /\ \A k, m \in T : x.id[k] = x.id[m] => k = m
  BY <1>1 DEF RoundInv, Counted
<1>3. /\ y.id[l] = i /\ \A m \in Lookups \ {l} : y.id[m] = x.id[m]
      /\ i \in Nat /\ i # -1
  BY <1>0 DEF Resolver
<1>4. Taken(y) = T \cup {l}
  BY <1>0, <1>3 DEF Taken
<1>5. \A m \in T : m \in Lookups /\ m # l /\ y.id[m] = x.id[m] /\ y.id[m] # i
  <2>1. \A m \in T : m \in Lookups /\ m # l
    BY <1>1 DEF Taken
  <2>2. \A m \in T : x.id[m] # i
    BY <1>1, <1>2, Ids
  <2> QED BY <2>1, <2>2, <1>3, Zenon
<1> HIDE DEF T, n, i
<1>6. \A k, m \in Taken(y) : y.id[k] = y.id[m] => k = m
  BY <1>2, <1>3, <1>4, <1>5
<1>7. Counted(y, n + 1)
  <2> SUFFICES ASSUME n + 1 < IdSpace
               PROVE  /\ y.next_id = IF n + 1 = IdSpace - 1 THEN 0 ELSE (n + 1) + 1
                      /\ \A m \in Taken(y) : y.id[m] \in 1 .. n + 1
    BY DEF Counted
  <2>1. i = n + 1
    BY <1>1, <1>2, Ids
  <2>2. y.next_id = IF n + 1 = IdSpace - 1 THEN 0 ELSE (n + 1) + 1
    <3>1. CASE n + 1 = IdSpace - 1
      <4>1. (i + 1) % IdSpace = 0
        BY <2>1, <3>1, <1>1, Ids
      <4> QED BY <4>1, <3>1, <1>0
    <3>2. CASE n + 1 # IdSpace - 1
      <4>1. i + 1 \in 0 .. IdSpace - 1
        BY <2>1, <3>2, <1>1, Ids
      <4>2. (i + 1) % IdSpace = i + 1
        BY <4>1, Ids
      <4> QED BY <4>2, <2>1, <3>2, <1>0
    <3> QED BY <3>1, <3>2
  <2>3. ASSUME NEW m \in Taken(y) PROVE y.id[m] \in 1 .. n + 1
    <3>1. CASE m = l
      BY <3>1, <2>1, <1>1, <1>3
    <3>2. CASE m # l
      <4>1. m \in T
        BY <3>2, <1>4
      <4>2. y.id[m] \in 1 .. n
        BY <4>1, <1>2, <1>5
      <4> QED BY <4>2, <1>1
    <3> QED BY <3>1, <3>2
  <2> QED BY <2>2, <2>3
<1>8. Taken(y) \subseteq y.asked
  BY <1>0, <1>2, <1>4
<1> QED BY <1>1, <1>4, <1>6, <1>7, <1>8

\* A new lookup keeps the ids in the map apart.
LEMMA TookApart ==
  ASSUME NEW x \in Resolver, NEW y, NEW l, Apart(x), TookId(x, y, l)
  PROVE  Apart(y)
<1>1. \A m \in x.entries : m \in Lookups /\ m # l /\ y.id[m] = x.id[m]
  BY DEF TookId, Resolver
<1>2. l \in Lookups /\ y.id[l] = x.next_id
  BY DEF TookId, Resolver
<1> QED BY <1>1, <1>2, Zenon DEF TookId, Apart

\* A new lookup gets an id that no query in the map has.
LEMMA IdClear ==
  ASSUME NEW l \in Lookups \ d.asked, Inv, IdIdle, NoReturn
  PROVE  \A m \in d.entries : d.id[m] # d.next_id
<1>0. d \in Resolver /\ d.entries \subseteq Lookups /\ RoundInv(d) /\ EntryInv(d)
  BY DEF Inv, IInv, Resolver
<1>1. CASE BadNames = {}
  BY <1>0, <1>1 DEF EntryInv, EntryBut, IdIdle
<1>2. CASE OneRound
  <2> DEFINE n == Cardinality(Taken(d))
  <2>1. n \in Nat /\ n < IdSpace
    BY <1>0, <1>2, IdLeft, Zenon
  <2>2. /\ d.next_id = IF n = IdSpace - 1 THEN 0 ELSE n + 1
        /\ \A m \in Taken(d) : d.id[m] \in 1 .. n
    BY <1>0, <1>2, <2>1 DEF RoundInv, Counted
  <2>3. d.entries \subseteq Taken(d)
    BY <1>0 DEF EntryInv, EntryBut, Taken
  <2> HIDE DEF n
  <2> QED BY <2>1, <2>2, <2>3, Ids
<1> QED BY <1>1, <1>2 DEF NoReturn

-----------------------------------------------------------------------------
(* complete_dns_query keeps the invariant, and repairs it when the one entry
   that has no timer is among those it completes.                          *)
LEMMA CompleteInv ==
  ASSUME NEW x \in Resolver, NEW i, PcbInv(x), OnceInv(x), EntryBut(x, i)
  PROVE  LET y == complete_dns_query(x, i)
         IN /\ IInv(y) /\ y.asked = x.asked /\ y.threw = x.threw
            /\ y.called = x.called /\ y.stops = x.stops /\ SameIds(x, y)
            /\ y.entries = x.entries \ Find(x, i)
            /\ \A l \in Lookups : y.posted[l] =
                 IF l \in Find(x, i) THEN x.posted[l] + 1 ELSE x.posted[l]
<1> DEFINE f == Find(x, i)
           e == x.entries \ f
           p == x.pcbs \ f
           t == [l \in Lookups |->
                   IF l \in f /\ x.timer[l] = "armed" THEN "none" ELSE x.timer[l]]
           q == [l \in Lookups |->
                   IF l \in f THEN x.posted[l] + 1 ELSE x.posted[l]]
           y == [x EXCEPT !.entries = e, !.pcbs = p, !.timer = t, !.posted = q]
<1>1. complete_dns_query(x, i) = y
  BY DEF complete_dns_query, Post, Cancel, Resolver
<1>2. /\ f \subseteq x.entries /\ e \in SUBSET Lookups /\ p \in SUBSET Lookups
      /\ t \in [Lookups -> {"none", "armed", "expired"}]
      /\ q \in [Lookups -> Nat] /\ (x.pcbs \subseteq x.entries => p \subseteq e)
      /\ \A l \in e : /\ l \in Lookups /\ l \in x.entries /\ l \notin f
                      /\ x.id[l] # i
      /\ \A l \in Lookups : l \notin f => t[l] = x.timer[l] /\ q[l] = x.posted[l]
      /\ \A l \in Lookups : l \in f => q[l] = x.posted[l] + 1
  BY DEF Find, Resolver
<1>3. f = Find(x, i)
  OBVIOUS
<1> HIDE DEF f, e, p, t, q
<1>4. /\ y \in Resolver /\ y.entries = e /\ y.pcbs = p /\ y.timer = t
      /\ y.posted = q /\ y.asked = x.asked /\ y.threw = x.threw
      /\ y.called = x.called /\ y.live = x.live /\ y.stops = x.stops
      /\ y.id = x.id /\ y.next_id = x.next_id
  BY <1>2, Zenon DEF Resolver
<1> HIDE DEF y
<1>5. EntryInv(y) /\ PcbInv(y) /\ SameIds(x, y)
  <2>1. EntryInv(y)
    <3> SUFFICES ASSUME NEW l \in e
                 PROVE  /\ l \in x.asked /\ x.id[l] # -1
                        /\ q[l] = 0 /\ x.called[l] = 0
                        /\ l \in x.threw => l \in BadNames /\ t[l] = "none"
                        /\ l \notin x.threw /\ x.id[l] # -1 => t[l] # "none" /\ l \in x.live
      BY <1>4, Zenon DEF EntryInv, EntryBut
    <3>1. l \in x.entries /\ x.id[l] # i /\ t[l] = x.timer[l] /\ q[l] = x.posted[l]
      BY <1>2, Zenon
    <3> QED BY <3>1, Zenon DEF EntryBut
  <2>2. PcbInv(y)
    BY <1>2, <1>4 DEF PcbInv
  <2>3. e \subseteq x.entries
    BY <1>2
  <2>4. SameIds(x, y)
    BY <1>4, <2>3 DEF SameIds
  <2> QED BY <2>1, <2>2, <2>4
<1>6. OnceInv(y)
  <2> SUFFICES ASSUME NEW l \in Lookups
               PROVE  /\ q[l] + x.called[l] <= 1
                      /\ l \notin x.asked =>
                           /\ q[l] = 0 /\ x.called[l] = 0
                           /\ l \notin x.threw /\ t[l] = "none"
    BY <1>4, Zenon DEF OnceInv
  <2>1. CASE l \in f
    BY <1>2, <2>1 DEF EntryBut
  <2>2. CASE l \notin f
    BY <1>2, <2>2 DEF OnceInv
  <2> QED BY <2>1, <2>2
<1> QED BY <1>1, <1>2, <1>3, <1>4, <1>5, <1>6 DEF IInv, e, q

(* A new lookup gets the next id and a PCB, and becomes an entry if no entry
   has that id.                                                             *)
LEMMA Emplaced ==
  ASSUME NEW l \in Lookups, Inv, l \notin d.asked, IdIdle
  PROVE  LET y == Emplace(TakeId(d, l), l)
             clear == \A m \in d.entries : d.id[m] # d.next_id
         IN /\ y \in Resolver /\ TookId(d, y, l)
            /\ y.entries = IF clear THEN d.entries \cup {l} ELSE d.entries
            /\ NoReturn => clear
            /\ y.pcbs = d.pcbs \cup {l} /\ y.asked = d.asked \cup {l}
            /\ y.id[l] = d.next_id /\ d.next_id # -1
            /\ \A m \in d.entries : y.id[m] = d.id[m] /\ m # l
            /\ y.timer = d.timer /\ y.live = d.live /\ y.threw = d.threw
            /\ y.posted = d.posted /\ y.called = d.called /\ y.stops = d.stops
<1> DEFINE n == (d.next_id + 1) % IdSpace
           j == [d.id EXCEPT ![l] = d.next_id]
           a == d.asked \cup {l}
           x == [d EXCEPT !.asked = a, !.id = j, !.next_id = n]
           clear == \A m \in d.entries : d.id[m] # d.next_id
           e == IF clear THEN d.entries \cup {l} ELSE d.entries
           p == d.pcbs \cup {l}
           y == [x EXCEPT !.pcbs = p, !.entries = e]
<1>0. d \in Resolver /\ d.entries \subseteq Lookups
  BY DEF Inv, IInv, Resolver
<1>a. NoReturn => clear
  BY IdClear
<1>b. \A m \in d.entries : m # l
  BY DEF Inv, IInv, EntryInv, EntryBut
<1>1. /\ n \in 0 .. IdSpace - 1 /\ j \in [Lookups -> -1 .. IdSpace - 1]
      /\ a \in SUBSET Lookups /\ e \in SUBSET Lookups /\ p \in SUBSET Lookups
      /\ j[l] = d.next_id /\ d.next_id # -1
      /\ \A m \in d.entries : j[m] = d.id[m]
  <2>1. n \in 0 .. IdSpace - 1
    BY <1>0, Ids DEF Resolver
  <2> HIDE DEF clear
  <2> QED BY <1>0, <1>b, <2>1, Ids DEF Resolver
<1>2. TakeId(d, l) = x
  BY <1>0 DEF TakeId, Resolver
<1>c. j = [d.id EXCEPT ![l] = d.next_id] /\ n = (d.next_id + 1) % IdSpace
      /\ a = d.asked \cup {l} /\ p = d.pcbs \cup {l}
      /\ e = IF clear THEN d.entries \cup {l} ELSE d.entries
  OBVIOUS
<1> HIDE DEF n, j, a, e, p
<1>3. /\ x \in Resolver /\ x.entries = d.entries /\ x.pcbs = d.pcbs
      /\ x.id = j /\ x.asked = a /\ x.next_id = n
      /\ x.timer = d.timer /\ x.live = d.live /\ x.threw = d.threw
      /\ x.posted = d.posted /\ x.called = d.called /\ x.stops = d.stops
  BY <1>0, <1>1, Zenon DEF Resolver
<1> HIDE DEF x
<1>4. Find(x, x.id[l]) = {} <=> clear
  BY <1>1, <1>3 DEF Find
<1> HIDE DEF clear
<1>5. Emplace(x, l) = y
  BY <1>3, <1>4, <1>c, Zenon DEF Emplace, Resolver
<1>6. /\ y \in Resolver /\ y.entries = e /\ y.pcbs = p
      /\ y.id = j /\ y.asked = a /\ y.next_id = n
      /\ y.timer = d.timer /\ y.live = d.live /\ y.threw = d.threw
      /\ y.posted = d.posted /\ y.called = d.called /\ y.stops = d.stops
  BY <1>1, <1>3, Zenon DEF Resolver
<1> HIDE DEF y
<1>7. TookId(d, y, l)
  <2>1. /\ l \notin d.entries /\ e \subseteq d.entries \cup {l}
        /\ l \in e => \A m \in d.entries : d.id[m] # d.next_id
    BY <1>b, <1>c DEF clear
  <2> QED BY <1>6, <1>c, <2>1 DEF TookId
<1> QED BY <1>1, <1>2, <1>5, <1>6, <1>7, <1>a, <1>b, <1>c DEF clear

\* A resolver nobody has asked yet satisfies the invariant.
LEMMA InitInv == Init => Inv
<1> SUFFICES ASSUME Init PROVE IInv(d) /\ RoundInv(d) /\ Apart(d)
  BY DEF Inv
<1>1. d \in Resolver
  BY Ids, Names DEF Init, Fresh, Resolver
<1>2. IInv(d)
  BY <1>1 DEF Init, Fresh, IInv, EntryInv, EntryBut, OnceInv, PcbInv
<1>3. Taken(d) = {} /\ d.next_id = 1 % IdSpace
  BY DEF Init, Fresh, Taken
<1>4. 1 % IdSpace = IF 0 = IdSpace - 1 THEN 0 ELSE 0 + 1
  BY Ids
<1>5. RoundInv(d)
  BY <1>3, <1>4, FS_EmptySet, Zenon DEF RoundInv, Counted
<1>6. Apart(d)
  BY DEF Init, Fresh, Apart
<1> QED BY <1>2, <1>5, <1>6

\* A lookup that ends inside async_resolve: only asked, threw, posted and the
\* id change, and no entry is concerned.
LEMMA NowInv ==
  ASSUME NEW l \in Lookups, NEW y \in Resolver, IInv(d), l \notin d.asked,
         y.asked = d.asked \cup {l}, y.threw \in {d.threw, d.threw \cup {l}},
         y.entries = d.entries, y.pcbs = d.pcbs, y.timer = d.timer,
         y.live = d.live, y.called = d.called,
         \A m \in d.entries : y.id[m] = d.id[m],
         y.posted[l] \in {0, 1},
         \A m \in Lookups \ {l} : y.posted[m] = d.posted[m]
  PROVE  IInv(y)
<1>1. l \notin d.entries /\ d.called[l] = 0 /\ d.entries \subseteq Lookups
  BY DEF IInv, EntryInv, EntryBut, OnceInv, Resolver
<1>2. EntryInv(y) /\ PcbInv(y)
  BY <1>1 DEF IInv, EntryInv, EntryBut, PcbInv
<1>3. OnceInv(y)
  <2> SUFFICES ASSUME NEW m \in Lookups
               PROVE  /\ y.posted[m] + d.called[m] <= 1
                      /\ m \notin d.asked \cup {l} =>
                           /\ y.posted[m] = 0 /\ d.called[m] = 0
                           /\ m \notin y.threw /\ d.timer[m] = "none"
    BY DEF OnceInv
  <2>1. CASE m = l
    BY <1>1, <2>1
  <2>2. CASE m # l
    BY <2>2 DEF IInv, OnceInv
  <2> QED BY <2>1, <2>2
<1> QED BY <1>2, <1>3 DEF IInv

\* Before it is sent or not, the new query is the only one that may lack a timer.
LEMMA EmplacedInv ==
  ASSUME NEW l \in Lookups, Inv, l \notin d.asked, IdIdle
  PROVE  LET x == Emplace(TakeId(d, l), l) IN
         x \in Resolver /\ PcbInv(x) /\ OnceInv(x) /\ EntryBut(x, d.next_id)
<1> DEFINE x == Emplace(TakeId(d, l), l)
           clear == \A m \in d.entries : d.id[m] # d.next_id
<1>0. IInv(d)
  BY DEF Inv
<1>1. /\ x \in Resolver
      /\ x.entries = IF clear THEN d.entries \cup {l} ELSE d.entries
      /\ NoReturn => clear
      /\ x.pcbs = d.pcbs \cup {l} /\ x.asked = d.asked \cup {l}
      /\ x.id[l] = d.next_id /\ d.next_id # -1
      /\ \A m \in d.entries : x.id[m] = d.id[m] /\ m # l
      /\ x.timer = d.timer /\ x.live = d.live /\ x.threw = d.threw
      /\ x.posted = d.posted /\ x.called = d.called
  BY Emplaced, Zenon
<1> HIDE DEF x, clear
<1>2. l \notin d.threw /\ d.posted[l] = 0 /\ d.called[l] = 0
  BY <1>0 DEF IInv, OnceInv
<1>3. OnceInv(x)
  BY <1>0, <1>1, ZenonT(40) DEF IInv, OnceInv
<1>4. PcbInv(x)
  BY <1>0, <1>1 DEF IInv, PcbInv
<1>5. EntryBut(x, d.next_id)
  BY <1>0, <1>1, <1>2 DEF IInv, EntryInv, EntryBut
<1> QED BY <1>1, <1>3, <1>4, <1>5 DEF x

\* async_resolve, dns_recv, the timer, its handler and stop keep the invariant.
LEMMA StepInv ==
  ASSUME Inv, [Next]_vars
  PROVE  IInv(d')
<1>0. IInv(d) /\ d \in Resolver /\ d.entries \subseteq Lookups
  BY DEF Inv, IInv, Resolver
<1>a. \A i : EntryBut(d, i)
  BY <1>0 DEF IInv, EntryInv, EntryBut
<1>1. ASSUME NEW l \in Lookups, async_resolve_now(l) PROVE IInv(d')
  <2>1. ASSUME NEW x \in Resolver, x.asked = d.asked \cup {l},
               x.threw = d.threw, x.entries = d.entries, x.pcbs = d.pcbs,
               x.timer = d.timer, x.live = d.live, x.called = d.called,
               x.posted = d.posted, \A m \in d.entries : x.id[m] = d.id[m],
               d' = Post(x, {l})
        PROVE  IInv(d')
    <3> DEFINE q == [m \in Lookups |->
                       IF m \in {l} THEN x.posted[m] + 1 ELSE x.posted[m]]
               y == [x EXCEPT !.posted = q]
    <3>1. d.posted[l] = 0
      BY <1>0, <1>1 DEF async_resolve_now, IInv, OnceInv
    <3>2. /\ q \in [Lookups -> Nat] /\ q[l] = 1
          /\ \A m \in Lookups \ {l} : q[m] = d.posted[m]
      BY <2>1, <3>1 DEF Resolver
    <3>3. d' = y
      BY <2>1 DEF Post
    <3> HIDE DEF q
    <3>4. /\ y \in Resolver /\ y.asked = x.asked /\ y.threw = x.threw
          /\ y.entries = x.entries /\ y.pcbs = x.pcbs /\ y.timer = x.timer
          /\ y.live = x.live /\ y.called = x.called /\ y.posted = q /\ y.id = x.id
      BY <3>2 DEF Resolver
    <3> HIDE DEF y
    <3>5. l \notin d.asked
      BY <1>1 DEF async_resolve_now
    <3>6. IInv(y)
      BY <1>0, <2>1, <3>2, <3>4, <3>5, NowInv
    <3> QED BY <3>3, <3>6
  <2>2. CASE d' = Post([d EXCEPT !.asked = @ \cup {l}], {l})
    <3> DEFINE x == [d EXCEPT !.asked = @ \cup {l}]
    <3>1. /\ x \in Resolver /\ x.asked = d.asked \cup {l}
          /\ x.threw = d.threw /\ x.entries = d.entries /\ x.pcbs = d.pcbs
          /\ x.timer = d.timer /\ x.live = d.live /\ x.called = d.called
          /\ x.posted = d.posted /\ x.id = d.id
      BY <1>0 DEF Resolver
    <3>2. d' = Post(x, {l})
      BY <2>2
    <3> HIDE DEF x
    <3> QED BY <2>1, <3>1, <3>2
  <2>3. CASE d' = Post(TakeId(d, l), {l})
    <3> DEFINE n == (d.next_id + 1) % IdSpace
               j == [d.id EXCEPT ![l] = d.next_id]
               a == d.asked \cup {l}
               x == [d EXCEPT !.asked = a, !.id = j, !.next_id = n]
    <3>1. /\ n \in 0 .. IdSpace - 1 /\ j \in [Lookups -> -1 .. IdSpace - 1]
          /\ a \in SUBSET Lookups /\ \A m \in d.entries : j[m] = d.id[m]
      <4>1. \A m \in d.entries : m \in Lookups /\ m # l
        BY <1>0, <1>1 DEF IInv, EntryInv, EntryBut, async_resolve_now
      <4> QED BY <1>0, <4>1, Ids DEF Resolver
    <3>2. TakeId(d, l) = x
      BY <1>0 DEF TakeId, Resolver
    <3> HIDE DEF n, j, a
    <3>3. /\ x \in Resolver /\ x.asked = a
          /\ x.threw = d.threw /\ x.entries = d.entries /\ x.pcbs = d.pcbs
          /\ x.timer = d.timer /\ x.live = d.live /\ x.called = d.called
          /\ x.posted = d.posted /\ x.id = j
      BY <1>0, <3>1, Zenon DEF Resolver
    <3> HIDE DEF x
    <3>4. x.asked = d.asked \cup {l} /\ d' = Post(x, {l})
      BY <2>3, <3>2, <3>3 DEF a
    <3> QED BY <2>1, <3>1, <3>3, <3>4
  <2> QED BY <1>1, <2>2, <2>3 DEF async_resolve_now
<1>2. ASSUME NEW l \in Lookups, async_resolve(l) PROVE IInv(d')
  <2> DEFINE x == Emplace(TakeId(d, l), l)
             clear == \A m \in d.entries : d.id[m] # d.next_id
             t == [x.timer EXCEPT ![l] = "armed"]
             v == x.live \cup {l}
             y == [x EXCEPT !.timer = t, !.live = v]
  <2>1. /\ x \in Resolver
        /\ x.entries = IF clear THEN d.entries \cup {l} ELSE d.entries
        /\ NoReturn => clear
        /\ x.pcbs = d.pcbs \cup {l} /\ x.asked = d.asked \cup {l}
        /\ x.id[l] = d.next_id /\ d.next_id # -1
        /\ \A m \in d.entries : x.id[m] = d.id[m] /\ m # l
        /\ x.timer = d.timer /\ x.live = d.live /\ x.threw = d.threw
        /\ x.posted = d.posted /\ x.called = d.called
        /\ d' = Arm(x, l) /\ l \notin d.asked
    BY <1>2, Emplaced, Zenon DEF async_resolve
  <2> HIDE DEF x, clear
  <2>2. OnceInv(x)
    BY <1>0, <2>1 DEF IInv, OnceInv
  <2>3. CASE ~clear
    <3>1. d' = x /\ x.entries = d.entries
      BY <2>1, <2>3 DEF Arm
    <3>2. EntryInv(x) /\ PcbInv(x)
      BY <1>0, <2>1, <2>3, <3>1 DEF IInv, EntryInv, EntryBut, PcbInv
    <3> QED BY <2>1, <2>2, <3>1, <3>2 DEF IInv
  <2>4. CASE clear
    <3>1. x.entries = d.entries \cup {l} /\ d' = y
      BY <2>1, <2>4 DEF Arm, Resolver
    <3>2. /\ t \in [Lookups -> {"none", "armed", "expired"}] /\ t[l] = "armed"
          /\ v \in SUBSET Lookups /\ v = d.live \cup {l}
          /\ \A m \in d.entries : t[m] = d.timer[m]
      BY <1>0, <2>1 DEF Resolver
    <3> HIDE DEF t, v
    <3>3. /\ y \in Resolver /\ y.entries = x.entries /\ y.pcbs = x.pcbs
          /\ y.asked = x.asked /\ y.threw = x.threw /\ y.timer = t /\ y.id = x.id
          /\ y.live = v /\ y.posted = x.posted /\ y.called = x.called
      BY <2>1, <3>2, Zenon DEF Resolver
    <3> HIDE DEF y
    <3>4. l \notin d.threw /\ d.posted[l] = 0 /\ d.called[l] = 0
      BY <1>0, <2>1 DEF IInv, OnceInv
    <3>5. EntryInv(y)
      BY <1>0, <2>1, <3>1, <3>2, <3>3, <3>4 DEF IInv, EntryInv, EntryBut
    <3>6. OnceInv(y) /\ PcbInv(y)
      <4>1. \A m \in Lookups : m # l => t[m] = x.timer[m]
        BY <2>1 DEF t, Resolver
      <4> QED BY <1>0, <2>1, <2>2, <3>1, <3>3, <4>1 DEF IInv, OnceInv, PcbInv
    <3> QED BY <3>1, <3>3, <3>5, <3>6 DEF IInv
  <2> QED BY <2>3, <2>4
<1>3. ASSUME NEW l \in Lookups, async_resolve_unsent(l) PROVE IInv(d')
  <2> DEFINE x == Emplace(TakeId(d, l), l)
  <2>1. /\ x \in Resolver /\ PcbInv(x) /\ OnceInv(x) /\ EntryBut(x, d.next_id)
        /\ d' = complete_dns_query(x, d.next_id)
    BY <1>3, EmplacedInv DEF async_resolve_unsent
  <2> HIDE DEF x
  <2>2. IInv(complete_dns_query(x, d.next_id))
    BY <2>1, CompleteInv
  <2> QED BY <2>1, <2>2
<1>4. ASSUME NEW l \in Lookups, async_resolve_no_server(l) PROVE IInv(d')
  <2> DEFINE a == d.asked \cup {l}
             w == d.threw \cup {l}
             y == [d EXCEPT !.asked = a, !.threw = w]
  <2>1. d' = y /\ l \notin d.asked
    BY <1>4 DEF async_resolve_no_server
  <2>2. a \in SUBSET Lookups /\ w \in SUBSET Lookups /\ d.posted[l] = 0
    BY <1>0, <2>1 DEF Resolver, IInv, OnceInv
  <2>3. /\ y \in Resolver /\ y.asked = d.asked \cup {l}
        /\ y.threw = d.threw \cup {l} /\ y.entries = d.entries
        /\ y.pcbs = d.pcbs /\ y.timer = d.timer /\ y.live = d.live
        /\ y.called = d.called /\ y.posted = d.posted /\ y.id = d.id
    BY <1>0, <2>2, Zenon DEF Resolver
  <2> HIDE DEF y
  <2>4. IInv(y)
    BY <1>0, <2>1, <2>2, <2>3, NowInv
  <2> QED BY <2>1, <2>4
<1>5. ASSUME NEW l \in Lookups, async_resolve_throws(l) PROVE IInv(d')
  <2> DEFINE x == Emplace(TakeId(d, l), l)
             clear == \A m \in d.entries : d.id[m] # d.next_id
             w == x.threw \cup {l}
             y == [x EXCEPT !.threw = w]
  <2>1. /\ x \in Resolver
        /\ x.entries = IF clear THEN d.entries \cup {l} ELSE d.entries
        /\ NoReturn => clear
        /\ x.pcbs = d.pcbs \cup {l} /\ x.asked = d.asked \cup {l}
        /\ x.id[l] = d.next_id /\ d.next_id # -1
        /\ \A m \in d.entries : x.id[m] = d.id[m] /\ m # l
        /\ x.timer = d.timer /\ x.live = d.live /\ x.threw = d.threw
        /\ x.posted = d.posted /\ x.called = d.called
        /\ d' = y /\ l \notin d.asked /\ l \in BadNames
    BY <1>5, Emplaced, Zenon DEF async_resolve_throws
  <2> HIDE DEF x, clear
  <2>2. w \in SUBSET Lookups /\ w = d.threw \cup {l}
    BY <2>1 DEF Resolver
  <2> HIDE DEF w
  <2>3. /\ y \in Resolver /\ y.entries = x.entries /\ y.pcbs = x.pcbs
        /\ y.asked = x.asked /\ y.threw = w /\ y.timer = x.timer /\ y.id = x.id
        /\ y.live = x.live /\ y.posted = x.posted /\ y.called = x.called
    BY <2>1, <2>2 DEF Resolver
  <2> HIDE DEF y
  <2>4. d.posted[l] = 0 /\ d.called[l] = 0 /\ d.timer[l] = "none"
    BY <1>0, <2>1 DEF IInv, OnceInv
  <2>5. EntryInv(y)
    BY <1>0, <2>1, <2>2, <2>3, <2>4 DEF IInv, EntryInv, EntryBut
  <2>6. PcbInv(y)
    BY <1>0, <2>1, <2>3 DEF IInv, PcbInv
  <2>7. OnceInv(y)
    BY <1>0, <2>1, <2>2, <2>3 DEF IInv, OnceInv
  <2> QED BY <2>1, <2>3, <2>5, <2>6, <2>7 DEF IInv
<1>6. ASSUME NEW l \in Lookups, dns_recv(l) PROVE IInv(d')
  <2>1. IInv(complete_dns_query(d, d.id[l]))
    BY <1>0, <1>a, CompleteInv DEF IInv
  <2> QED BY <1>6, <2>1 DEF dns_recv
<1>7. ASSUME NEW l \in Lookups, TimerExpires(l) PROVE IInv(d')
  <2> DEFINE t == [d.timer EXCEPT ![l] = "expired"]
             y == [d EXCEPT !.timer = t]
  <2>1. d' = y
    BY <1>0, <1>7 DEF TimerExpires, Resolver
  <2>2. /\ t \in [Lookups -> {"none", "armed", "expired"}]
        /\ \A m \in Lookups : t[m] = "none" <=> d.timer[m] = "none"
    BY <1>0, <1>7 DEF TimerExpires, Resolver
  <2> HIDE DEF t
  <2>3. /\ y \in Resolver /\ y.timer = t /\ y.entries = d.entries
        /\ y.pcbs = d.pcbs /\ y.asked = d.asked /\ y.threw = d.threw
        /\ y.live = d.live /\ y.called = d.called /\ y.posted = d.posted
        /\ y.id = d.id
    BY <1>0, <2>2 DEF Resolver
  <2> HIDE DEF y
  <2>4. IInv(y)
    BY <1>0, <2>2, <2>3 DEF IInv, EntryInv, EntryBut, OnceInv, PcbInv
  <2> QED BY <2>1, <2>4
<1>8. ASSUME NEW l \in Lookups, TimerHandler(l) PROVE IInv(d')
  <2> DEFINE t == [d.timer EXCEPT ![l] = "none"]
             x == [d EXCEPT !.timer = t]
  <2>1. d' = IF l \in d.live THEN complete_dns_query(x, d.id[l]) ELSE x
    BY <1>0, <1>8 DEF TimerHandler, Resolver
  <2>2. /\ t \in [Lookups -> {"none", "armed", "expired"}] /\ t[l] = "none"
        /\ \A m \in Lookups : m # l => t[m] = d.timer[m]
    BY <1>0 DEF Resolver
  <2> HIDE DEF t
  <2>3. /\ x \in Resolver /\ x.timer = t /\ x.entries = d.entries
        /\ x.pcbs = d.pcbs /\ x.asked = d.asked /\ x.threw = d.threw
        /\ x.live = d.live /\ x.called = d.called /\ x.posted = d.posted
        /\ x.id = d.id
    BY <1>0, <2>2 DEF Resolver
  <2> HIDE DEF x
  <2>4. OnceInv(x) /\ PcbInv(x)
    BY <1>0, <2>2, <2>3 DEF IInv, OnceInv, PcbInv
  <2>5. CASE l \in d.live
    <3>1. EntryBut(x, d.id[l])
      BY <1>0, <2>2, <2>3 DEF IInv, EntryInv, EntryBut
    <3>2. IInv(complete_dns_query(x, d.id[l]))
      BY <2>3, <2>4, <3>1, CompleteInv
    <3> QED BY <2>1, <2>5, <3>2
  <2>6. CASE l \notin d.live
    <3>1. EntryInv(x)
      BY <1>0, <2>2, <2>3, <2>6 DEF IInv, EntryInv, EntryBut
    <3> QED BY <2>1, <2>3, <2>4, <2>6, <3>1 DEF IInv
  <2> QED BY <2>5, <2>6
<1>9. ASSUME NEW l \in Lookups, CallHandler(l) PROVE IInv(d')
  <2> DEFINE q == [d.posted EXCEPT ![l] = @ - 1]
             c == [d.called EXCEPT ![l] = @ + 1]
             y == [d EXCEPT !.posted = q, !.called = c]
  <2>1. d' = y /\ d.posted[l] > 0
    BY <1>0, <1>9 DEF CallHandler, Resolver
  <2>2. /\ q \in [Lookups -> Nat] /\ c \in [Lookups -> Nat]
        /\ q[l] = d.posted[l] - 1 /\ c[l] = d.called[l] + 1
        /\ d.posted[l] \in Nat /\ d.called[l] \in Nat
        /\ \A m \in Lookups : m # l => q[m] = d.posted[m] /\ c[m] = d.called[m]
    BY <1>0, <2>1 DEF Resolver
  <2> HIDE DEF q, c
  <2>3. /\ y \in Resolver /\ y.timer = d.timer /\ y.entries = d.entries
        /\ y.pcbs = d.pcbs /\ y.asked = d.asked /\ y.threw = d.threw
        /\ y.live = d.live /\ y.called = c /\ y.posted = q /\ y.id = d.id
    BY <1>0, <2>2, Zenon DEF Resolver
  <2> HIDE DEF y
  <2>4. l \notin d.entries /\ l \in d.asked /\ d.posted[l] + d.called[l] <= 1
    BY <1>0, <2>1, <2>2 DEF IInv, EntryInv, EntryBut, OnceInv
  <2>5. EntryInv(y) /\ PcbInv(y)
    BY <1>0, <2>2, <2>3, <2>4 DEF IInv, EntryInv, EntryBut, PcbInv
  <2>6. OnceInv(y)
    <3> SUFFICES ASSUME NEW m \in Lookups
                 PROVE  /\ q[m] + c[m] <= 1
                        /\ m \notin d.asked =>
                             /\ q[m] = 0 /\ c[m] = 0
                             /\ m \notin d.threw /\ d.timer[m] = "none"
      BY <2>3 DEF OnceInv
    <3>1. CASE m = l
      BY <2>2, <2>4, <3>1
    <3>2. CASE m # l
      BY <1>0, <2>2, <3>2 DEF IInv, OnceInv
    <3> QED BY <3>1, <3>2
  <2> QED BY <2>1, <2>3, <2>5, <2>6 DEF IInv
<1>10. ASSUME stop PROVE IInv(d')
  <2> DEFINE t == [l \in Lookups |->
                     IF l \in d.entries /\ d.timer[l] = "armed" THEN "none" ELSE d.timer[l]]
             p == d.pcbs \ d.entries
             n == d.stops + 1
             y == [d EXCEPT !.timer = t, !.entries = {}, !.pcbs = p,
                            !.live = {}, !.stops = n]
  <2>1. d' = y /\ d.stops < MaxStops
    BY <1>10 DEF stop, Cancel
  <2>2. /\ t \in [Lookups -> {"none", "armed", "expired"}]
        /\ p \in SUBSET Lookups /\ (NoReturn => p = {})
        /\ n \in 0 .. MaxStops
        /\ \A l \in Lookups : d.timer[l] = "none" => t[l] = "none"
    BY <1>0, <2>1, Names DEF Resolver, IInv, PcbInv
  <2> HIDE DEF t, p, n
  <2>3. /\ y \in Resolver /\ y.entries = {} /\ y.pcbs = p /\ y.timer = t
        /\ y.asked = d.asked /\ y.threw = d.threw
        /\ y.called = d.called /\ y.posted = d.posted
    BY <1>0, <2>2, Zenon DEF Resolver
  <2> HIDE DEF y
  <2> QED BY <1>0, <2>1, <2>2, <2>3 DEF IInv, EntryInv, EntryBut, OnceInv, PcbInv
<1>11. CASE UNCHANGED vars
  BY <1>0, <1>11 DEF vars
<1> QED
  BY <1>1, <1>2, <1>3, <1>4, <1>5, <1>6, <1>7, <1>8, <1>9, <1>10, <1>11
  DEF Next

\* Every step leaves the ids as they are, or gives one to a new lookup.
LEMMA StepIds ==
  ASSUME Inv, [Next]_vars
  PROVE  SameIds(d, d') \/ \E l \in Lookups : TookId(d, d', l)
<1>0. d \in Resolver /\ IInv(d) /\ \A i : EntryBut(d, i)
  BY DEF Inv, IInv, EntryInv, EntryBut
<1>1. ASSUME NEW l \in Lookups, l \notin d.asked, IdIdle
      PROVE  LET x == Emplace(TakeId(d, l), l) IN
             /\ x \in Resolver /\ TookId(d, x, l)
             /\ PcbInv(x) /\ OnceInv(x) /\ EntryBut(x, d.next_id)
  BY <1>1, Emplaced, EmplacedInv, Zenon
<1>2. ASSUME NEW x, NEW y, NEW l, TookId(d, x, l), SameIds(x, y)  PROVE TookId(d, y, l)
  BY <1>2 DEF TookId, SameIds
<1>3. ASSUME NEW l \in Lookups, async_resolve_now(l)
      PROVE  SameIds(d, d') \/ TookId(d, d', l)
  <2>1. CASE d' = Post([d EXCEPT !.asked = @ \cup {l}], {l})
    BY <1>0, <2>1 DEF Post, Resolver, SameIds
  <2>2. CASE d' = Post(TakeId(d, l), {l})
    <3>1. /\ d'.asked = d.asked \cup {l} /\ d'.entries = d.entries
          /\ d'.id = [d.id EXCEPT ![l] = d.next_id]
          /\ d'.next_id = (d.next_id + 1) % IdSpace /\ l \notin d.asked
      BY <1>0, <1>3, <2>2, Zenon DEF async_resolve_now, Post, TakeId, Resolver
    <3>2. l \notin d.entries
      BY <1>0, <3>1 DEF IInv, EntryInv, EntryBut
    <3> QED BY <3>1, <3>2 DEF TookId
  <2> QED BY <1>3, <2>1, <2>2 DEF async_resolve_now
<1>4. ASSUME NEW l \in Lookups, async_resolve(l)  PROVE TookId(d, d', l)
  <2> DEFINE x == Emplace(TakeId(d, l), l)
  <2>1. x \in Resolver /\ TookId(d, x, l) /\ d' = Arm(x, l)
    BY <1>1, <1>4 DEF async_resolve
  <2> HIDE DEF x
  <2>2. SameIds(x, Arm(x, l))
    BY <2>1 DEF Arm, Resolver, SameIds
  <2> QED BY <1>2, <2>1, <2>2
<1>5. ASSUME NEW l \in Lookups, async_resolve_unsent(l)  PROVE TookId(d, d', l)
  <2> DEFINE x == Emplace(TakeId(d, l), l)
  <2>1. /\ x \in Resolver /\ TookId(d, x, l) /\ d' = complete_dns_query(x, d.next_id)
        /\ PcbInv(x) /\ OnceInv(x) /\ EntryBut(x, d.next_id)
    BY <1>1, <1>5 DEF async_resolve_unsent
  <2> HIDE DEF x
  <2>2. SameIds(x, complete_dns_query(x, d.next_id))
    BY <2>1, CompleteInv
  <2> QED BY <1>2, <2>1, <2>2
<1>6. ASSUME NEW l \in Lookups, async_resolve_throws(l)  PROVE TookId(d, d', l)
  <2> DEFINE x == Emplace(TakeId(d, l), l)
             y == [x EXCEPT !.threw = @ \cup {l}]
  <2>1. x \in Resolver /\ TookId(d, x, l) /\ d' = y
    BY <1>1, <1>6 DEF async_resolve_throws
  <2> HIDE DEF x
  <2>2. SameIds(x, y)
    BY <2>1 DEF Resolver, SameIds
  <2> QED BY <1>2, <2>1, <2>2
<1>7. ASSUME NEW l \in Lookups, dns_recv(l)  PROVE SameIds(d, d')
  <2>1. SameIds(d, complete_dns_query(d, d.id[l]))
    BY <1>0, CompleteInv DEF IInv
  <2> QED BY <1>7, <2>1 DEF dns_recv
<1>8. ASSUME NEW l \in Lookups, TimerHandler(l)  PROVE SameIds(d, d')
  <2> DEFINE t == [d.timer EXCEPT ![l] = "none"]
             x == [d EXCEPT !.timer = t]
  <2>1. d' = IF l \in d.live THEN complete_dns_query(x, d.id[l]) ELSE x
    BY <1>0, <1>8 DEF TimerHandler, Resolver
  <2>2. t \in [Lookups -> {"none", "armed", "expired"}]
    BY <1>0 DEF Resolver
  <2> HIDE DEF t
  <2>3. x \in Resolver /\ SameIds(d, x)
    BY <1>0, <2>2 DEF Resolver, SameIds
  <2> HIDE DEF x
  <2>4. SameIds(x, complete_dns_query(x, d.id[l]))
    BY <2>3 DEF complete_dns_query, Post, Cancel, Resolver, SameIds
  <2>5. CASE l \in d.live
    BY <2>1, <2>3, <2>4, <2>5 DEF SameIds
  <2>6. CASE l \notin d.live
    BY <2>1, <2>3, <2>6
  <2> QED BY <2>5, <2>6
<1>9. ASSUME NEW l \in Lookups,
             async_resolve_no_server(l) \/ TimerExpires(l) \/ CallHandler(l)
      PROVE  SameIds(d, d')
  <2>1. CASE async_resolve_no_server(l)
    BY <1>0, <2>1 DEF async_resolve_no_server, Resolver, SameIds
  <2>2. CASE TimerExpires(l)
    BY <1>0, <2>2 DEF TimerExpires, Resolver, SameIds
  <2>3. CASE CallHandler(l)
    BY <1>0, <2>3 DEF CallHandler, Resolver, SameIds
  <2> QED BY <1>9, <2>1, <2>2, <2>3
<1>10. ASSUME stop  PROVE SameIds(d, d')
  BY <1>0, <1>10 DEF stop, Cancel, Resolver, SameIds
<1>11. CASE UNCHANGED vars
  BY <1>11 DEF vars, SameIds
<1> QED BY <1>3, <1>4, <1>5, <1>6, <1>7, <1>8, <1>9, <1>10, <1>11 DEF Next

\* The invariant holds in every state, whatever names are refused.
THEOREM Invariance == Spec => []Inv
<1>1. Inv /\ [Next]_vars => Inv'
  <2> SUFFICES ASSUME Inv, [Next]_vars  PROVE IInv(d') /\ RoundInv(d') /\ Apart(d')
    BY DEF Inv
  <2>1. d \in Resolver /\ RoundInv(d) /\ Apart(d)
    BY DEF Inv, IInv
  <2>2. ASSUME SameIds(d, d')  PROVE RoundInv(d') /\ Apart(d')
    <3>1. RoundInv(d')
      BY <2>1, <2>2, SameRound
    <3>2. Apart(d')
      BY <2>1, <2>2, Zenon DEF SameIds, Apart
    <3> QED BY <3>1, <3>2
  <2>3. ASSUME NEW l \in Lookups, TookId(d, d', l)  PROVE RoundInv(d') /\ Apart(d')
    BY <2>1, <2>3, TookRound, TookApart
  <2> QED BY <2>2, <2>3, StepIds, StepInv
<1> QED BY <1>1, InitInv, PTL DEF Spec

\* Members keep their types; ids stay in IdSpace values, whatever its size.
THEOREM TypeCorrect == Spec => []TypeOK
<1>1. Inv => TypeOK
  BY DEF Inv, IInv, TypeOK
<1> QED BY <1>1, Invariance, PTL

\* complete_dns_query and stop() remove a PCB with its query, so dns_recv's
\* argument is always a query of the map, unless an id comes round to a query
\* that an exception left there.
THEOREM PcbArgument == ASSUME NoReturn PROVE Spec => []PcbArgumentOwned
<1>1. Inv => PcbArgumentOwned
  BY DEF Inv, IInv, PcbInv, PcbArgumentOwned
<1> QED BY <1>1, Invariance, PTL

\* However an answer, a timeout, a send error, an exception and stop() race, and
\* even when ids collide, the handler given to async_resolve is posted at most
\* once.
THEOREM AtMostOnce == Spec => []HandlerOnce
<1>1. Inv => HandlerOnce
  BY Zenon DEF Inv, IInv, OnceInv, HandlerOnce
<1> QED BY <1>1, Invariance, PTL

\* A lookup in the map always has a timer with a valid token, also when it
\* was started after a stop(), unless its call threw.
THEOREM Timed == Spec => []WaitIsTimed
<1>1. Inv => WaitIsTimed
  BY DEF Inv, IInv, EntryInv, EntryBut, WaitIsTimed
<1> QED BY <1>1, Invariance, PTL

-----------------------------------------------------------------------------
(* The resolver implements LookupPromise. *)

\* Nothing of lookup m that its caller can see differs between x and y.
Alike(x, y, m) ==
  /\ m \in y.asked <=> m \in x.asked
  /\ m \in y.threw <=> m \in x.threw
  /\ m \in y.entries <=> m \in x.entries
  /\ y.posted[m] = x.posted[m] /\ y.called[m] = x.called[m]

\* A step that changes nothing of what callers see maps to a stutter.
LEMMA OutSame ==
  ASSUME NEW x, NEW y, \A m \in Lookups : Alike(x, y, m)
  PROVE  Out(y) = Out(x)
<1>1. \A m \in Lookups : Outcome(y, m) = Outcome(x, m)
  BY Zenon DEF Outcome, Alike
<1> QED BY <1>1, Zenon DEF Out

\* A step that concerns one lookup maps to a step of that lookup.
LEMMA OutOne ==
  ASSUME NEW x, NEW y, NEW l \in Lookups, NEW o,
         Outcome(y, l) = o, \A m \in Lookups \ {l} : Alike(x, y, m)
  PROVE  Out(y) = [Out(x) EXCEPT ![l] = o]
<1>1. \A m \in Lookups \ {l} : Outcome(y, m) = Outcome(x, m)
  BY Zenon DEF Outcome, Alike
<1> QED BY <1>1, Zenon DEF Out

\* Completing a query is the answer of the lookup that has the id, if one waits.
LEMMA CompleteOut ==
  ASSUME NEW x \in Resolver, NEW i, PcbInv(x), OnceInv(x), EntryBut(x, i), Apart(x),
         \A l \in Find(x, i) : l \notin x.threw
  PROVE  LET y == complete_dns_query(x, i) IN
         /\ y.stops = x.stops
         /\ \/ Out(y) = Out(x)
            \/ \E l \in Lookups : /\ Out(x)[l] = "pending"
                                  /\ Out(y) = [Out(x) EXCEPT ![l] = "answered"]
<1> DEFINE y == complete_dns_query(x, i)
<1>1. /\ y.asked = x.asked /\ y.threw = x.threw /\ y.called = x.called
      /\ y.stops = x.stops /\ y.entries = x.entries \ Find(x, i)
      /\ \A l \in Lookups : y.posted[l] =
           IF l \in Find(x, i) THEN x.posted[l] + 1 ELSE x.posted[l]
  BY CompleteInv
<1> HIDE DEF y
<1>2. CASE Find(x, i) = {}
  <2>1. \A m \in Lookups : Alike(x, y, m)
    BY <1>1, <1>2 DEF Alike
  <2> QED BY <1>1, <2>1, OutSame DEF y
<1>3. ASSUME NEW l \in Find(x, i)
      PROVE  Out(x)[l] = "pending" /\ Out(y) = [Out(x) EXCEPT ![l] = "answered"]
  <2>1. /\ l \in Lookups /\ l \in x.entries /\ l \in x.asked /\ l \notin x.threw
        /\ x.posted[l] = 0 /\ x.called[l] = 0
    BY <1>3 DEF Find, EntryBut, Resolver
  <2>2. Find(x, i) = {l}
    BY <1>3 DEF Find, Apart
  <2>3. Outcome(x, l) = "pending"
    BY <2>1 DEF Outcome
  <2>4. y.posted[l] = 1 /\ y.called[l] = 0 /\ l \in y.asked
    BY <1>1, <2>1, <2>2
  <2>5. Outcome(y, l) = "answered"
    BY <2>4 DEF Outcome
  <2>6. \A m \in Lookups \ {l} : Alike(x, y, m)
    BY <1>1, <2>2 DEF Alike
  <2>7. Out(y) = [Out(x) EXCEPT ![l] = "answered"]
    BY <2>1, <2>5, <2>6, OutOne
  <2> QED BY <2>1, <2>3, <2>7 DEF Out
<1>4. Find(x, i) \subseteq Lookups
  BY DEF Find, Resolver
<1> QED BY <1>1, <1>2, <1>3, <1>4 DEF y

\* A step of LookupPromise that one lookup takes.
Takes(l, from, to) ==
  /\ Out(d)[l] = from /\ Out(d') = [Out(d) EXCEPT ![l] = to] /\ d'.stops = d.stops

\* What every step does to the outcomes of the lookups: nothing, or one step of
\* the promise that LookupPromise makes.
LEMMA StepOut ==
  ASSUME NoReturn, Inv, [Next]_vars
  PROVE  \/ Out(d') = Out(d) /\ d'.stops = d.stops
         \/ \E l \in Lookups :
              \/ Takes(l, "new", "pending") \/ Takes(l, "new", "answered")
              \/ Takes(l, "new", "refused") \/ Takes(l, "pending", "answered")
              \/ Takes(l, "answered", "called")
         \/ /\ Out(d') = [l \in Lookups |->
                            IF Out(d)[l] = "pending" THEN "dropped" ELSE Out(d)[l]]
            /\ d'.stops = d.stops + 1
<1>0. /\ d \in Resolver /\ d.entries \subseteq Lookups
      /\ PcbInv(d) /\ EntryInv(d) /\ OnceInv(d) /\ RoundInv(d) /\ Apart(d)
  BY DEF Inv, IInv, Resolver
<1>a. \A l \in Lookups \ d.asked :
        Out(d)[l] = "new" /\ d.called[l] = 0 /\ d.posted[l] = 0 /\ l \notin d.threw
  BY <1>0 DEF Out, Outcome, OnceInv
<1>b. ASSUME NEW l \in Lookups, NEW m \in d.entries, m \in d.threw, d.id[m] = d.id[l]
      PROVE  l = m
  <2>1. m \in BadNames /\ d.id[m] # -1
    BY <1>0, <1>b DEF EntryInv, EntryBut
  <2>2. OneRound
    BY <2>1 DEF NoReturn
  <2>3. l \in Taken(d) /\ m \in Taken(d)
    BY <1>0, <1>b, <2>1 DEF Taken
  <2> QED BY <1>0, <1>b, <2>2, <2>3 DEF RoundInv
<1>c. ASSUME NEW l \in Lookups, l \notin d.asked, IdIdle
      PROVE  LET x == Emplace(TakeId(d, l), l) IN
             /\ x \in Resolver /\ PcbInv(x) /\ OnceInv(x) /\ EntryBut(x, d.next_id)
             /\ x.entries = d.entries \cup {l} /\ Find(x, d.next_id) = {l}
             /\ x.asked = d.asked \cup {l} /\ x.threw = d.threw
             /\ x.posted = d.posted /\ x.called = d.called /\ x.stops = d.stops
  <2> DEFINE x == Emplace(TakeId(d, l), l)
             clear == \A m \in d.entries : d.id[m] # d.next_id
  <2>1. /\ x.entries = IF clear THEN d.entries \cup {l} ELSE d.entries
        /\ NoReturn => clear
        /\ x.asked = d.asked \cup {l} /\ x.threw = d.threw
        /\ x.id[l] = d.next_id /\ \A m \in d.entries : x.id[m] = d.id[m] /\ m # l
        /\ x.posted = d.posted /\ x.called = d.called /\ x.stops = d.stops
    BY <1>c, Emplaced
  <2>2. x \in Resolver /\ PcbInv(x) /\ OnceInv(x) /\ EntryBut(x, d.next_id)
    BY <1>c, EmplacedInv
  <2> HIDE DEF x
  <2>3. clear /\ x.entries = d.entries \cup {l}
    BY <2>1
  <2>4. Find(x, d.next_id) = {l}
    BY <2>1, <2>3 DEF Find
  <2> QED BY <2>1, <2>2, <2>3, <2>4 DEF x
<1>d. ASSUME NEW l \in Lookups \ d.asked, NEW y, NEW o, Outcome(y, l) = o, y = d',
             d'.stops = d.stops, \A m \in Lookups \ {l} : Alike(d, y, m)
      PROVE  Takes(l, "new", o)
  <2>1. Out(y) = [Out(d) EXCEPT ![l] = o]
    BY <1>d, OutOne
  <2> QED BY <1>a, <1>d, <2>1 DEF Takes
<1>1. ASSUME NEW l \in Lookups, async_resolve_now(l)
      PROVE  Takes(l, "new", "answered")
  <2>1. /\ d'.asked = d.asked \cup {l} /\ d'.called = d.called
        /\ d'.entries = d.entries /\ d'.threw = d.threw /\ d'.stops = d.stops
        /\ d'.posted = [m \in Lookups |->
                          IF m \in {l} THEN d.posted[m] + 1 ELSE d.posted[m]]
    <3>1. CASE d' = Post([d EXCEPT !.asked = @ \cup {l}], {l})
      BY <1>0, <3>1 DEF Post, Resolver
    <3>2. CASE d' = Post(TakeId(d, l), {l})
      BY <1>0, <3>2 DEF Post, TakeId, Resolver
    <3> QED BY <1>1, <3>1, <3>2 DEF async_resolve_now
  <2>2. l \notin d.asked
    BY <1>1 DEF async_resolve_now
  <2>3. d'.posted[l] = 1 /\ d'.called[l] = 0 /\ l \in d'.asked
    BY <1>a, <2>1, <2>2
  <2>4. Outcome(d', l) = "answered"
    BY <2>3 DEF Outcome
  <2>5. \A m \in Lookups \ {l} : Alike(d, d', m)
    BY <2>1 DEF Alike
  <2> QED BY <1>d, <2>1, <2>2, <2>4, <2>5
<1>2. ASSUME NEW l \in Lookups, async_resolve(l)
      PROVE  Takes(l, "new", "pending")
  <2> DEFINE x == Emplace(TakeId(d, l), l)
  <2>1. /\ x \in Resolver /\ x.entries = d.entries \cup {l}
        /\ x.asked = d.asked \cup {l} /\ x.threw = d.threw
        /\ x.posted = d.posted /\ x.called = d.called /\ x.stops = d.stops
        /\ d' = Arm(x, l) /\ l \notin d.asked
    BY <1>2, <1>c DEF async_resolve
  <2> HIDE DEF x
  <2>2. /\ d'.asked = x.asked /\ d'.called = x.called /\ d'.stops = x.stops
        /\ d'.entries = x.entries /\ d'.threw = x.threw /\ d'.posted = x.posted
    BY <2>1 DEF Arm, Resolver
  <2>3. l \notin d'.threw
    BY <1>a, <2>1, <2>2
  <2>4. Outcome(d', l) = "pending"
    BY <1>a, <2>1, <2>2, <2>3 DEF Outcome
  <2>5. \A m \in Lookups \ {l} : Alike(d, d', m)
    BY <2>1, <2>2 DEF Alike
  <2> QED BY <1>d, <2>1, <2>2, <2>4, <2>5
<1>3. ASSUME NEW l \in Lookups, async_resolve_unsent(l)
      PROVE  Takes(l, "new", "answered")
  <2> DEFINE x == Emplace(TakeId(d, l), l)
             y == complete_dns_query(x, d.next_id)
  <2>1. /\ x \in Resolver /\ PcbInv(x) /\ OnceInv(x) /\ EntryBut(x, d.next_id)
        /\ x.entries = d.entries \cup {l} /\ Find(x, d.next_id) = {l}
        /\ x.asked = d.asked \cup {l} /\ x.threw = d.threw
        /\ x.posted = d.posted /\ x.called = d.called /\ x.stops = d.stops
        /\ d' = y /\ l \notin d.asked
    BY <1>3, <1>c DEF async_resolve_unsent
  <2> HIDE DEF x
  <2>2. /\ y.asked = x.asked /\ y.threw = x.threw /\ y.called = x.called
        /\ y.stops = x.stops /\ y.entries = x.entries \ {l}
        /\ \A m \in Lookups : y.posted[m] =
             IF m \in {l} THEN x.posted[m] + 1 ELSE x.posted[m]
    BY <2>1, CompleteInv
  <2> HIDE DEF y
  <2>3. l \notin d.entries
    BY <1>0, <2>1 DEF EntryInv, EntryBut
  <2>4. y.posted[l] = 1 /\ y.called[l] = 0 /\ l \in y.asked
    BY <1>a, <2>1, <2>2
  <2>5. Outcome(y, l) = "answered"
    BY <2>4 DEF Outcome
  <2>6. \A m \in Lookups \ {l} : Alike(d, y, m)
    BY <2>1, <2>2 DEF Alike
  <2> QED BY <1>d, <2>1, <2>2, <2>5, <2>6
<1>4. ASSUME NEW l \in Lookups, async_resolve_no_server(l)
      PROVE  Takes(l, "new", "refused")
  <2>1. /\ d'.asked = d.asked \cup {l} /\ d'.called = d.called
        /\ d'.entries = d.entries /\ d'.threw = d.threw \cup {l}
        /\ d'.posted = d.posted /\ d'.stops = d.stops /\ l \notin d.asked
    BY <1>0, <1>4 DEF async_resolve_no_server, Resolver
  <2>2. Outcome(d', l) = "refused"
    BY <1>a, <2>1 DEF Outcome
  <2>3. \A m \in Lookups \ {l} : Alike(d, d', m)
    BY <2>1 DEF Alike
  <2> QED BY <1>d, <2>1, <2>2, <2>3
<1>5. ASSUME NEW l \in Lookups, async_resolve_throws(l)
      PROVE  Takes(l, "new", "refused")
  <2> DEFINE x == Emplace(TakeId(d, l), l)
  <2>1. /\ x \in Resolver /\ x.entries = d.entries \cup {l}
        /\ x.asked = d.asked \cup {l} /\ x.threw = d.threw
        /\ x.posted = d.posted /\ x.called = d.called /\ x.stops = d.stops
        /\ d' = [x EXCEPT !.threw = @ \cup {l}] /\ l \notin d.asked
    BY <1>5, <1>c DEF async_resolve_throws
  <2> HIDE DEF x
  <2>2. /\ d'.asked = x.asked /\ d'.called = x.called /\ d'.stops = x.stops
        /\ d'.entries = x.entries /\ d'.threw = x.threw \cup {l} /\ d'.posted = x.posted
    BY <2>1 DEF Resolver
  <2>3. Outcome(d', l) = "refused"
    BY <1>a, <2>1, <2>2 DEF Outcome
  <2>4. \A m \in Lookups \ {l} : Alike(d, d', m)
    BY <2>1, <2>2 DEF Alike
  <2> QED BY <1>d, <2>1, <2>2, <2>3, <2>4
<1>6. ASSUME NEW l \in Lookups, dns_recv(l)
      PROVE  \/ Out(d') = Out(d) /\ d'.stops = d.stops
             \/ \E m \in Lookups : Takes(m, "pending", "answered")
  <2>1. l \notin d.threw /\ d' = complete_dns_query(d, d.id[l])
    BY <1>6 DEF dns_recv
  <2>2. \A m \in Find(d, d.id[l]) : m \notin d.threw
    BY <1>b, <2>1 DEF Find
  <2>3. EntryBut(d, d.id[l])
    BY <1>0 DEF EntryInv, EntryBut
  <2> QED BY <1>0, <2>1, <2>2, <2>3, CompleteOut DEF Takes
<1>7. ASSUME NEW l \in Lookups, TimerExpires(l)
      PROVE  Out(d') = Out(d) /\ d'.stops = d.stops
  <2>1. /\ d'.asked = d.asked /\ d'.called = d.called /\ d'.threw = d.threw
        /\ d'.entries = d.entries /\ d'.posted = d.posted /\ d'.stops = d.stops
    BY <1>0, <1>7 DEF TimerExpires, Resolver
  <2> QED BY <2>1, OutSame DEF Alike
<1>8. ASSUME NEW l \in Lookups, TimerHandler(l)
      PROVE  \/ Out(d') = Out(d) /\ d'.stops = d.stops
             \/ \E m \in Lookups : Takes(m, "pending", "answered")
  <2> DEFINE t == [d.timer EXCEPT ![l] = "none"]
             x == [d EXCEPT !.timer = t]
  <2>1. d' = IF l \in d.live THEN complete_dns_query(x, d.id[l]) ELSE x
    BY <1>0, <1>8 DEF TimerHandler, Resolver
  <2>2. /\ t \in [Lookups -> {"none", "armed", "expired"}] /\ t[l] = "none"
        /\ \A m \in Lookups : m # l => t[m] = d.timer[m]
    BY <1>0 DEF Resolver
  <2> HIDE DEF t
  <2>3. /\ x \in Resolver /\ x.timer = t /\ x.entries = d.entries
        /\ x.pcbs = d.pcbs /\ x.asked = d.asked /\ x.threw = d.threw
        /\ x.live = d.live /\ x.called = d.called /\ x.posted = d.posted
        /\ x.id = d.id /\ x.stops = d.stops
    BY <1>0, <2>2 DEF Resolver
  <2> HIDE DEF x
  <2>4. OnceInv(x) /\ PcbInv(x) /\ Apart(x)
    BY <1>0, <2>2, <2>3 DEF OnceInv, PcbInv, Apart
  <2>5. EntryBut(x, d.id[l])
    BY <1>0, <2>2, <2>3 DEF EntryInv, EntryBut
  <2>6. Out(x) = Out(d)
    BY <2>3, OutSame DEF Alike
  <2>7. ASSUME NEW m \in Find(x, d.id[l]), m \in x.threw  PROVE FALSE
    <3>1. m \in d.entries /\ m \in d.threw /\ d.id[m] = d.id[l]
      BY <2>3, <2>7 DEF Find
    <3>2. l = m /\ d.timer[m] = "none"
      BY <1>0, <1>b, <3>1 DEF EntryInv, EntryBut
    <3> QED BY <1>8, <3>2 DEF TimerHandler
  <2>8. LET y == complete_dns_query(x, d.id[l]) IN
        /\ y.stops = x.stops
        /\ \/ Out(y) = Out(x)
           \/ \E m \in Lookups : /\ Out(x)[m] = "pending"
                                 /\ Out(y) = [Out(x) EXCEPT ![m] = "answered"]
    BY <2>3, <2>4, <2>5, <2>7, CompleteOut
  <2> QED BY <2>1, <2>3, <2>6, <2>8 DEF Takes
<1>9. ASSUME NEW l \in Lookups, CallHandler(l)
      PROVE  Takes(l, "answered", "called")
  <2>1. /\ d'.asked = d.asked /\ d'.threw = d.threw /\ d'.entries = d.entries
        /\ d'.posted = [d.posted EXCEPT ![l] = @ - 1]
        /\ d'.called = [d.called EXCEPT ![l] = @ + 1]
        /\ d.posted[l] > 0 /\ d'.stops = d.stops
    BY <1>0, <1>9 DEF CallHandler, Resolver
  <2>2. /\ d.posted \in [Lookups -> Nat] /\ d.called \in [Lookups -> Nat]
    BY <1>0 DEF Resolver
  <2>3. d.posted[l] = 1 /\ d.called[l] = 0 /\ l \in d.asked
    <3>1. d.posted[l] \in Nat /\ d.called[l] \in Nat /\ d.posted[l] > 0
      BY <2>1, <2>2
    <3>2. /\ d.posted[l] + d.called[l] <= 1
          /\ l \notin d.asked => d.posted[l] = 0
      BY <1>0 DEF OnceInv
    <3> QED BY <3>1, <3>2
  <2>4. Outcome(d, l) = "answered"
    BY <2>3 DEF Outcome
  <2>5. d'.posted[l] = 0 /\ d'.called[l] = 1
    BY <2>1, <2>2, <2>3
  <2>6. Outcome(d', l) = "called"
    BY <2>1, <2>3, <2>5 DEF Outcome
  <2>7. \A m \in Lookups \ {l} : Alike(d, d', m)
    BY <2>1, <2>2 DEF Alike
  <2>8. Out(d') = [Out(d) EXCEPT ![l] = "called"]
    BY <2>6, <2>7, OutOne
  <2> QED BY <2>1, <2>4, <2>8 DEF Out, Takes
<1>10. ASSUME stop
       PROVE  /\ Out(d') = [l \in Lookups |->
                              IF Out(d)[l] = "pending" THEN "dropped" ELSE Out(d)[l]]
              /\ d'.stops = d.stops + 1
  <2>1. /\ d'.asked = d.asked /\ d'.threw = d.threw /\ d'.entries = {}
        /\ d'.posted = d.posted /\ d'.called = d.called /\ d'.stops = d.stops + 1
    BY <1>0, <1>10 DEF stop, Cancel, Resolver
  <2>2. \A l \in Lookups : Outcome(d', l) =
          IF Outcome(d, l) = "pending" THEN "dropped" ELSE Outcome(d, l)
    BY <2>1 DEF Outcome
  <2> QED BY <2>1, <2>2 DEF Out
<1>11. CASE UNCHANGED vars
  BY <1>11 DEF vars
<1>12. CASE stop
  BY <1>10, <1>12, Zenon
<1>13. ASSUME NEW l \in Lookups,
              \/ async_resolve_now(l) \/ async_resolve(l)
              \/ async_resolve_unsent(l) \/ async_resolve_no_server(l)
              \/ async_resolve_throws(l) \/ CallHandler(l)
       PROVE  \/ Takes(l, "new", "pending") \/ Takes(l, "new", "answered")
              \/ Takes(l, "new", "refused") \/ Takes(l, "answered", "called")
  BY <1>1, <1>2, <1>3, <1>4, <1>5, <1>9, <1>13, Zenon
<1>14. ASSUME NEW l \in Lookups, dns_recv(l) \/ TimerExpires(l) \/ TimerHandler(l)
       PROVE  \/ Out(d') = Out(d) /\ d'.stops = d.stops
              \/ \E m \in Lookups : Takes(m, "pending", "answered")
  BY <1>6, <1>7, <1>8, <1>14, Zenon
<1> QED BY <1>11, <1>12, <1>13, <1>14, Zenon DEF Next

\* The resolver implements what it promises its callers: every step is a step
\* of LookupPromise or changes nothing callers see.  So whatever races, a lookup
\* ends without its handler only by an exception out of async_resolve or by a
\* stop() that found it without an answer, and a handler is called once, after
\* its answer.  Names that are refused are part of it, as long as no id comes
\* round to a query they left behind.
THEOREM Refinement == ASSUME NoReturn PROVE Spec => Promise!Spec
<1>1. Init => Promise!Init
  BY DEF Init, Fresh, Out, Outcome, Promise!Init
<1>2. ASSUME Inv, [Next]_vars  PROVE [Promise!Next]_(<<Out(d), d.stops>>)
  BY <1>2, StepOut, Zenon DEF Takes, Promise!Next, Promise!Accept, Promise!Refuse,
     Promise!Answer, Promise!Call, Promise!Stop, Promise!Becomes
<1> QED BY <1>1, <1>2, Invariance, PTL DEF Spec, Promise!Spec, Promise!vars
=============================================================================
