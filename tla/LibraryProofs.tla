---------------------------- MODULE LibraryProofs ----------------------------
(***************************************************************************)
(* Theorems about an owner's library and the pages of its listings, for    *)
(* any number of assets, tags and links and any limits.                    *)
(***************************************************************************)
EXTENDS Library, FiniteSetTheorems, WellFoundedInduction, NaturalsInduction, TLAPS

-----------------------------------------------------------------------------
(* The order of a listing.                                                 *)

Places == [head: BOOLEAN, key: Nat, id: Nat]
Orders == [by: {"created", "updated", "key", "shuffle", "search"}, pivot: Nat,
           descending: BOOLEAN, filter: {"none", "favorite", "trash"} \cup Tags]

LEMMA BeforeIsAnOrder ==
    ASSUME NEW on \in Orders, NEW p \in Places, NEW q \in Places, NEW r \in Places
    PROVE  /\ ~Before(on, p, p)
           /\ Before(on, p, q) => ~Before(on, q, p)
           /\ Before(on, p, q) /\ Before(on, q, r) => Before(on, p, r)
           /\ p.id # q.id => Before(on, p, q) \/ Before(on, q, p)
  BY DEF Before, Places, Orders

LEMMA RowPlaces ==
    ASSUME NEW rows \in [Assets -> Row], NEW on \in Orders, NEW a \in Assets
    PROVE  Place(rows, on, a) \in Places /\ Place(rows, on, a).id = a
<1>1. rows[a] \in Row /\ a \in Nat
  BY LibraryAssumption
<1>2. SortKey(rows[a], on) \in Nat
  BY <1>1, LibraryAssumption DEF Row, SortKey
<1>3. Head(rows[a], on) \in BOOLEAN
  BY DEF Head
<1> QED BY <1>1, <1>2, <1>3 DEF Place, Places
-----------------------------------------------------------------------------
(* A page shows the first rows of those left, and its last row is where the *)
(* next page begins.                                                       *)

LEMMA LeastNatural ==
    ASSUME NEW S \in SUBSET Nat, S # {}
    PROVE  \E m \in S : \A n \in S : ~(n < m)
<1>1. PICK m \in S : \A n \in S : ~(<<n, m>> \in OpToRel(<, Nat))
  BY NatLessThanWellFounded, WFMin
<1>2. \A n \in S : <<n, m>> \in OpToRel(<, Nat) <=> n < m
  BY DEF OpToRel
<1> QED BY <1>1, <1>2

LEMMA GreatestNatural ==
    ASSUME NEW S \in SUBSET Nat, S # {}, NEW bound \in Nat, \A n \in S : n <= bound
    PROVE  \E m \in S : \A n \in S : n <= m
<1> DEFINE R == {bound - n : n \in S}
<1>1. R \in SUBSET Nat /\ R # {}
  <2>1. \A n \in S : n \in Nat /\ n <= bound
    OBVIOUS
  <2>2. \A n \in S : bound - n \in Nat
    BY <2>1
  <2> QED BY <2>2
<1>2. PICK d \in R : \A e \in R : ~(e < d)
  <2> HIDE DEF R
  <2> QED BY <1>1, LeastNatural
<1>3. PICK m \in S : d = bound - m
  OBVIOUS
<1>4. ASSUME NEW n \in S PROVE n <= m
  <2>1. ~(bound - n < bound - m)
    BY <1>2, <1>3
  <2> QED BY <2>1
<1> QED BY <1>4

Ahead(l, a) == {b \in Eligible(l) : Before(l.on, Place(asset, l.on, b), Place(asset, l.on, a))}

LEMMA AheadRanks ==
    ASSUME asset \in [Assets -> Row], NEW l, l.on \in Orders
    PROVE  /\ \A a \in Eligible(l) : Cardinality(Ahead(l, a)) \in Nat
           /\ \A a, b \in Eligible(l) :
                Before(l.on, Place(asset, l.on, a), Place(asset, l.on, b)) =>
                   Cardinality(Ahead(l, a)) < Cardinality(Ahead(l, b))
<1>0. Eligible(l) \subseteq Assets /\ IsFiniteSet(Assets)
  BY LibraryAssumption DEF Eligible
<1>1. \A a \in Assets : Place(asset, l.on, a) \in Places /\ Place(asset, l.on, a).id = a
  BY RowPlaces
<1>2. ASSUME NEW a \in Eligible(l)
      PROVE  IsFiniteSet(Ahead(l, a)) /\ Cardinality(Ahead(l, a)) \in Nat
  <2>1. Ahead(l, a) \in SUBSET Assets
    BY <1>0 DEF Ahead
  <2> QED BY <1>0, <2>1, FS_Subset, FS_CardinalityType
<1>3. ASSUME NEW a \in Eligible(l), NEW b \in Eligible(l),
             Before(l.on, Place(asset, l.on, a), Place(asset, l.on, b))
      PROVE  Cardinality(Ahead(l, a)) < Cardinality(Ahead(l, b))
  <2>1. \A c \in Eligible(l) :
            Before(l.on, Place(asset, l.on, c), Place(asset, l.on, a)) =>
            Before(l.on, Place(asset, l.on, c), Place(asset, l.on, b))
    BY <1>0, <1>1, <1>3, BeforeIsAnOrder
  <2>2. Ahead(l, a) \subseteq Ahead(l, b)
    BY <2>1 DEF Ahead
  <2>3. a \in Ahead(l, b)
    BY <1>3 DEF Ahead
  <2>4. a \notin Ahead(l, a)
    BY <1>0, <1>1, BeforeIsAnOrder DEF Ahead
  <2>5. Ahead(l, a) \in SUBSET Ahead(l, b) /\ Ahead(l, a) # Ahead(l, b)
    BY <2>2, <2>3, <2>4
  <2>6. /\ Cardinality(Ahead(l, a)) <= Cardinality(Ahead(l, b))
        /\ Cardinality(Ahead(l, b)) # Cardinality(Ahead(l, a))
    BY <1>2, <2>5, FS_Subset
  <2> QED BY <1>2, <2>6
<1> QED BY <1>2, <1>3

LEMMA PageComesFirst ==
    ASSUME asset \in [Assets -> Row], NEW l, l.on \in Orders
    PROVE  /\ PageOf(l) \subseteq Eligible(l)
           /\ \A a \in PageOf(l), b \in Eligible(l) \ PageOf(l) :
                Before(l.on, Place(asset, l.on, a), Place(asset, l.on, b))
<1>0. Eligible(l) \subseteq Assets
  BY DEF Eligible
<1>1. \A a \in Eligible(l) : a \in PageOf(l) <=> Cardinality(Ahead(l, a)) < PageLimit
  BY DEF PageOf, Ahead
<1>2. ASSUME NEW a \in PageOf(l), NEW b \in Eligible(l) \ PageOf(l)
      PROVE  Before(l.on, Place(asset, l.on, a), Place(asset, l.on, b))
  <2>1. a \in Eligible(l) /\ a # b
    BY <1>2 DEF PageOf
  <2>2. Cardinality(Ahead(l, a)) \in Nat /\ Cardinality(Ahead(l, b)) \in Nat /\ PageLimit \in Nat
    BY <2>1, AheadRanks, LibraryAssumption
  <2>3. ~(Cardinality(Ahead(l, b)) < Cardinality(Ahead(l, a)))
    BY <1>1, <2>1, <2>2
  <2>4. ~Before(l.on, Place(asset, l.on, b), Place(asset, l.on, a))
    BY <2>1, <2>3, AheadRanks
  <2> QED BY <1>0, <2>1, <2>4, RowPlaces, BeforeIsAnOrder
<1> QED BY <1>2 DEF PageOf

IsLast(l, a) ==
    /\ a \in PageOf(l)
    /\ \A b \in PageOf(l) \ {a} : Before(l.on, Place(asset, l.on, b), Place(asset, l.on, a))

LEMMA PageHasALast ==
    ASSUME asset \in [Assets -> Row], NEW l, l.on \in Orders, PageOf(l) # Eligible(l)
    PROVE  \E a : IsLast(l, a)
<1> DEFINE Rank(a) == Cardinality(Ahead(l, a))
<1>0. Eligible(l) \subseteq Assets /\ PageOf(l) \subseteq Eligible(l)
  BY DEF Eligible, PageOf
<1>1. \A a \in Eligible(l) : Rank(a) \in Nat
  BY AheadRanks
<1>2. \A a, b \in Eligible(l) :
         Before(l.on, Place(asset, l.on, a), Place(asset, l.on, b)) => Rank(a) < Rank(b)
  BY AheadRanks
<1>3. PageOf(l) # {}
  <2>1. {Rank(a) : a \in Eligible(l)} \in SUBSET Nat /\ {Rank(a) : a \in Eligible(l)} # {}
    BY <1>0, <1>1
  <2> DEFINE Ranks == {Rank(a) : a \in Eligible(l)}
  <2>2. PICK m \in Ranks : \A n \in Ranks : ~(n < m)
    <3> HIDE DEF Ranks
    <3> QED BY <2>1, LeastNatural DEF Ranks
  <2>3. PICK a \in Eligible(l) : Rank(a) = m
    BY <2>2
  <2>4. Ahead(l, a) = {}
    <3>1. SUFFICES ASSUME NEW b \in Ahead(l, a) PROVE FALSE
      OBVIOUS
    <3>2. b \in Eligible(l) /\ Rank(b) < Rank(a)
      BY <1>2 DEF Ahead
    <3> QED BY <2>2, <2>3, <3>2
  <2>5. Rank(a) = 0
    BY <2>4, FS_EmptySet
  <2> QED BY <2>5, LibraryAssumption DEF PageOf, Ahead
<1>4. \A a \in PageOf(l) : Rank(a) <= PageLimit
  BY <1>0, <1>1, LibraryAssumption DEF PageOf, Ahead
<1>5. PICK m \in PageOf(l) : \A a \in PageOf(l) : Rank(a) <= Rank(m)
  <2> DEFINE Ranks == {Rank(a) : a \in PageOf(l)}
  <2>1. Ranks \in SUBSET Nat /\ Ranks # {} /\ \A n \in Ranks : n <= PageLimit
    BY <1>0, <1>1, <1>3, <1>4
  <2>2. PICK n \in Ranks : \A k \in Ranks : k <= n
    <3> HIDE DEF Ranks
    <3> QED BY <2>1, GreatestNatural, LibraryAssumption
  <2> QED BY <2>2
<1>6. ASSUME NEW b \in PageOf(l) \ {m} PROVE Before(l.on, Place(asset, l.on, b), Place(asset, l.on, m))
  <2>1. ~(Rank(m) < Rank(b))
    BY <1>0, <1>1, <1>5
  <2>2. ~Before(l.on, Place(asset, l.on, m), Place(asset, l.on, b))
    BY <1>0, <1>2, <2>1
  <2>3. m \in Assets /\ b \in Assets /\ m # b
    BY <1>0
  <2> QED BY <2>2, <2>3, RowPlaces, BeforeIsAnOrder
<1> QED BY <1>5, <1>6 DEF IsLast
-----------------------------------------------------------------------------
(* A listing under way.                                                    *)

Listing == [on: Orders, snapshot: Nat, after: Places, pc: {"none", "more", "done"},
            seen: SUBSET Assets, twice: SUBSET Assets, steady: SUBSET Assets, moved: SUBSET Assets]

(* Between two pages an asset that stayed is either shown already or still  *)
(* behind the cursor, and one that was shown and kept its place is not.     *)
Resumable(l) ==
    /\ l.after.id # 0
    /\ \A a \in l.steady : a \in l.seen \/ Before(l.on, l.after, Place(asset, l.on, a))
    /\ \A a \in l.seen \ l.moved : ~Before(l.on, l.after, Place(asset, l.on, a))

ListInv ==
    /\ list \in Listing
    /\ list.twice \subseteq list.moved
    /\ \A a \in list.seen : asset[a].state # "absent"
    /\ list.pc = "none" => list = NoList
    /\ list.pc = "more" => Resumable(list) /\ \A a \in list.steady : Matches(asset, list, a)
    /\ list.pc = "done" => list.steady \subseteq list.seen

LEMMA ShowPageKeeps ==
    ASSUME asset \in [Assets -> Row], NEW l \in Listing, ShowPage(l), asset' = asset,
           l.twice \subseteq l.moved,
           \A a \in l.seen : asset[a].state # "absent",
           \A a \in l.steady : Matches(asset, l, a),
           \/ l.after.id = 0 /\ l.seen = {}
           \/ Resumable(l)
    PROVE  ListInv'
<1> DEFINE on == l.on
           page == PageOf(l)
           more == page # Eligible(l)
           last == CHOOSE a \in page :
                      \A b \in page \ {a} : Before(l.on, Place(asset, l.on, b), Place(asset, l.on, a))
<1>0. on \in Orders /\ l.after \in Places /\ l.seen \subseteq Assets /\ l.steady \subseteq Assets
  BY DEF Listing
<1>1. page \subseteq Eligible(l) /\ Eligible(l) \subseteq Assets
  BY <1>0, PageComesFirst DEF Eligible
<1>2. more => IsLast(l, last)
  BY <1>0, PageHasALast DEF IsLast
<1>3. list' = [l EXCEPT !.pc = IF more THEN "more" ELSE "done",
                        !.after = IF more THEN Place(asset, on, last) ELSE @,
                        !.seen = @ \cup page,
                        !.twice = @ \cup (l.seen \cap page)]
  BY DEF ShowPage
<1> HIDE DEF on, page, more, last
<1>4. more => last \in page /\ last \in Assets /\ Place(asset, on, last) \in Places
  BY <1>0, <1>1, <1>2, RowPlaces DEF IsLast, page
<1>5. /\ list'.on = on /\ list'.snapshot = l.snapshot /\ list'.moved = l.moved /\ list'.steady = l.steady
      /\ list'.pc = IF more THEN "more" ELSE "done"
      /\ list'.after = IF more THEN Place(asset, on, last) ELSE l.after
      /\ list'.seen = l.seen \cup page
      /\ list'.twice = l.twice \cup (l.seen \cap page)
  BY <1>3 DEF Listing, on
<1>6. list' \in Listing
  BY <1>1, <1>3, <1>4 DEF Listing
<1>7. \A a \in Eligible(l) : Matches(asset, l, a) /\ asset[a].state # "absent"
  BY DEF Eligible, Matches
<1>8. \A a \in Eligible(l) : l.after.id # 0 => Before(on, l.after, Place(asset, on, a))
  BY DEF Eligible, on
<1>9. ASSUME NEW a \in l.seen \cap page PROVE a \in l.moved
  BY <1>1, <1>8, <1>9 DEF Resumable, on
<1>10. \A a \in l.steady : a \in l.seen \/ a \in Eligible(l)
  BY <1>0 DEF Resumable, Eligible
<1>11. CASE more
  <2>1. ASSUME NEW a \in l.steady, a \notin l.seen \cup page
        PROVE Before(on, Place(asset, on, last), Place(asset, on, a))
    BY <1>0, <1>4, <1>10, <1>11, <2>1, PageComesFirst DEF page, on
  <2>2. ASSUME NEW a \in page, Before(on, Place(asset, on, last), Place(asset, on, a))
        PROVE FALSE
    <3>1. a \in Assets /\ (a = last \/ Before(on, Place(asset, on, a), Place(asset, on, last)))
      BY <1>1, <1>2, <1>11 DEF IsLast, page, on
    <3> QED BY <1>0, <1>4, <1>11, <2>2, <3>1, RowPlaces, BeforeIsAnOrder
  <2>3. ASSUME NEW a \in l.seen \ l.moved, Before(on, Place(asset, on, last), Place(asset, on, a))
        PROVE FALSE
    <3>1. l.after.id # 0 /\ ~Before(on, l.after, Place(asset, on, a))
      BY DEF Resumable, on
    <3>2. Before(on, l.after, Place(asset, on, last))
      BY <1>1, <1>4, <1>8, <1>11, <3>1
    <3>3. Place(asset, on, a) \in Places
      BY <1>0, RowPlaces
    <3> QED BY <1>0, <1>4, <1>11, <2>3, <3>1, <3>2, <3>3, BeforeIsAnOrder
  <2>4. list'.after.id # 0
    <3>1. Place(asset, on, last).id = last
      BY <1>0, <1>4, <1>11, RowPlaces
    <3>2. last # 0
      BY <1>4, <1>11, LibraryAssumption
    <3> QED BY <1>5, <1>11, <3>1, <3>2
  <2>5. Resumable(list)'
    <3>1. \A a \in l.steady : a \in l.seen \cup page \/ Before(on, Place(asset, on, last), Place(asset, on, a))
      BY <2>1
    <3>2. \A a \in (l.seen \cup page) \ l.moved : ~Before(on, Place(asset, on, last), Place(asset, on, a))
      BY <2>2, <2>3
    <3> QED BY <1>5, <1>11, <2>4, <3>1, <3>2 DEF Resumable
  <2>6. \A a \in l.steady : Matches(asset', list', a)
    BY <1>5 DEF Matches, on
  <2> QED BY <1>1, <1>5, <1>6, <1>7, <1>9, <1>11, <2>5, <2>6 DEF ListInv
<1>12. CASE ~more
  <2>1. l.steady \subseteq l.seen \cup page
    BY <1>10, <1>12 DEF more
  <2> QED BY <1>1, <1>5, <1>6, <1>7, <1>9, <1>12, <2>1 DEF ListInv
<1> QED BY <1>11, <1>12

(* What happens to the assets meanwhile.                                    *)
LEMMA WatchedKeeps ==
    ASSUME asset \in [Assets -> Row], ListInv, Watched,
           \A a \in Assets : asset[a].state # "absent" => asset'[a].state # "absent"
    PROVE  ListInv'
<1>0. list \in Listing /\ list.seen \subseteq Assets /\ list.steady \subseteq Assets
  BY DEF ListInv, Listing
<1>1. CASE list.pc = "done"
  BY <1>0, <1>1 DEF Watched, ListInv
<1>2. CASE list.pc = "none"
  <2>1. list' = list
    BY <1>2 DEF Watched
  <2> QED BY <1>2, <2>1 DEF ListInv, NoList
<1>3. CASE list.pc = "more"
  <2> DEFINE moved == {a \in Assets : Place(asset', list.on, a) # Place(asset, list.on, a)
                                        /\ asset[a].state # "absent"}
  <2>1. list' = [list EXCEPT !.moved = @ \cup moved,
                             !.steady = {a \in @ \ moved : Matches(asset', list, a)}]
    BY <1>3 DEF Watched
  <2>2. /\ moved \subseteq Assets
        /\ \A a \in Assets \ moved : asset[a].state # "absent" =>
              Place(asset', list.on, a) = Place(asset, list.on, a)
    OBVIOUS
  <2> HIDE DEF moved
  <2> DEFINE steady == {a \in list.steady \ moved : Matches(asset', list, a)}
  <2>3. steady \subseteq list.steady \ moved /\ \A a \in steady : Matches(asset', list, a)
    OBVIOUS
  <2> HIDE DEF steady
  <2>4. /\ list'.on = list.on /\ list'.snapshot = list.snapshot /\ list'.after = list.after
        /\ list'.pc = "more" /\ list'.seen = list.seen /\ list'.twice = list.twice
        /\ list'.moved = list.moved \cup moved
        /\ list'.steady = steady
    BY <1>0, <1>3, <2>1 DEF Listing, steady
  <2>5. list' \in Listing
    BY <1>0, <2>1, <2>2, <2>3 DEF Listing, steady
  <2>6. \A a \in steady : Matches(asset', list', a)
    BY <2>3, <2>4 DEF Matches
  <2>7. \A a \in list.steady : Matches(asset, list, a) /\ asset[a].state # "absent"
    BY <1>3 DEF ListInv, Matches
  <2>8. Resumable(list)'
    BY <1>0, <1>3, <2>2, <2>3, <2>4, <2>7 DEF ListInv, Resumable
  <2> QED BY <1>0, <2>4, <2>5, <2>6, <2>8 DEF ListInv
<1> QED BY <1>0, <1>1, <1>2, <1>3 DEF Listing
-----------------------------------------------------------------------------
(* Tags.                                                                   *)

Typed ==
    /\ asset \in [Assets -> Row] /\ name \in Namings
    /\ slugs \in 0..MaxSlugs /\ ended \subseteq 1..MaxSlugs /\ clock \in 1..MaxClock

(* Names that become new tags are counted before they are made, whatever    *)
(* they are and whatever identifiers the new tags get.                      *)
LEMMA RecordedKeepsTags ==
    ASSUME Typed, TagsConsistent, NEW names \in SUBSET Names, name' \in Namings, Recorded(names, name')
    PROVE  /\ Existing \subseteq Existing' /\ Named(names, name') \subseteq Existing'
           /\ Cardinality(Existing') <= MaxTagsPerUser
           /\ \A t, u \in Existing' : name'[t] = name'[u] => t = u
<1> DEFINE fresh == {n \in names : \A t \in Tags : name[t] # n}
           made  == {t \in Tags : name'[t] # name[t]}
<1>1. /\ \A t \in made : t \in Tags /\ name[t] = None /\ name'[t] \in fresh
      /\ \A t, u \in made : name'[t] = name'[u] => t = u
      /\ fresh # {} => Cardinality(Existing) + Cardinality(fresh) <= MaxTagsPerUser
      /\ \A t \in Tags \ made : name'[t] = name[t]
  BY DEF Recorded
<1>2. fresh \subseteq Names /\ \A n \in fresh, t \in Tags : name[t] # n
  OBVIOUS
<1>3. Names \cap {None, Deleted} = {} /\ None # Deleted
  BY LibraryAssumption
<1> HIDE DEF fresh, made
<1>4. made \subseteq Tags /\ Existing \subseteq Tags /\ made \cap Existing = {}
  BY <1>1 DEF Existing
<1>5. Existing' = Existing \cup made
  BY <1>1, <1>2, <1>3 DEF Existing
<1>6. IsFiniteSet(fresh) /\ IsFiniteSet(made) /\ IsFiniteSet(Existing)
  BY <1>2, <1>4, LibraryAssumption, FS_Subset
<1>7. Cardinality(made) <= Cardinality(fresh)
  <2> DEFINE f == [t \in made |-> name'[t]]
  <2>1. f \in Injection(made, fresh)
    BY <1>1 DEF Injection, IsInjective
  <2> QED BY <1>6, <2>1, FS_Injection
<1>8. Cardinality(Existing') <= MaxTagsPerUser
  <2>1. /\ Cardinality(Existing) \in Nat /\ Cardinality(made) \in Nat /\ Cardinality(fresh) \in Nat
        /\ MaxTagsPerUser \in Nat
    BY <1>6, FS_CardinalityType, LibraryAssumption
  <2>2. Cardinality(Existing \cup made) = Cardinality(Existing) + Cardinality(made)
    <3>1. Cardinality(Existing \cup made)
            = Cardinality(Existing) + Cardinality(made) - Cardinality(Existing \cap made)
      BY <1>6, FS_Union
    <3>2. Existing \cap made = {}
      BY <1>4
    <3>3. Cardinality({}) = 0
      BY FS_EmptySet, Zenon
    <3>4. Cardinality(Existing \cap made) = 0
      BY <3>2, <3>3
    <3> QED BY <2>1, <3>1, <3>4
  <2>3. CASE fresh = {}
    <3>1. made = {}
      BY <1>1, <2>3
    <3> QED BY <1>5, <3>1 DEF TagsConsistent
  <2>4. CASE fresh # {}
    BY <1>1, <1>5, <1>7, <2>1, <2>2, <2>4
  <2> QED BY <2>3, <2>4
<1>9. Named(names, name') \subseteq Existing'
  BY <1>3 DEF Named, Existing
<1>10. ASSUME NEW t \in Existing', NEW u \in Existing', name'[t] = name'[u] PROVE t = u
  BY <1>1, <1>2, <1>4, <1>5, <1>10 DEF TagsConsistent
<1> QED BY <1>5, <1>8, <1>9, <1>10

(* A change of one row.                                                    *)
LEMMA ChangeKeeps ==
    ASSUME Typed, ListInv, NEW a \in Assets, NEW r \in Row, r.state # "absent", Change(a, r)
    PROVE  /\ asset' \in [Assets -> Row] /\ asset'[a] = r
           /\ \A b \in Assets : b # a => asset'[b] = asset[b]
           /\ ListInv'
<1>1. /\ asset' \in [Assets -> Row] /\ asset'[a] = r
      /\ \A b \in Assets : b # a => asset'[b] = asset[b]
  BY DEF Typed, Change
<1>2. ListInv'
  BY <1>1, WatchedKeeps DEF Typed, Change
<1> QED BY <1>1, <1>2

-----------------------------------------------------------------------------
(* Share links.                                                            *)

ShareInv ==
    /\ ended \subseteq 1..slugs
    /\ \A a \in Assets : asset[a].slug # 0 =>
          asset[a].state = "live" /\ asset[a].slug \in 1..slugs /\ asset[a].slug \notin ended
    /\ \A a, b \in Assets : asset[a].slug # 0 /\ asset[a].slug = asset[b].slug => a = b

(* What a request does to the link of the asset it changes to r.           *)
Relinks(a, r) ==
    \/ r.slug = asset[a].slug /\ r.state = asset[a].state /\ UNCHANGED <<slugs, ended>>
    \/ r.slug = 0 /\ UNCHANGED <<slugs, ended>>
    \/ r.slug = 0 /\ EndShare(a) /\ UNCHANGED slugs
    \/ /\ slugs < MaxSlugs /\ slugs' = slugs + 1 /\ UNCHANGED ended
       /\ r.slug = slugs + 1 /\ r.state = "live"

LEMMA RelinkKeeps ==
    ASSUME Typed, ShareInv, NEW a \in Assets, NEW r \in Row, Relinks(a, r),
           asset'[a] = r, \A b \in Assets : b # a => asset'[b] = asset[b]
    PROVE  ShareInv' /\ slugs' \in 0..MaxSlugs /\ ended' \subseteq 1..MaxSlugs
<1>1. slugs \in Nat /\ MaxSlugs \in Nat /\ slugs <= MaxSlugs
  BY LibraryAssumption DEF Typed
<1>2. CASE r.slug = asset[a].slug /\ r.state = asset[a].state /\ UNCHANGED <<slugs, ended>>
  BY <1>2 DEF Typed, ShareInv
<1>3. CASE r.slug = 0 /\ UNCHANGED <<slugs, ended>>
  BY <1>3 DEF Typed, ShareInv
<1>4. CASE r.slug = 0 /\ EndShare(a) /\ UNCHANGED slugs
  <2>1. ended' = ended \cup ({asset[a].slug} \ {0})
    BY <1>4 DEF EndShare
  <2>2. ended' \subseteq 1..slugs /\ slugs' = slugs
    BY <1>4, <2>1 DEF ShareInv
  <2>3. ended' \subseteq 1..MaxSlugs
    BY <1>1, <2>2
  <2>4. \A b \in Assets : asset'[b].slug # 0 => b # a /\ asset'[b] = asset[b]
    BY <1>4
  <2>5. \A b \in Assets : asset'[b].slug # 0 => asset[b].slug # asset[a].slug
    BY <2>4 DEF ShareInv
  <2> QED BY <2>1, <2>2, <2>3, <2>4, <2>5 DEF Typed, ShareInv
<1>5. CASE slugs < MaxSlugs /\ slugs' = slugs + 1 /\ UNCHANGED ended /\ r.slug = slugs + 1 /\ r.state = "live"
  BY <1>1, <1>5 DEF Typed, ShareInv
<1> QED BY <1>2, <1>3, <1>4, <1>5 DEF Relinks
-----------------------------------------------------------------------------
(* Every request.                                                          *)

(* What a request does to the tags of the asset it changes to r.           *)
Retags(a, r) ==
    \/ UNCHANGED name /\ r.tags \subseteq asset[a].tags
    \/ \E names \in SUBSET Names :
          /\ name' \in Namings /\ Recorded(names, name')
          /\ r.tags \subseteq asset[a].tags \cup Existing \cup Named(names, name')
          /\ WithinAsset(r.tags) \/ r.tags = asset[a].tags

ChangesRow(a) ==
    \E r \in Row : /\ Change(a, r) /\ r.state # "absent" /\ UNCHANGED clock
                   /\ Relinks(a, r) /\ Retags(a, r)

LEMMA RowFacts ==
    /\ NoRow \in Row /\ NoRow.slug = 0 /\ NoRow.tags = {}
    /\ \A s \in Row : /\ Unshared(s) \in Row /\ Unshared(s).slug = 0
                      /\ Unshared(s).state = s.state /\ Unshared(s).tags = s.tags
<1>1. 0 \in 0..MaxSlugs /\ 0 \in 0..MaxClock
  BY LibraryAssumption
<1>2. NoRow \in Row /\ NoRow.slug = 0 /\ NoRow.tags = {}
  BY <1>1 DEF NoRow, Row
<1>3. ASSUME NEW s \in Row
      PROVE  /\ Unshared(s) \in Row /\ Unshared(s).slug = 0
             /\ Unshared(s).state = s.state /\ Unshared(s).tags = s.tags
  BY <1>1 DEF Unshared, Row
<1> QED BY <1>2, <1>3

LEMMA PlainChanges ==
    ASSUME Typed, NEW a \in Assets,
           \/ Delete(a) \/ Restore(a) \/ Purge(a) \/ Index(a) \/ Share(a) \/ RevokeShare(a)
           \/ \E favorite \in BOOLEAN : Update(a, favorite, FALSE, {})
           \/ \E ids \in SUBSET Tags : RemoveTags(a, ids)
    PROVE  ChangesRow(a)
<1>0. /\ asset[a] \in Row /\ clock \in 0..MaxClock
      /\ slugs \in Nat /\ MaxSlugs \in Nat /\ slugs <= MaxSlugs
  BY LibraryAssumption DEF Typed
<1>1. CASE Delete(a)
  <2> DEFINE r == Unshared([asset[a] EXCEPT !.state = "trash", !.updated = clock])
  <2>1. r \in Row /\ r.state = "trash" /\ r.slug = 0 /\ r.tags = asset[a].tags
    <3> DEFINE s == [asset[a] EXCEPT !.state = "trash", !.updated = clock]
    <3>1. s \in Row /\ s.state = "trash" /\ s.tags = asset[a].tags
      BY <1>0 DEF Row
    <3> HIDE DEF s
    <3> QED BY <3>1, RowFacts DEF s
  <2>2. Change(a, r) /\ EndShare(a) /\ UNCHANGED <<name, slugs, clock>>
    BY <1>1 DEF Delete
  <2> HIDE DEF r
  <2> QED BY <2>1, <2>2 DEF ChangesRow, Relinks, Retags
<1>2. CASE Restore(a)
  <2> DEFINE s == [asset[a] EXCEPT !.state = "live", !.updated = clock]
             r == IF asset[a].state = "trash" THEN Unshared(s) ELSE s
  <2>1. s \in Row /\ s.state = "live" /\ s.slug = asset[a].slug /\ s.tags = asset[a].tags
    BY <1>0 DEF Row
  <2>2. Change(a, r) /\ UNCHANGED <<name, slugs, ended, clock>> /\ asset[a].state \in {"live", "trash"}
    BY <1>2 DEF Restore, InLibrary
  <2>3. Unshared(s) \in Row /\ Unshared(s).state = "live" /\ Unshared(s).slug = 0
        /\ Unshared(s).tags = asset[a].tags
    BY <2>1, RowFacts
  <2>4. r \in Row /\ r.state = "live" /\ r.tags = asset[a].tags
        /\ (r.slug = 0 \/ (r.slug = asset[a].slug /\ asset[a].state = "live"))
    BY <2>1, <2>2, <2>3
  <2> HIDE DEF r, s
  <2> QED BY <2>2, <2>4 DEF ChangesRow, Relinks, Retags
<1>3. CASE Purge(a)
  <2> DEFINE r == [NoRow EXCEPT !.state = "purged"]
  <2>1. r \in Row /\ r.state = "purged" /\ r.slug = 0 /\ r.tags = {}
    BY RowFacts DEF Row
  <2>2. Change(a, r) /\ UNCHANGED <<name, slugs, ended, clock>>
    BY <1>3 DEF Purge
  <2> HIDE DEF r
  <2> QED BY <2>1, <2>2 DEF ChangesRow, Relinks, Retags
<1>4. CASE Index(a)
  <2> DEFINE r == [asset[a] EXCEPT !.ready = TRUE]
  <2>1. r \in Row /\ r.state = asset[a].state /\ r.slug = asset[a].slug /\ r.tags = asset[a].tags
    BY <1>0 DEF Row
  <2>2. Change(a, r) /\ UNCHANGED <<name, slugs, ended, clock>> /\ asset[a].state = "live"
    BY <1>4 DEF Index
  <2> HIDE DEF r
  <2> QED BY <2>1, <2>2 DEF ChangesRow, Relinks, Retags
<1>5. ASSUME NEW favorite \in BOOLEAN, Update(a, favorite, FALSE, {}) PROVE ChangesRow(a)
  <2> DEFINE r == [asset[a] EXCEPT !.favorite = favorite, !.updated = clock, !.tags = asset[a].tags]
  <2>1. r \in Row /\ r.state = asset[a].state /\ r.slug = asset[a].slug /\ r.tags = asset[a].tags
    BY <1>0 DEF Row
  <2>2. Change(a, r) /\ UNCHANGED <<name, slugs, ended, clock>> /\ asset[a].state = "live"
    BY <1>5 DEF Update
  <2> HIDE DEF r
  <2> QED BY <2>1, <2>2 DEF ChangesRow, Relinks, Retags
<1>6. CASE Share(a)
  <2> DEFINE r == [asset[a] EXCEPT !.slug = slugs + 1, !.updated = clock]
  <2>1. slugs < MaxSlugs /\ asset[a].state = "live" /\ Change(a, r)
        /\ slugs' = slugs + 1 /\ UNCHANGED <<name, ended, clock>>
    BY <1>6 DEF Share
  <2>2. slugs + 1 \in 0..MaxSlugs
    BY <1>0, <2>1
  <2>3. r \in Row /\ r.state = "live" /\ r.slug = slugs + 1 /\ r.tags = asset[a].tags
    BY <1>0, <2>1, <2>2 DEF Row
  <2> HIDE DEF r
  <2> QED BY <2>1, <2>3 DEF ChangesRow, Relinks, Retags
<1>7. CASE RevokeShare(a)
  <2> DEFINE r == Unshared([asset[a] EXCEPT !.updated = clock])
  <2>1. r \in Row /\ r.state = asset[a].state /\ r.slug = 0 /\ r.tags = asset[a].tags
    <3> DEFINE s == [asset[a] EXCEPT !.updated = clock]
    <3>1. s \in Row /\ s.state = asset[a].state /\ s.tags = asset[a].tags
      BY <1>0 DEF Row
    <3> HIDE DEF s
    <3> QED BY <3>1, RowFacts DEF s
  <2>2. Change(a, r) /\ EndShare(a) /\ UNCHANGED <<name, slugs, clock>> /\ asset[a].state # "absent"
    BY <1>7 DEF RevokeShare, InLibrary
  <2> HIDE DEF r
  <2> QED BY <2>1, <2>2 DEF ChangesRow, Relinks, Retags
<1>8. ASSUME NEW ids \in SUBSET Tags, RemoveTags(a, ids) PROVE ChangesRow(a)
  <2> DEFINE r == [asset[a] EXCEPT !.tags = @ \ ids]
  <2>1. r \in Row /\ r.state = asset[a].state /\ r.slug = asset[a].slug /\ r.tags \subseteq asset[a].tags
    BY <1>0 DEF Row
  <2>2. Change(a, r) /\ UNCHANGED <<name, slugs, ended, clock>> /\ asset[a].state = "live"
    BY <1>8 DEF RemoveTags
  <2> HIDE DEF r
  <2> QED BY <2>1, <2>2 DEF ChangesRow, Relinks, Retags
<1> QED BY <1>1, <1>2, <1>3, <1>4, <1>5, <1>6, <1>7, <1>8

LEMMA TaggingChanges ==
    ASSUME Typed, NEW a \in Assets, NEW names \in SUBSET Names,
           \/ \E k \in Keys : Save(a, k, names)
           \/ \E favorite \in BOOLEAN : Update(a, favorite, TRUE, names)
           \/ \E ids \in SUBSET Tags : AddTags(a, ids, names)
    PROVE  ChangesRow(a)
<1>0. /\ asset[a] \in Row /\ clock \in 0..MaxClock
      /\ Named(names, name') \subseteq Tags /\ Existing \subseteq Tags
  BY LibraryAssumption DEF Typed, Named, Existing
<1>1. ASSUME NEW k \in Keys, Save(a, k, names) PROVE ChangesRow(a)
  <2> DEFINE tags == Named(names, name')
  <2>1. /\ name' \in Namings /\ Recorded(names, name') /\ WithinAsset(tags)
        /\ Change(a, [NoRow EXCEPT !.state = "live", !.created = clock, !.updated = clock,
                                   !.key = k, !.tags = tags])
        /\ UNCHANGED <<slugs, ended, clock>>
    BY <1>1 DEF Save
  <2> HIDE DEF tags
  <2> DEFINE r == [NoRow EXCEPT !.state = "live", !.created = clock, !.updated = clock,
                                !.key = k, !.tags = tags]
  <2>2. r \in Row /\ r.state = "live" /\ r.slug = 0 /\ r.tags = tags
    BY <1>0, RowFacts DEF Row, tags
  <2> HIDE DEF r
  <2>3. Change(a, r)
    BY <2>1 DEF r
  <2> QED BY <2>1, <2>2, <2>3 DEF ChangesRow, Relinks, Retags, tags
<1>2. ASSUME NEW favorite \in BOOLEAN, Update(a, favorite, TRUE, names) PROVE ChangesRow(a)
  <2> DEFINE tags == Named(names, name')
             r == [asset[a] EXCEPT !.favorite = favorite, !.updated = clock, !.tags = tags]
  <2>1. /\ name' \in Namings /\ Recorded(names, name') /\ WithinAsset(tags)
        /\ Change(a, r) /\ UNCHANGED <<slugs, ended, clock>> /\ asset[a].state = "live"
    BY <1>2 DEF Update
  <2>2. r \in Row /\ r.state = "live" /\ r.slug = asset[a].slug /\ r.tags = tags
    BY <1>0, <2>1 DEF Row
  <2> HIDE DEF r
  <2> QED BY <2>1, <2>2 DEF ChangesRow, Relinks, Retags
<1>3. ASSUME NEW ids \in SUBSET Tags, AddTags(a, ids, names) PROVE ChangesRow(a)
  <2> DEFINE tags == asset[a].tags \cup (ids \cap Existing) \cup Named(names, name')
             r == [asset[a] EXCEPT !.tags = tags]
  <2>1. /\ name' \in Namings /\ Recorded(names, name')
        /\ tags = asset[a].tags \/ WithinAsset(tags)
        /\ Change(a, r) /\ UNCHANGED <<slugs, ended, clock>> /\ asset[a].state = "live"
    BY <1>3 DEF AddTags
  <2>2. tags \subseteq Tags /\ tags \subseteq asset[a].tags \cup Existing \cup Named(names, name')
    BY <1>0 DEF Row
  <2> HIDE DEF tags
  <2>3. r \in Row /\ r.state = "live" /\ r.slug = asset[a].slug /\ r.tags = tags
    BY <1>0, <2>1, <2>2 DEF Row
  <2> HIDE DEF r
  <2> QED BY <2>1, <2>2, <2>3 DEF ChangesRow, Relinks, Retags
<1> QED BY <1>1, <1>2, <1>3

(* Tags after the change of a row.                                         *)
LEMMA RetagKeeps ==
    ASSUME Typed, TagsConsistent, NEW a \in Assets, NEW r \in Row, Retags(a, r),
           asset'[a] = r, \A b \in Assets : b # a => asset'[b] = asset[b]
    PROVE  TagsConsistent' /\ name' \in Namings
<1>0. \A b \in Assets : asset[b].tags \subseteq Existing /\ WithinAsset(asset[b].tags)
  BY DEF TagsConsistent
<1>1. CASE UNCHANGED name /\ r.tags \subseteq asset[a].tags
  <2>1. Existing' = Existing
    BY <1>1 DEF Existing
  <2>2. IsFiniteSet(asset[a].tags)
    <3>1. asset[a].tags \in SUBSET Tags
      BY DEF Typed, Row
    <3> QED BY <3>1, LibraryAssumption, FS_Subset
  <2>3. Cardinality(r.tags) <= Cardinality(asset[a].tags)
        /\ Cardinality(r.tags) \in Nat /\ Cardinality(asset[a].tags) \in Nat
    BY <1>1, <2>2, FS_Subset, FS_CardinalityType
  <2>4. WithinAsset(r.tags)
    BY <1>0, <2>3, LibraryAssumption DEF WithinAsset
  <2>5. \A b \in Assets : asset'[b].tags \subseteq Existing /\ WithinAsset(asset'[b].tags)
    BY <1>0, <1>1, <2>4
  <2> QED BY <1>1, <2>1, <2>5 DEF TagsConsistent, Typed, WithinAsset
<1>2. ASSUME NEW names \in SUBSET Names, name' \in Namings, Recorded(names, name'),
             r.tags \subseteq asset[a].tags \cup Existing \cup Named(names, name'),
             WithinAsset(r.tags) \/ r.tags = asset[a].tags
      PROVE  TagsConsistent' /\ name' \in Namings
  <2>1. /\ Existing \subseteq Existing' /\ Named(names, name') \subseteq Existing'
        /\ Cardinality(Existing') <= MaxTagsPerUser
        /\ \A t, u \in Existing' : name'[t] = name'[u] => t = u
    BY <1>2, RecordedKeepsTags
  <2>2. \A b \in Assets : asset'[b].tags \subseteq Existing' /\ WithinAsset(asset'[b].tags)
    BY <1>0, <1>2, <2>1
  <2> QED BY <1>2, <2>1, <2>2 DEF TagsConsistent, WithinAsset
<1> QED BY <1>1, <1>2 DEF Retags
LibraryInv == Typed /\ ListInv /\ ShareInv /\ TagsConsistent

LEMMA RowChangeKeeps ==
    ASSUME LibraryInv, NEW a \in Assets, ChangesRow(a)
    PROVE  LibraryInv'
<1> USE DEF LibraryInv
<1>1. PICK r \in Row : /\ Change(a, r) /\ r.state # "absent" /\ UNCHANGED clock
                       /\ Relinks(a, r) /\ Retags(a, r)
  BY DEF ChangesRow
<1>2. /\ asset' \in [Assets -> Row] /\ asset'[a] = r
      /\ \A b \in Assets : b # a => asset'[b] = asset[b]
      /\ ListInv'
  BY <1>1, ChangeKeeps
<1>3. ShareInv' /\ slugs' \in 0..MaxSlugs /\ ended' \subseteq 1..MaxSlugs
  BY <1>1, <1>2, RelinkKeeps
<1>4. TagsConsistent' /\ name' \in Namings
  BY <1>1, <1>2, RetagKeeps
<1> QED BY <1>1, <1>2, <1>3, <1>4 DEF Typed

LEMMA TagChangeKeeps ==
    ASSUME LibraryInv,
           \/ \E n \in Names : CreateTag(n)
           \/ \E t \in Tags, n \in Names : UpdateTag(t, n)
           \/ \E t \in Tags : DeleteTag(t)
    PROVE  LibraryInv'
<1> USE DEF LibraryInv
<1>0. \A b \in Assets : asset[b].tags \subseteq Existing /\ WithinAsset(asset[b].tags)
  BY DEF TagsConsistent
<1>1. ASSUME NEW n \in Names, CreateTag(n) PROVE LibraryInv'
  <2>1. name' \in Namings /\ Recorded({n}, name') /\ {n} \in SUBSET Names
        /\ UNCHANGED <<asset, slugs, ended, clock, list>>
    BY <1>1 DEF CreateTag
  <2>2. /\ Existing \subseteq Existing' /\ Cardinality(Existing') <= MaxTagsPerUser
        /\ \A t, u \in Existing' : name'[t] = name'[u] => t = u
    BY <2>1, RecordedKeepsTags
  <2>3. TagsConsistent'
    BY <1>0, <2>1, <2>2 DEF TagsConsistent
  <2>4. ListInv' /\ ShareInv' /\ Typed'
    BY <2>1 DEF ListInv, Resumable, Matches, Place, Head, SortKey, ShareInv, Typed
  <2> QED BY <2>3, <2>4
<1>2. ASSUME NEW t \in Tags, NEW n \in Names, UpdateTag(t, n) PROVE LibraryInv'
  <2>1. /\ t \in Existing /\ \A u \in Existing \ {t} : name[u] # n
        /\ name' = [name EXCEPT ![t] = n] /\ UNCHANGED <<asset, slugs, ended, clock, list>>
    BY <1>2 DEF UpdateTag
  <2>2. name \in Namings /\ n \notin {None, Deleted}
    BY LibraryAssumption DEF Typed
  <2>3. name' \in Namings /\ name'[t] = n /\ \A u \in Tags : u # t => name'[u] = name[u]
    BY <2>1, <2>2 DEF Namings
  <2>4. Existing' = Existing
    BY <2>1, <2>2, <2>3 DEF Existing
  <2>5. TagsConsistent'
    <3>1. \A u, v \in Existing : name'[u] = name'[v] => u = v
      BY <2>1, <2>3 DEF TagsConsistent, Existing
    <3> QED BY <1>0, <2>1, <2>4, <3>1 DEF TagsConsistent
  <2>6. ListInv' /\ ShareInv' /\ Typed'
    BY <2>1, <2>3 DEF ListInv, Resumable, Matches, Place, Head, SortKey, ShareInv, Typed
  <2> QED BY <2>5, <2>6
<1>3. ASSUME NEW t \in Tags, DeleteTag(t) PROVE LibraryInv'
  <2>1. /\ name' = [name EXCEPT ![t] = Deleted] /\ Watched /\ UNCHANGED <<slugs, ended, clock>>
        /\ asset' = [a \in Assets |-> [asset[a] EXCEPT !.tags = @ \ {t}]]
    BY <1>3 DEF DeleteTag
  <2>2. name \in Namings /\ asset \in [Assets -> Row]
    BY DEF Typed
  <2>3. name' \in Namings /\ name'[t] = Deleted /\ \A u \in Tags : u # t => name'[u] = name[u]
    BY <2>1, <2>2 DEF Namings
  <2>4. Existing' = Existing \ {t}
    BY <2>3 DEF Existing
  <2>5. ASSUME NEW a \in Assets
        PROVE  /\ asset'[a] \in Row /\ asset'[a].slug = asset[a].slug /\ asset'[a].state = asset[a].state
               /\ asset'[a].tags = asset[a].tags \ {t}
    BY <2>1, <2>2 DEF Row
  <2>6. asset' \in [Assets -> Row]
    BY <2>1, <2>5
  <2>7. ListInv'
    BY <2>1, <2>2, <2>5, WatchedKeeps
  <2>8. ShareInv'
    BY <2>1, <2>5 DEF ShareInv
  <2>9. ASSUME NEW a \in Assets PROVE WithinAsset(asset[a].tags \ {t})
    <3>1. IsFiniteSet(asset[a].tags)
      <4>1. asset[a].tags \in SUBSET Tags
        BY <2>2 DEF Row
      <4> QED BY <4>1, LibraryAssumption, FS_Subset
    <3>2. /\ Cardinality(asset[a].tags \ {t}) <= Cardinality(asset[a].tags)
          /\ IsFiniteSet(asset[a].tags \ {t})
      BY <3>1, FS_Subset
    <3>3. Cardinality(asset[a].tags \ {t}) \in Nat /\ Cardinality(asset[a].tags) \in Nat
      BY <3>1, <3>2, FS_CardinalityType
    <3> QED BY <1>0, <3>2, <3>3, LibraryAssumption DEF WithinAsset
  <2>10. Cardinality(Existing \ {t}) <= MaxTagsPerUser
    <3>1. IsFiniteSet(Existing)
      <4>1. Existing \in SUBSET Tags
        BY DEF Existing
      <4> QED BY <4>1, LibraryAssumption, FS_Subset
    <3>2. Cardinality(Existing \ {t}) <= Cardinality(Existing) /\ IsFiniteSet(Existing \ {t})
      BY <3>1, FS_Subset
    <3>3. Cardinality(Existing \ {t}) \in Nat /\ Cardinality(Existing) \in Nat
      BY <3>1, <3>2, FS_CardinalityType
    <3> QED BY <3>2, <3>3, LibraryAssumption DEF TagsConsistent
  <2>11. TagsConsistent'
    <3>1. \A u, v \in Existing \ {t} : name'[u] = name'[v] => u = v
      BY <2>3 DEF TagsConsistent, Existing
    <3>2. \A a \in Assets : asset'[a].tags \subseteq Existing \ {t} /\ WithinAsset(asset'[a].tags)
      BY <1>0, <2>5, <2>9
    <3> QED BY <2>4, <2>10, <3>1, <3>2 DEF TagsConsistent, WithinAsset
  <2> QED BY <2>1, <2>3, <2>6, <2>7, <2>8, <2>11 DEF Typed
<1> QED BY <1>1, <1>2, <1>3

LEMMA NoListIsAListing ==
    /\ NoList \in Listing /\ NoList.seen = {} /\ NoList.twice = {} /\ NoList.moved = {}
    /\ NoList.steady = {} /\ NoList.after.id = 0
<1>1. NoCursor \in Places /\ NoCursor.id = 0
  BY DEF NoCursor, Places
<1>2. [by |-> "created", pivot |-> 0, descending |-> FALSE, filter |-> "none"] \in Orders
  BY DEF Orders
<1> HIDE DEF NoCursor, Orders
<1> QED BY <1>1, <1>2 DEF NoList, Listing

LEMMA ListStepKeeps ==
    ASSUME LibraryInv, ListStep
    PROVE  LibraryInv'
<1> USE DEF LibraryInv
<1>0. asset \in [Assets -> Row] /\ UNCHANGED <<asset, name, slugs, ended, clock>> /\ clock \in Nat
  <2>1. UNCHANGED <<asset, name, slugs, ended, clock>>
    BY DEF ListStep, NextPage, FirstPage
  <2> QED BY <2>1, LibraryAssumption DEF Typed
<1>1. CASE NextPage
  <2>1. list \in Listing /\ list.pc = "more" /\ ShowPage(list)
    BY <1>1 DEF NextPage, ListInv
  <2> QED BY <1>0, <2>1, ShowPageKeeps DEF ListInv, ShareInv, TagsConsistent, Typed, Existing, WithinAsset
<1>2. ASSUME NEW on \in Bindings, FirstPage(on) PROVE LibraryInv'
  <2> DEFINE k == [NoList EXCEPT !.on = on, !.snapshot = clock]
             l == [k EXCEPT !.steady = {a \in Assets : Matches(asset, k, a)}]
  <2>1. ShowPage(l)
    BY <1>2 DEF FirstPage
  <2>2. on \in Orders
    BY LibraryAssumption DEF Bindings, Orders
  <2>3. NoList \in Listing /\ NoList.seen = {} /\ NoList.twice = {} /\ NoList.moved = {}
        /\ NoList.steady = {} /\ NoList.after.id = 0
    BY NoListIsAListing
  <2>4. /\ k \in Listing /\ k.on = on /\ k.snapshot = clock /\ k.after = NoList.after
        /\ k.seen = {} /\ k.twice = {} /\ k.moved = {}
    BY <1>0, <2>2, <2>3 DEF Listing
  <2> HIDE DEF k
  <2>5. {a \in Assets : Matches(asset, k, a)} \subseteq Assets
    OBVIOUS
  <2>6. /\ l \in Listing /\ l.on = k.on /\ l.snapshot = k.snapshot /\ l.after = k.after
        /\ l.seen = {} /\ l.twice = {} /\ l.moved = {}
        /\ l.steady = {a \in Assets : Matches(asset, k, a)}
    BY <2>4, <2>5 DEF Listing
  <2>7. l.after.id = 0 /\ \A a \in l.steady : Matches(asset, l, a)
    BY <2>3, <2>4, <2>6 DEF Matches
  <2> HIDE DEF l
  <2>8. ListInv'
    BY <1>0, <2>1, <2>6, <2>7, ShowPageKeeps
  <2> QED BY <1>0, <2>8 DEF ShareInv, TagsConsistent, Typed, Existing, WithinAsset
<1> QED BY <1>1, <1>2 DEF ListStep

LEMMA LibraryInvInitially == Init => LibraryInv
<1> SUFFICES ASSUME Init PROVE LibraryInv
  OBVIOUS
<1>1. Typed
  BY RowFacts, LibraryAssumption DEF Init, Typed, Namings
<1>2. NoList.pc = "none"
  BY DEF NoList
<1>3. ListInv
  BY <1>2, NoListIsAListing DEF Init, ListInv
<1>4. ShareInv
  BY RowFacts DEF Init, ShareInv
<1>5. TagsConsistent
  <2>1. Existing = {}
    BY DEF Init, Existing
  <2>2. Cardinality({}) = 0
    BY FS_EmptySet, Zenon
  <2>3. \A a \in Assets : asset[a].tags = {}
    BY RowFacts DEF Init
  <2> QED BY <2>1, <2>2, <2>3, LibraryAssumption DEF TagsConsistent, WithinAsset
<1> QED BY <1>1, <1>3, <1>4, <1>5 DEF LibraryInv

LEMMA LibraryInvPreserved == LibraryInv /\ [Next]_vars => LibraryInv'
<1> SUFFICES ASSUME LibraryInv, [Next]_vars PROVE LibraryInv'
  OBVIOUS
<1>1. CASE AssetStep
  <2>1. PICK a \in Assets :
          \/ Delete(a) \/ Restore(a) \/ Purge(a) \/ Index(a)
          \/ \E k \in Keys : Save(a, k, {})
          \/ \E favorite \in BOOLEAN : Update(a, favorite, FALSE, {})
    BY <1>1 DEF AssetStep
  <2>2. ChangesRow(a)
    <3>1. {} \in SUBSET Names
      OBVIOUS
    <3> QED BY <2>1, <3>1, PlainChanges, TaggingChanges DEF LibraryInv
  <2> QED BY <2>2, RowChangeKeeps
<1>2. CASE ShareStep
  BY <1>2, PlainChanges, RowChangeKeeps DEF ShareStep, LibraryInv
<1>3. CASE TagStep
  <2>1. ASSUME NEW a \in Assets, NEW names \in SUBSET Names,
               \/ \E k \in Keys : Save(a, k, names)
               \/ Update(a, asset[a].favorite, TRUE, names)
               \/ \E ids \in SUBSET Tags : AddTags(a, ids, names)
        PROVE LibraryInv'
    <3>1. asset[a].favorite \in BOOLEAN
      BY DEF LibraryInv, Typed, Row
    <3> QED BY <2>1, <3>1, TaggingChanges, RowChangeKeeps DEF LibraryInv
  <2>2. ASSUME NEW a \in Assets, NEW ids \in SUBSET Tags, RemoveTags(a, ids) PROVE LibraryInv'
    BY <2>2, PlainChanges, RowChangeKeeps DEF LibraryInv
  <2> QED BY <1>3, <2>1, <2>2, TagChangeKeeps DEF TagStep
<1>4. CASE ListStep
  BY <1>4, ListStepKeeps
<1>5. CASE Tick
  <2>1. /\ clock' \in 1..MaxClock /\ UNCHANGED <<asset, name, slugs, ended, list>>
    BY <1>5, LibraryAssumption DEF Tick, LibraryInv, Typed
  <2> QED BY <2>1 DEF LibraryInv, ListInv, Resumable, Matches, Place, Head, SortKey, ShareInv, Typed,
     TagsConsistent, Existing, WithinAsset
<1>6. CASE UNCHANGED vars
  BY <1>6 DEF vars, LibraryInv, ListInv, Resumable, Matches, Place, Head, SortKey, ShareInv, Typed,
     TagsConsistent, Existing, WithinAsset
<1> QED BY <1>1, <1>2, <1>3, <1>4, <1>5, <1>6 DEF Next

(* The inductive invariant of the library and its listings.                *)
THEOREM LibraryInvariant == Spec => []LibraryInv
  BY LibraryInvInitially, LibraryInvPreserved, PTL DEF Spec

(* The variables keep their types in every behaviour. *)
THEOREM TypeCorrect == Spec => []TypeOK
<1>1. LibraryInv => TypeOK
  BY DEF LibraryInv, Typed, ListInv, Listing, TypeOK
<1> QED BY <1>1, LibraryInvariant, PTL

(* A listing followed to its end shows every asset that stayed and kept its *)
(* place, and shows none twice that kept its place, for any order, filter,  *)
(* page size and library, whatever changes between two pages.              *)
THEOREM ListingsAreFaithful == Spec => []PagesFaithful
<1>1. LibraryInv => PagesFaithful
  BY DEF LibraryInv, ListInv, PagesFaithful
<1> QED BY <1>1, LibraryInvariant, PTL

(* An ended link never opens anything again.                               *)
THEOREM LinksStayEnded == Spec => []EndedSharesStayEnded
<1>1. LibraryInv => EndedSharesStayEnded
  BY DEF LibraryInv, ShareInv, EndedSharesStayEnded
<1> QED BY <1>1, LibraryInvariant, PTL

(* Names are unique, an asset carries existing tags only, and no order of  *)
(* requests gets past the limits, for any limits.                          *)
THEOREM TagsStayConsistent == Spec => []TagsConsistent
  BY LibraryInvariant, PTL DEF LibraryInv
=============================================================================
