------------------------------- MODULE Library -------------------------------
(* An owner's library (apps/server/internal/library) and the pages of its   *)
(* listings and searches (list.go, embedding/search.go). Every change is one *)
(* transaction; a listing is one read transaction per page, held together   *)
(* by the cursor the client brings back.                                    *)
EXTENDS Naturals, FiniteSets

CONSTANTS
    Assets, Keys,       \* sets of naturals: identifiers, and values sorted by
    Tags, Names, None,
    PageLimit, MaxTagsPerUser, MaxTagsPerAsset,
    MaxSlugs, MaxClock  \* bounds of the model

Deleted == "deleted"

ASSUME LibraryAssumption ==
    /\ Assets \subseteq Nat \ {0} /\ Keys \subseteq Nat
    /\ {PageLimit, MaxTagsPerUser, MaxTagsPerAsset, MaxSlugs} \subseteq Nat
    /\ PageLimit > 0 /\ MaxClock \in Nat \ {0}
    /\ Names \cap {None, Deleted} = {} /\ None # Deleted
    /\ IsFiniteSet(Assets) /\ IsFiniteSet(Tags) /\ IsFiniteSet(Names)

VARIABLES
    asset,   \* assets with asset_tags
    name,    \* tags: their names; None before their creation
    slugs,   \* share slugs drawn so far
    ended,   \* history: slugs whose sharing was ended
    clock,   \* the second CURRENT_TIMESTAMP tells
    list     \* a listing under way, with what its pages showed

vars == <<asset, name, slugs, ended, clock, list>>

NoRow == [state |-> "absent", created |-> 0, updated |-> 0, key |-> 0,
          favorite |-> FALSE, tags |-> {}, slug |-> 0, ready |-> FALSE]

Row == [state: {"absent", "live", "trash", "purged"}, created: 0..MaxClock,
        updated: 0..MaxClock, key: Keys \cup {0}, favorite: BOOLEAN,
        tags: SUBSET Tags, slug: 0..MaxSlugs, ready: BOOLEAN]

(***************************************************************************)
(* Listings                                                                *)
(***************************************************************************)
(* What a cursor is bound to: the order, the filter, and for a shuffle the  *)
(* key the ring is entered at. A search ranks by distance, the key here,    *)
(* shows indexed assets only and has no snapshot.                           *)
Bindings ==
    [by: {"created", "updated", "key", "shuffle", "search"}, pivot: Keys,
     descending: BOOLEAN, filter: {"none", "favorite", "trash"} \cup Tags]

Matches(rows, l, a) ==
    LET r == rows[a] IN
    /\ r.state = IF l.on.filter = "trash" THEN "trash" ELSE "live"
    /\ l.on.filter = "favorite" => r.favorite
    /\ l.on.filter \in Tags => l.on.filter \in r.tags
    /\ IF l.on.by = "search" THEN r.ready ELSE r.created <= l.snapshot

SortKey(r, on) ==
    CASE on.by = "created" -> r.created
      [] on.by = "updated" -> r.updated
      [] OTHER -> r.key

(* The tail of the ring, from the pivot on, comes before its head. *)
Head(r, on) == on.by = "shuffle" /\ r.key < on.pivot

Place(rows, on, a) == [head |-> Head(rows[a], on), key |-> SortKey(rows[a], on), id |-> a]

(* Keys may be equal; the identifier decides. *)
Before(on, p, q) ==
    LET Less(m, n) == IF on.descending THEN m > n ELSE m < n IN
    \/ ~ p.head /\ q.head
    \/ p.head = q.head /\ Less(p.key, q.key)
    \/ p.head = q.head /\ p.key = q.key /\ Less(p.id, q.id)

(* Mutant: the cursor holds the key and not the identifier. *)
Eligible_KeyOnly(l) ==
    {a \in Assets : Matches(asset, l, a)
        /\ (l.after.id # 0 =>
               Before(l.on, l.after, [Place(asset, l.on, a) EXCEPT !.id = l.after.id]))}

(* The rows a page may show: those after the cursor. *)
Eligible(l) ==
    {a \in Assets : Matches(asset, l, a)
        /\ (l.after.id # 0 => Before(l.on, l.after, Place(asset, l.on, a)))}

PageOf(l) ==
    {a \in Eligible(l) :
        Cardinality({b \in Eligible(l) :
            Before(l.on, Place(asset, l.on, b), Place(asset, l.on, a))}) < PageLimit}

NoCursor == [head |-> FALSE, key |-> 0, id |-> 0]

NoList == [on |-> [by |-> "created", pivot |-> 0, descending |-> FALSE, filter |-> "none"],
           snapshot |-> 0, after |-> NoCursor, pc |-> "none",
           seen |-> {}, twice |-> {}, steady |-> {}, moved |-> {}]

ShowPage(l) ==
    LET page == PageOf(l)
        last == CHOOSE a \in page :
                    \A b \in page \ {a} : Before(l.on, Place(asset, l.on, b), Place(asset, l.on, a))
        more == page # Eligible(l)
    IN  list' = [l EXCEPT !.pc = IF more THEN "more" ELSE "done",
                          !.after = IF more THEN Place(asset, l.on, last) ELSE @,
                          !.seen = @ \cup page,
                          !.twice = @ \cup (l.seen \cap page)]

FirstPage(on) ==
    /\ list.pc = "none"
    /\ on.by = "shuffle" => ~ on.descending
    /\ on.by # "shuffle" => \A k \in Keys : on.pivot <= k
    /\ on.by = "search" => ~ on.descending /\ on.filter # "trash"
    /\ LET l == [NoList EXCEPT !.on = on, !.snapshot = clock]
       IN  ShowPage([l EXCEPT !.steady = {a \in Assets : Matches(asset, l, a)}])
    /\ UNCHANGED <<asset, name, slugs, ended, clock>>

NextPage ==
    /\ list.pc = "more"
    /\ ShowPage(list)
    /\ UNCHANGED <<asset, name, slugs, ended, clock>>

(* History of a listing: what matched all the time and kept its place. *)
Watched ==
    LET moved == {a \in Assets : Place(asset', list.on, a) # Place(asset, list.on, a)
                                   /\ asset[a].state # "absent"}
    IN  list' = IF list.pc # "more" THEN list ELSE
                [list EXCEPT !.moved = @ \cup moved,
                             !.steady = {a \in @ \ moved : Matches(asset', list, a)}]

(***************************************************************************)
(* Tags                                                                    *)
(***************************************************************************)
Existing == {t \in Tags : name[t] \notin {None, Deleted}}
Named(names, naming) == {t \in Tags : naming[t] \in names}

(* Mutant: a tag is made as long as the limit is not exceeded already. *)
Recorded_OneMore(names, naming) ==
    LET fresh == {n \in names : \A t \in Tags : name[t] # n}
        made  == {t \in Tags : naming[t] # name[t]}
    IN  /\ \A t \in made : name[t] = None /\ naming[t] \in fresh
        /\ \A n \in fresh : \E t \in made : naming[t] = n
        /\ \A t, u \in made : naming[t] = naming[u] => t = u
        /\ fresh # {} => Cardinality(Existing) <= MaxTagsPerUser

(* A name that is not in use becomes a new tag; the owner's limit holds for *)
(* all of the request or the request fails as a whole.                      *)
Recorded(names, naming) ==
    LET fresh == {n \in names : \A t \in Tags : name[t] # n}
        made  == {t \in Tags : naming[t] # name[t]}
    IN  /\ \A t \in made : name[t] = None /\ naming[t] \in fresh
        /\ \A n \in fresh : \E t \in made : naming[t] = n
        /\ \A t, u \in made : naming[t] = naming[u] => t = u
        /\ fresh # {} => Cardinality(Existing) + Cardinality(fresh) <= MaxTagsPerUser

Namings == [Tags -> Names \cup {None, Deleted}]

CreateTag(n) ==
    /\ \A t \in Existing : name[t] # n
    /\ name' \in Namings /\ Recorded({n}, name')
    /\ UNCHANGED <<asset, slugs, ended, clock, list>>

UpdateTag(t, n) ==
    /\ t \in Existing
    /\ \A u \in Existing \ {t} : name[u] # n
    /\ name' = [name EXCEPT ![t] = n]
    /\ UNCHANGED <<asset, slugs, ended, clock, list>>

(* Its associations go with it. *)
DeleteTag(t) ==
    /\ t \in Existing
    /\ name' = [name EXCEPT ![t] = Deleted]
    /\ asset' = [a \in Assets |-> [asset[a] EXCEPT !.tags = @ \ {t}]]
    /\ Watched
    /\ UNCHANGED <<slugs, ended, clock>>

(***************************************************************************)
(* Assets                                                                  *)
(***************************************************************************)
Change(a, r) ==
    /\ asset' = [asset EXCEPT ![a] = r]
    /\ Watched

WithinAsset(tags) == Cardinality(tags) <= MaxTagsPerAsset

(* The save boundary's last transaction, with the tags it was sent. *)
Save(a, k, names) ==
    /\ asset[a].state = "absent"
    /\ name' \in Namings /\ Recorded(names, name')
    /\ WithinAsset(Named(names, name'))
    /\ Change(a, [NoRow EXCEPT !.state = "live", !.created = clock, !.updated = clock,
                               !.key = k, !.tags = Named(names, name')])
    /\ UNCHANGED <<slugs, ended, clock>>

Index(a) ==
    /\ asset[a].state = "live" /\ ~ asset[a].ready
    /\ Change(a, [asset[a] EXCEPT !.ready = TRUE])
    /\ UNCHANGED <<name, slugs, ended, clock>>

(* Favorite and names in one transaction; names replace what was there. *)
Update(a, favorite, replace, names) ==
    /\ asset[a].state = "live"
    /\ IF replace
       THEN name' \in Namings /\ Recorded(names, name') /\ WithinAsset(Named(names, name'))
       ELSE UNCHANGED name
    /\ Change(a, [asset[a] EXCEPT !.favorite = favorite, !.updated = clock,
                                  !.tags = IF replace THEN Named(names, name') ELSE @])
    /\ UNCHANGED <<slugs, ended, clock>>

(* Unknown identifiers are ignored. *)
AddTags(a, ids, names) ==
    /\ asset[a].state = "live"
    /\ name' \in Namings /\ Recorded(names, name')
    /\ LET tags == asset[a].tags \cup (ids \cap Existing) \cup Named(names, name')
       IN  /\ tags = asset[a].tags \/ WithinAsset(tags)
           /\ Change(a, [asset[a] EXCEPT !.tags = tags])
    /\ UNCHANGED <<slugs, ended, clock>>

RemoveTags(a, ids) ==
    /\ asset[a].state = "live"
    /\ Change(a, [asset[a] EXCEPT !.tags = @ \ ids])
    /\ UNCHANGED <<name, slugs, ended, clock>>

InLibrary(a) == asset[a].state \in {"live", "trash"}

EndShare(a) == ended' = ended \cup ({asset[a].slug} \ {0})

(* Mutant: the link outlives the sharing. *)
Unshared_Kept(r) == r

Unshared(r) == [r EXCEPT !.slug = 0]

Delete(a) ==
    /\ InLibrary(a)
    /\ EndShare(a)
    /\ Change(a, Unshared([asset[a] EXCEPT !.state = "trash", !.updated = clock]))
    /\ UNCHANGED <<name, slugs, clock>>

Restore(a) ==
    /\ InLibrary(a)
    /\ LET r == [asset[a] EXCEPT !.state = "live", !.updated = clock]
       IN  Change(a, IF asset[a].state = "trash" THEN Unshared(r) ELSE r)
    /\ UNCHANGED <<name, slugs, ended, clock>>

(* A share that exists is answered as it is. *)
Share(a) ==
    /\ asset[a].state = "live" /\ asset[a].slug = 0 /\ slugs < MaxSlugs
    /\ slugs' = slugs + 1
    /\ Change(a, [asset[a] EXCEPT !.slug = slugs + 1, !.updated = clock])
    /\ UNCHANGED <<name, ended, clock>>

RevokeShare(a) ==
    /\ InLibrary(a)
    /\ EndShare(a)
    /\ Change(a, Unshared([asset[a] EXCEPT !.updated = clock]))
    /\ UNCHANGED <<name, slugs, clock>>

(* The save boundary's permanent deletion removes the row. *)
Purge(a) ==
    /\ asset[a].state = "trash"
    /\ Change(a, [NoRow EXCEPT !.state = "purged"])
    /\ UNCHANGED <<name, slugs, ended, clock>>

Tick ==
    /\ clock < MaxClock
    /\ clock' = clock + 1
    /\ UNCHANGED <<asset, name, slugs, ended, list>>

(***************************************************************************)
(* The specification                                                       *)
(***************************************************************************)
Init ==
    /\ asset = [a \in Assets |-> NoRow]
    /\ name = [t \in Tags |-> None]
    /\ slugs = 0 /\ ended = {} /\ clock = 1
    /\ list = NoList

AssetStep ==
    \E a \in Assets :
        \/ Delete(a) \/ Restore(a) \/ Purge(a) \/ Index(a)
        \/ \E k \in Keys : Save(a, k, {})
        \/ \E favorite \in BOOLEAN : Update(a, favorite, FALSE, {})

TagStep ==
    \/ \E a \in Assets, names \in SUBSET Names :
           \/ \E k \in Keys : Save(a, k, names)
           \/ Update(a, asset[a].favorite, TRUE, names)
           \/ \E ids \in SUBSET Tags : AddTags(a, ids, names)
    \/ \E a \in Assets, ids \in SUBSET Tags : RemoveTags(a, ids)
    \/ \E t \in Tags : DeleteTag(t) \/ \E n \in Names : UpdateTag(t, n)
    \/ \E n \in Names : CreateTag(n)

ShareStep == \E a \in Assets : Share(a) \/ RevokeShare(a)

ListStep == NextPage \/ \E on \in Bindings : FirstPage(on)

Next == AssetStep \/ TagStep \/ ShareStep \/ ListStep \/ Tick

Spec == Init /\ [][Next]_vars

(***************************************************************************)
(* Properties                                                              *)
(***************************************************************************)
TypeOK ==
    /\ asset \in [Assets -> Row] /\ name \in Namings
    /\ slugs \in 0..MaxSlugs /\ ended \subseteq 1..MaxSlugs /\ clock \in 1..MaxClock
    /\ list.pc \in {"none", "more", "done"}
    /\ list.seen \cup list.twice \cup list.steady \cup list.moved \subseteq Assets

(* The pages of a listing that was followed to its end show every asset     *)
(* that belonged to it all the time and kept its place, whatever was saved, *)
(* indexed, trashed, restored or purged between two pages; and none twice,  *)
(* unless its own place moved (only the order by last change can move it).  *)
PagesFaithful ==
    /\ list.pc = "done" => list.steady \subseteq list.seen
    /\ list.twice \subseteq list.moved

(* A link that was revoked, or whose asset was trashed, never opens         *)
(* anything again, not even after the asset is restored and shared anew.    *)
EndedSharesStayEnded ==
    \A a \in Assets : asset[a].slug # 0 =>
        asset[a].state = "live" /\ asset[a].slug \notin ended

(* Tags created by saving, by editing an asset or by themselves, renamed    *)
(* and deleted in any order: names stay unique, an asset carries only tags  *)
(* that exist, and no order of requests gets past a limit that each checks. *)
TagsConsistent ==
    /\ Cardinality(Existing) <= MaxTagsPerUser
    /\ \A t, u \in Existing : name[t] = name[u] => t = u
    /\ \A a \in Assets : asset[a].tags \subseteq Existing /\ WithinAsset(asset[a].tags)
=============================================================================
