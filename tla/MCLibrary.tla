------------------------------ MODULE MCLibrary ------------------------------
(* Instances of the library for TLC. An execution is about one listing,     *)
(* about tags, or about shares; which one is chosen at its start, and what  *)
(* has no effect on it is left alone: favorites where the filter does not   *)
(* look at them, keys where the order does not, tags where nothing shows    *)
(* them.                                                                    *)
EXTENDS Library

CONSTANTS
    EditAssets,   \* how many assets the executions without pages have
    MaxNames      \* how many names one request brings

VARIABLE about

Seqs == INSTANCE SequencesExt

mcVars == <<vars, about>>

TagEdits == [NoList.on EXCEPT !.by = "tags"]
ShareEdits == [NoList.on EXCEPT !.by = "shares"]

(* Every order, and every filter under one order. *)
Listings == {on \in Bindings :
                \/ on.filter = "none"
                \/ on.filter \in {"favorite", "trash"} /\ on.by = "key" /\ ~ on.descending}

MCInit == Init /\ about \in Listings \cup {TagEdits, ShareEdits}

Matter(a, k, favorite) ==
    /\ about.by \in {"created", "updated"} => k = 1
    /\ about.filter # "favorite" => ~ favorite

(* Such an execution ends with the last page, after which nothing changes   *)
(* what the listing has shown.                                              *)
PagesStep ==
    /\ list.pc # "done"
    /\ \/ \E a \in Assets :
             \/ Delete(a) \/ Restore(a) \/ Purge(a)
             \/ about.by = "search" /\ Index(a)
             \/ UNCHANGED name /\ \E k \in Keys : Matter(a, k, FALSE) /\ Save(a, k, {})
             \/ \E favorite \in BOOLEAN :
                   Matter(a, 1, favorite) /\ Update(a, favorite, FALSE, {})
       \/ about.by # "search" /\ Tick
       \/ FirstPage(about) \/ NextPage

(* Identifiers of tags are drawn in one order: which one a tag gets makes   *)
(* no difference to anything.                                               *)
Order == CHOOSE f \in [Tags -> 1..Cardinality(Tags)] :
             \A t, u \in Tags : f[t] = f[u] => t = u

Drawn(names) ==
    LET used == Cardinality({t \in Tags : name[t] # None})
    IN  {[t \in Tags |-> IF Order[t] - used \in DOMAIN f THEN f[Order[t] - used] ELSE name[t]] :
            f \in Seqs!SetToAllKPermutations(names)}

Edited == {a \in Assets : a <= EditAssets}

(* Several names and an identifier, known or not, in one request. *)
TagsStep ==
    \/ \E a \in Edited :
           \/ Delete(a) \/ Restore(a) \/ Purge(a)
           \/ \E names \in SUBSET Names :
                 /\ Cardinality(names) <= MaxNames
                 /\ name' \in Drawn(names)
                 /\ \/ Save(a, 1, names) \/ Update(a, FALSE, TRUE, names)
                    \/ \E t \in Tags : AddTags(a, {t}, names)
           \/ \E t \in Tags : RemoveTags(a, {t})
    \/ \E t \in Tags : DeleteTag(t) \/ \E n \in Names : UpdateTag(t, n)
    \/ \E n \in Names : name' \in Drawn({n}) /\ CreateTag(n)

SharesStep ==
    /\ ShareStep \/ AssetStep
    /\ \A a \in Assets \ Edited : asset'[a].state = "absent"

MCNext ==
    /\ CASE about = TagEdits   -> TagsStep
         [] about = ShareEdits -> SharesStep
         [] OTHER              -> PagesStep
    /\ UNCHANGED about

MCSpec == MCInit /\ [][MCNext]_mcVars
=============================================================================
