-------------------------- MODULE IngestRefinement --------------------------
(* The save boundary implements the library it promises. *)
EXTENDS Ingest

LibraryState ==
    [a \in Ids |-> IF purges[a].status # "absent" THEN "purged"
                   ELSE IF Retained(a) THEN assets[a].status ELSE "none"]
LibraryIdentity == [a \in Ids |-> <<assets[a].owner, assets[a].content>>]
LibraryReadable == {a \in Ids : Retained(a) /\ Media(a) \subseteq files}

Library == INSTANCE OwnedLibrary WITH
    Nobody <- None, state <- LibraryState, identity <- LibraryIdentity,
    readable <- LibraryReadable

(* Every step of every request, crash and restart is one of the library's  *)
(* four steps or changes nothing its users could see: no save is half       *)
(* visible, nothing but trash is ever purged, and a purge is never undone.  *)
ImplementsLibrary == Library!Spec
=============================================================================
