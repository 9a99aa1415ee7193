------------------------------ MODULE Favorites ------------------------------
(* favorites.py: the shared list of the dashboard, edited by several devices from     *)
(* the revision each has last read.  The order of the list and the validation of       *)
(* labels are left out, and so is a damaged file, with which every request fails.     *)
EXTENDS Integers, FiniteSets, Functions, TLC

CONSTANTS
    Devices,
    Entries,        \* the nodes that may be saved
    Labels,
    MaxFavorites,   \* MAX_FAVORITES
    MaxRevision     \* bound of the model

ASSUME FavoritesAssumption == MaxFavorites \in Nat \ {0} /\ MaxRevision \in Nat

VARIABLES
    favorites,   \* favorites.json: revision and items
    view,        \* what each device has read last
    edited       \* history: the list the last accepted edit was made from, and its device's

favoritesVars == <<favorites, view, edited>>

Empty == [revision |-> 0, items |-> << >>]

FavoritesInit == favorites = Empty /\ view = [d \in Devices |-> Empty] /\ edited = <<Empty, Empty>>

\* GET /api/favorites.
ReadFavorites(d) ==
    /\ view' = [view EXCEPT ![d] = favorites]
    /\ UNCHANGED <<favorites, edited>>

\* save, remove and import: the items after them.
Edits(items) ==
    {(n :> l) @@ items : n \in Entries, l \in Labels}
    \cup {Restrict(items, DOMAIN items \ {n}) : n \in Entries}
    \cup {items @@ [n \in S |-> l] : S \in SUBSET Entries, l \in Labels}

\* Mutant: the revision is only compared with a later one.
UpdateUnlessNewer(d) ==
    /\ view[d].revision <= favorites.revision
    /\ favorites.revision < MaxRevision
    /\ \E items \in Edits(favorites.items) :
         /\ Cardinality(DOMAIN items) <= MaxFavorites
         /\ favorites' = [revision |-> favorites.revision + 1, items |-> items]
         /\ view' = [view EXCEPT ![d] = favorites']
    /\ edited' = <<favorites, view[d]>>

\* update: accepted from the revision on file, and answered with the new list; refused
\* otherwise, when the list would be too long, and when it cannot be written.
Update(d) ==
    /\ view[d].revision = favorites.revision
    /\ favorites.revision < MaxRevision
    /\ \E items \in Edits(favorites.items) :
         /\ Cardinality(DOMAIN items) <= MaxFavorites
         /\ favorites' = [revision |-> favorites.revision + 1, items |-> items]
         /\ view' = [view EXCEPT ![d] = favorites']
    /\ edited' = <<favorites, view[d]>>

FavoritesNext == \E d \in Devices : ReadFavorites(d) \/ Update(d)

\* An accepted edit was made by a device that had seen the whole list it changes: no
\* edit of another device is undone unseen.
NoBlindEdit == edited[1] = edited[2]
===============================================================================
