------------------------------ MODULE Catalogue ------------------------------
(***************************************************************************)
(* From the release to the browse site: a viewer run that wrote all its    *)
(* documents is published, and the site is visited while nothing else of   *)
(* the repository changes.                                                 *)
(***************************************************************************)
EXTENDS CollectionRelease, CollectionView

(* Two items of one family and palette. *)
Kin(a, b) == a.category = b.category /\ a.palette_id = b.palette_id

(* An item the browse site has a family or a palette chip for. *)
Grouped(item) == \E g \in DOMAIN Groups : item.category = g \/ item.palette_id \in Groups[g]

(* What COLORWAY_GROUPS and the manifest's items owe one another: a palette of a family belongs
   to items of that family only; no selection drops the last item of a family's palette; and no
   trait is named like an absent parameter. *)
ASSUME CatalogueAssumption ==
    /\ \A i \in 1..Len(SourceItems) : \A g \in DOMAIN Groups :
          SourceItems[i].palette_id \in Groups[g] => SourceItems[i].category = g
    /\ \A sel \in Selections : \A i \in 1..Len(SourceItems) : Grouped(SourceItems[i]) =>
          \E j \in 1..Len(SourceItems) :
              SourceItems[j].token_id \notin sel.dropped /\ Kin(SourceItems[j], SourceItems[i])
    /\ {"superrare", "beam"} \cap NoValues = {}
    /\ \A i \in 1..Len(SourceItems) :
          {SourceItems[i].pattern, SourceItems[i].rarity_tier, SourceItems[i].rarity_type} \cap NoValues = {}

CatalogueInit == Init /\ site = None /\ params = NoParams /\ place = List

(* The site is built from the documents of a viewer run that wrote them all. *)
Publish ==
    /\ site = None /\ job.script = "viewer" /\ job.step = Len(DocOrder)
    /\ ViewerWritesDoc
    /\ site' = [collection |-> viewer'.collection, filters |-> viewer'.filters, index |-> viewer'.index]
    /\ params' \in Landings /\ place' = List

CatalogueNext == \/ site = None /\ Next /\ UNCHANGED viewVars
                 \/ Publish
                 \/ site # None /\ ViewNext /\ UNCHANGED vars

CatalogueSpec == CatalogueInit /\ [][CatalogueNext]_<<vars, viewVars>>
=============================================================================
