--------------------------- MODULE CollectionView ---------------------------
(***************************************************************************)
(* Browsing the collection: collection-browser.jsx and                     *)
(* cat-detail-browser.jsx over the documents the site was built with.  All *)
(* state of a visit is in the address: the parameters of the view, and the *)
(* cat that is open with the view it was opened from.                      *)
(***************************************************************************)
EXTENDS Integers, Sequences, SequencesExt, FiniteSets

CONSTANTS
    PageSize,         \* 30
    Groups,           \* COLORWAY_GROUPS: category -> its palettes
    None,             \* a parameter that is absent
    List,             \* the visitor is on the list of cats
    Landings,         \* parameters of links from outside, legacy ones included
    TokenInputs,      \* numbers typed into the token search, 0 for what is no token id
    MaxActive         \* bound on filters set together

NoValues == {None, "any_collar"}

ASSUME ViewAssumption ==
    /\ PageSize \in Nat \ {0}
    /\ None \notin Nat
    /\ None \notin {"none", "any_collar", "checkered_collar", "classic_red_collar", "with_collar", "without_collar"}
    /\ \A g \in DOMAIN Groups : {g} \cap NoValues = {} /\ Groups[g] \cap NoValues = {}
    /\ \A p \in Landings : p.page \in Nat \cup {None}

VARIABLES
    site,     \* the documents: collection, filters and index; None before there is a site
    params,   \* the parameters of the view
    place     \* List, or the cat that is open

viewVars == <<site, params, place>>

FILTER_KEYS == {"pattern", "category", "palette_id", "collar", "rarity_tier", "rarity_type"}
ParamNames  == FILTER_KEYS \cup {"collar_type", "sort", "token_id", "page"}
NoParams    == [name \in ParamNames |-> None]

(* buildSearchHref: the given parameters with some replaced or removed. *)
Href(p, overrides) == [name \in ParamNames |-> IF name \in DOMAIN overrides THEN overrides[name] ELSE p[name]]

---------------------------------------------------------------------------
(* The cats of a document: the traits of each by its token id.  No two have the same one:
   generate_viewer_data.mjs refuses a manifest whose items are not numbered in order. *)
Cats(doc) == [id \in {doc[i].token_id : i \in 1..Len(doc)} |->
                 doc[CHOOSE i \in 1..Len(doc) : doc[i].token_id = id].trait_values]

---------------------------------------------------------------------------
(* Filters *)

Collar(p) == LET raw == IF p.collar = None THEN p.collar_type ELSE p.collar
             IN  CASE raw = "with_collar"    -> "any_collar"
                   [] raw = "without_collar" -> "none"
                   [] OTHER                  -> raw

Active(p) == [key \in FILTER_KEYS |-> IF key = "collar" THEN Collar(p) ELSE p[key]]

Passes(traits, key, value) ==
    \/ value = None
    \/ key = "collar" /\ value = "any_collar" /\ traits.collar # "none"
    \/ value # "any_collar" /\ traits[key] = value

Filtered(cats, p, excluded) ==
    {id \in DOMAIN cats : \A key \in FILTER_KEYS \ excluded : Passes(cats[id], key, Active(p)[key])}

ExactToken(p) == IF p.token_id = None \/ p.token_id = 0 THEN None ELSE p.token_id

Results(cats, p) == {id \in Filtered(cats, p, {}) : ExactToken(p) \in {None, id}}

TierRank(traits) == CASE traits.rarity_tier = "superrare" -> 0
                      [] traits.rarity_tier = "rare"      -> 1
                      [] traits.rarity_tier = "common"    -> 2
                      [] OTHER                            -> 9

Before(cats, sort, a, b) ==
    IF sort = "rarity" /\ TierRank(cats[a]) # TierRank(cats[b]) THEN TierRank(cats[a]) < TierRank(cats[b])
    ELSE a < b

(* Each cat goes where as many are before it as the order puts before it. *)
Place(cats, ids, sort, id) == Cardinality({other \in ids : Before(cats, sort, other, id)}) + 1
Sorted(cats, ids, sort) ==
    [i \in 1..Cardinality(ids) |-> CHOOSE id \in ids : Place(cats, ids, sort, id) = i]

---------------------------------------------------------------------------
(* Pages *)

TotalPages(n) == IF n = 0 THEN 1 ELSE (n + PageSize - 1) \div PageSize

(* Mutant of PageShown: a page past the last one is not brought back. *)
PageAsked(p, n) == IF p.page = None \/ p.page = 0 THEN 1 ELSE p.page

PageShown(p, n) == LET asked == IF p.page = None \/ p.page = 0 THEN 1 ELSE p.page
                   IN  IF asked <= TotalPages(n) THEN asked ELSE TotalPages(n)

PageItems(items, page) ==
    LET last == page * PageSize
    IN  SubSeq(items, last - PageSize + 1, IF last <= Len(items) THEN last ELSE Len(items))

(* Mutant of Anchors: the pages beside the one shown are left to the ellipsis. *)
EdgesAndPage(page, total, density) == {n \in {1, page, total} : n \in 1..total}

Anchors(page, total, density) ==
    {n \in IF density = "desktop" THEN {1, 2, total - 1, total} \cup (page - 2)..(page + 2)
                                  ELSE {1, total} \cup (page - 1)..(page + 1) : n \in 1..total}

Ellipsis == 0

(* Each number goes where as many are before it as are lower. *)
Ascending(numbers) ==
    [i \in 1..Cardinality(numbers) |-> CHOOSE n \in numbers : Cardinality({m \in numbers : m < n}) = i - 1]

(* buildPaginationEntries: the anchors in order, an ellipsis wherever pages are left out. *)
PaginationEntries(page, total, density) ==
    LET pages == Ascending(Anchors(page, total, density))
    IN  FlattenSeq([i \in 1..Len(pages) |-> IF i > 1 /\ pages[i] - pages[i - 1] > 1
                                            THEN <<Ellipsis, pages[i]>> ELSE <<pages[i]>>])

---------------------------------------------------------------------------
(* Chips: what they say and where they lead. *)

(* Mutant of FacetCount: the facet's own filter is left in. *)
NarrowCount(p, key, value) ==
    LET cats == Cats(site.collection)
    IN  Cardinality({id \in Filtered(cats, p, {}) : cats[id][key] = value})

FacetCount(p, key, value) ==
    LET cats == Cats(site.collection)
    IN  Cardinality({id \in Filtered(cats, p, {key}) : cats[id][key] = value})

Chip(key, value, isActive, count, target) ==
    [key |-> key, value |-> value, active |-> isActive, count |-> count, target |-> target]

Toggle(p, key, value) == IF Active(p)[key] = value THEN None ELSE value

PlainChips(p) ==
    UNION {{Chip(key, v, Active(p)[key] = v, FacetCount(p, key, v),
                 Href(p, [k \in {key, "page"} |-> IF k = key THEN Toggle(p, key, v) ELSE None])) :
               v \in DOMAIN site.filters[key]} : key \in {"pattern", "rarity_tier", "rarity_type"}}

CategoryChips(p) ==
    {Chip("category", g,
          p.category = g \/ (p.category = None /\ p.palette_id \in Groups[g]),
          IF g \in DOMAIN site.filters.category THEN FacetCount(p, "category", g) ELSE 0,
          Href(p, [category |-> IF p.category = g /\ p.palette_id = None THEN None ELSE g,
                   palette_id |-> None, page |-> None])) : g \in DOMAIN Groups}

PaletteChips(p) ==
    {Chip("palette_id", v, p.palette_id = v,
          IF v \in DOMAIN site.filters.palette_id THEN FacetCount(p, "palette_id", v) ELSE 0,
          Href(p, [category |-> None, palette_id |-> Toggle(p, "palette_id", v), page |-> None])) :
        v \in UNION {Groups[g] : g \in DOMAIN Groups}}

CollarChips(p) ==
    {Chip("collar", o, Active(p).collar = o,
          IF o = "any_collar" THEN FacetCount(p, "collar", "checkered_collar") + FacetCount(p, "collar", "classic_red_collar")
                              ELSE FacetCount(p, "collar", o),
          Href(p, [collar |-> Toggle(p, "collar", o), page |-> None])) :
        o \in {"none", "any_collar", "checkered_collar", "classic_red_collar"}}

Chips(p) == PlainChips(p) \cup CategoryChips(p) \cup PaletteChips(p) \cup CollarChips(p)

---------------------------------------------------------------------------
(* The cat that is open: its neighbours in the view it was opened from, by the index document. *)

(* Mutant of ViewOrder: the neighbours are those of the whole collection. *)
WholeOrder(p) == Sorted(Cats(site.index), DOMAIN Cats(site.index), p.sort)

ViewOrder(p) == Sorted(Cats(site.index), Filtered(Cats(site.index), p, {}), p.sort)

PositionIn(order, token) == IF \E i \in 1..Len(order) : order[i] = token
                            THEN CHOOSE i \in 1..Len(order) : order[i] = token ELSE 0

Neighbours(p, token) ==
    LET order == ViewOrder(p)  i == PositionIn(order, token)
    IN  (IF i > 1 THEN {order[i - 1]} ELSE {}) \cup
        (IF i \in 1..(Len(order) - 1) THEN {order[i + 1]} ELSE {})

---------------------------------------------------------------------------
ViewInit(docs) == /\ site = docs
                  /\ params \in Landings
                  /\ place = List

Go(p) == /\ place = List
         /\ params' = p
         /\ Cardinality({k \in FILTER_KEYS : Active(p)[k] # None}) <= MaxActive
         /\ UNCHANGED <<site, place>>

ClickChip  == \E chip \in Chips(params) : Go(chip.target)
ClickSort  == \E s \in {None, "rarity"} : Go(Href(params, [sort |-> s, page |-> None]))
SearchToken == \E input \in TokenInputs :
                  Go(Href(params, [token_id |-> IF input = 0 THEN None ELSE input, page |-> None]))
ClearTokenSearch == params.token_id # None /\ Go(Href(params, [token_id |-> None, page |-> None]))
ClearAll   == Go(NoParams)

(* The cats of the view and their order. *)
Shown    == Results(Cats(site.collection), params)
InOrder  == Sorted(Cats(site.collection), Shown, params.sort)
Pages    == TotalPages(Len(InOrder))
PageOpen == PageShown(params, Len(InOrder))

ClickPage == /\ Pages > 1
             /\ \E density \in {"desktop", "mobile"} : \E n \in Anchors(PageOpen, Pages, density) :
                   Go(Href(params, [page |-> n]))

OpenCat   == /\ place = List
             /\ place' \in ToSet(PageItems(InOrder, PageOpen))
             /\ UNCHANGED <<site, params>>

OpenNeighbour == /\ place # List
                 /\ place' \in Neighbours(params, place)
                 /\ UNCHANGED <<site, params>>

BackToView == place # List /\ place' = List /\ UNCHANGED <<site, params>>

ViewNext == \/ ClickChip \/ ClickSort \/ SearchToken \/ ClearTokenSearch \/ ClearAll
            \/ ClickPage \/ OpenCat \/ OpenNeighbour \/ BackToView

(* A visit of the site built from docs. *)
ViewSpec(docs) == ViewInit(docs) /\ [][ViewNext]_viewVars

---------------------------------------------------------------------------
(* Properties *)

(* What the documents of one site owe one another, and the view relies on: the index has the
   cats of the collection, every family and palette of a cat has its option, and a cat's
   family is that of its palette. *)
Documents(docs) ==
    LET cats == Cats(docs.collection)
    IN  /\ IsFiniteSet(DOMAIN cats) /\ DOMAIN cats \subseteq Nat
        /\ Cats(docs.index) = cats
        /\ \A key \in {"pattern", "rarity_tier", "rarity_type"} : DOMAIN docs.filters[key] \cap NoValues = {}
        /\ \A id \in DOMAIN cats :
              /\ cats[id].collar \in {"none", "checkered_collar", "classic_red_collar"}
              /\ cats[id].category \in DOMAIN Groups => cats[id].category \in DOMAIN docs.filters.category
              /\ \A g \in DOMAIN Groups : cats[id].palette_id \in Groups[g] =>
                     cats[id].category = g /\ cats[id].palette_id \in DOMAIN docs.filters.palette_id

(* A viewer run that could write all its documents has written such a site. *)
SitesAgree == site # None => Documents(site)

(* A chip keeps its word: the number it shows is the number of cats behind it.  It counts
   without the token search, and a palette's chip beside an active family it does not belong
   to (or a family's beside an active palette) counts a combination its link does not ask for. *)
ChipsCountWhatTheyOpen ==
    (site # None /\ place = List) =>
        \A chip \in Chips(params) :
            (/\ ~chip.active /\ ExactToken(params) = None
             /\ chip.key = "palette_id" =>
                   params.category = None \/ (params.category \in DOMAIN Groups /\ chip.value \in Groups[params.category])
             /\ chip.key = "category"   => params.palette_id = None) =>
            chip.count = Cardinality(Results(Cats(site.collection), chip.target))

(* Paging loses no cat, shows none twice, keeps the order and has no empty or overfull page; and
   whatever page is asked for, the page shown exists. *)
PagesPartitionTheView ==
    site # None =>
        LET Page(n) == ToSet(PageItems(InOrder, n))
        IN  /\ \A id \in Shown : \E n \in 1..Pages : id \in Page(n)
            /\ \A n \in 1..Pages : /\ Page(n) \subseteq Shown
                                   /\ Len(PageItems(InOrder, n)) <= PageSize
                                   /\ Shown # {} => Page(n) # {}
            /\ \A m, n \in 1..Pages : m < n =>
                  \A a \in Page(m), b \in Page(n) : a # b /\ Before(Cats(site.collection), params.sort, a, b)
            /\ PageOpen \in 1..Pages

(* The links of a page reach the first, the last and the neighbouring pages, in order, and an
   ellipsis stands exactly where pages are left out. *)
LinksReachEveryPage(page, total, density) ==
    LET entries == PaginationEntries(page, total, density)
    IN  /\ ToSet(entries) \ {Ellipsis} = Anchors(page, total, density)
        /\ {1, page, total} \cup ({page - 1, page + 1} \cap 1..total) \subseteq ToSet(entries)
        /\ \A i \in 1..(Len(entries) - 1) :
               IF entries[i + 1] = Ellipsis THEN entries[i + 2] > entries[i] + 1
               ELSE entries[i] = Ellipsis \/ entries[i + 1] = entries[i] + 1

(* So do the links of every view, on wide screens and narrow ones, and would if the view had up
   to MorePages pages more behind the one that is open. *)
MorePages == 8
LinksReachThePages ==
    site # None => \A density \in {"desktop", "mobile"}, total \in Pages..(Pages + MorePages) :
                       LinksReachEveryPage(PageOpen, total, density)

(* However far the visitor walks from neighbour to neighbour, the open cat stays one of the
   cats of the view it goes back to (an exact token search shows one and walks past it), and
   each of the others is still ahead or behind. *)
WalksStayInTheView ==
    (site # None /\ place # List /\ ExactToken(params) = None) =>
        LET i == PositionIn(InOrder, place)
        IN  /\ i # 0
            /\ Neighbours(params, place) = {InOrder[j] : j \in {i - 1, i + 1} \cap 1..Len(InOrder)}
=============================================================================
