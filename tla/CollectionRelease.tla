-------------------------- MODULE CollectionRelease -------------------------
(***************************************************************************)
(* The scripts an operator runs, one at a time, to release the collection: *)
(*   rebuild_final1000_beam_outputs.mjs  selection -> pictures, manifest,  *)
(*                                       trait summary                     *)
(*   generate_onchain_data.py            manifest -> on-chain data         *)
(*   generate_viewer_data.mjs            manifest, summary, data -> the    *)
(*                                       documents of the browse site      *)
(* Each writes several files one after the other and may stop between two. *)
(***************************************************************************)
EXTENDS OnchainData

CONSTANTS
    SourceItems,      \* the items of final_1000_manifest_v1.json, by token id
    Selections,       \* the contents superrare_beam_selection.json may have
    BaseData,         \* masks and fixed layers the first data file was made of
    RareQuota,        \* rare items of each kind the validation expects
    BeamTotal,        \* beam items it expects: 10
    CoveredPatterns,  \* patterns that must have one superrare each: all of PATTERN_ORDER
    MaxRebuilds       \* bound on runs of the rebuild script

(* An item of a manifest, its picture's hash aside. *)
ManifestItem == [token_id : Nat, pattern : STRING, palette_id : STRING, category : STRING,
                 variant_key : STRING, collar_type : STRING, rarity_tier : STRING,
                 rarity_type : STRING, color_tuple : Seq(Nat)]

(* What final_1000_manifest_v1.json holds: items numbered apart; superrare ones only of the two
   logo types, which have no place in RARITY_TYPE_NAMES; and no more colour tuples, the empty
   one included, than a record can point to. *)
ASSUME SourcesAssumption ==
    /\ SourceItems \in Seq(ManifestItem)
    /\ \A i, j \in 1..Len(SourceItems) : SourceItems[i].token_id = SourceItems[j].token_id => i = j
    /\ \A i \in 1..Len(SourceItems) :
          SourceItems[i].rarity_tier = "superrare" => ~Known(RARITY_TYPE_NAMES, SourceItems[i].rarity_type)
    /\ Cardinality({<<>>} \cup {SourceItems[i].color_tuple : i \in 1..Len(SourceItems)}) <= TupleIndexes

(* What CoreCatsOnchainData.sol holds: a slot count and a mask for every pattern, no mask with a
   slot beyond the count, and eight layers whose palettes end inside the list of colours. *)
ASSUME BaseDataAssumption ==
    /\ BaseData.slotCounts \in [1..PatternCount -> Nat]
    /\ BaseData.masks \in [1..(PatternCount * (Area \div 2)) -> Nat]
    /\ \A n \in 0..(PatternCount - 1) : \A p \in Pixels : PixelMap(BaseData.masks, n)[p] \in 0..BaseData.slotCounts[n + 1]
    /\ BaseData.fixedPixels \in Seq(Nat) /\ Len(BaseData.fixedPixels) >= PreservedLayers * (Area \div 2)
    /\ BaseData.fixedMeta \in Seq(Nat) /\ Len(BaseData.fixedMeta) >= 3 * PreservedLayers
    /\ BaseData.fixedPalettes \in Seq(Nat) /\ Len(BaseData.fixedPalettes) >= PaletteEnd(BaseData)

VARIABLES
    selection,   \* superrare_beam_selection.json
    manifest,    \* final_1000_manifest.json: when it was created, and its items
    summary,     \* final_1000_trait_summary.json: when it was created, its counts, and the items they
                 \* are of (history: the file does not say)
    pngs,        \* art/final/final1000/png24
    data,        \* CoreCatsOnchainData.sol
    viewer,      \* web/public/viewer and manifests/viewer
    job,         \* the script that runs and what it holds
    dataSource   \* history: the items the data file was generated from

vars == <<selection, manifest, summary, pngs, data, viewer, job, dataSource>>

Idle == [script |-> "none"]

---------------------------------------------------------------------------
(* The rebuild: rare items are promoted in place, a common item's beam double goes behind the
   last item of its group, dropped items go. *)

GroupKey(item) == <<item.pattern, item.palette_id, item.variant_key>>
Sources        == ByToken(SourceItems)
SourceById(id) == CHOOSE item \in ToSet(Sources) : item.token_id = id

BeamItem(item) == [item EXCEPT !.rarity_tier = "superrare", !.rarity_type = "beam"]

RebuildRefuses(sel) ==
    \/ \E item \in ToSet(Sources) : item.rarity_type = "beam"
    \/ \E e \in sel.selected : e.group = "common" /\ e.duplicate
                               /\ \A item \in ToSet(Sources) : item.token_id # e.source

Promoted(sel) == {e.source : e \in {s \in sel.selected : s.group = "rare"}}
Doubled(sel)  == {SourceById(e.source) : e \in {s \in sel.selected : s.group = "common" /\ s.duplicate}}

Piece(sel, i) ==
    LET item    == Sources[i]
        primary == IF item.token_id \in Promoted(sel) THEN BeamItem(item) ELSE item
        endsGroup == i = Len(Sources) \/ GroupKey(Sources[i + 1]) # GroupKey(item)
        doubles == {d \in Doubled(sel) : GroupKey(d) = GroupKey(item)}
    IN  IF item.token_id \in sel.dropped THEN <<>>
        ELSE IF endsGroup /\ doubles # {} THEN <<primary, BeamItem(CHOOSE d \in doubles : TRUE)>>
        ELSE <<primary>>

Rebuilt(sel) ==
    LET items == FlattenSeq([i \in 1..Len(Sources) |-> Piece(sel, i)])
    IN  [i \in 1..Len(items) |-> [items[i] EXCEPT !.token_id = i]]

Drawable(item) == /\ PatternIsDrawable(data, item)
                  /\ Known(COLLAR_TYPE_NAMES, item.collar_type)
                  /\ Known(RARITY_TIER_NAMES, item.rarity_tier)

Undrawable(items) == {i \in 1..Len(items) : ~Drawable(items[i])}

Drawn(items, upTo) == [i \in 1..upTo |-> BuildSvgFromItem(data, items[i])]

(* Fields or files written over the ones there are. *)
Overwritten(old, new) == [k \in DOMAIN old \cup DOMAIN new |-> IF k \in DOMAIN new THEN new[k] ELSE old[k]]

WithHash(items, pictures) ==
    [i \in 1..Len(items) |-> Overwritten(items[i], [final_png |-> pictures[i]])]

(* summarize: how many items have each value of each trait. *)
TraitValues(item) == [pattern |-> item.pattern, category |-> item.category, palette_id |-> item.palette_id,
                      collar |-> item.collar_type, rarity_tier |-> item.rarity_tier,
                      rarity_type |-> item.rarity_type]
TraitKeys == {"pattern", "category", "palette_id", "collar", "rarity_tier", "rarity_type"}

CountOf(traits, key, value) == Cardinality({i \in 1..Len(traits) : traits[i][key] = value})
Summarize(traits) ==
    [key \in TraitKeys |->
        [value \in {traits[i][key] : i \in 1..Len(traits)} |-> CountOf(traits, key, value)]]

TraitsOf(items) == [i \in 1..Len(items) |-> TraitValues(items[i])]

Valid(items, sel) ==
    LET traits == TraitsOf(items)
    IN  /\ DOMAIN items = 1..MaxSupply
        /\ \A i \in 1..MaxSupply : items[i].token_id = i
        /\ \A kind \in DOMAIN RareQuota : CountOf(traits, "rarity_type", kind) = RareQuota[kind]
        /\ CountOf(traits, "rarity_tier", "superrare") = Cardinality(sel.selected)
        /\ CountOf(traits, "rarity_tier", "rare") =
               FoldFunction(+, 0, RareQuota)
        /\ CountOf(traits, "rarity_type", "beam") = BeamTotal
        /\ \A p \in CoveredPatterns :
               Cardinality({i \in 1..Len(items) : items[i].rarity_tier = "superrare" /\ items[i].pattern = p}) = 1

---------------------------------------------------------------------------
(* generate_viewer_data.mjs *)

ManifestAttributes(item) == << item.pattern, item.palette_id, item.collar_type, item.rarity_tier, item.rarity_type >>

(* Mutant of Mismatches: the names of the data file are not compared with the manifest's. *)
UncomparedNames(items) ==
    {i \in 1..Len(items) : items[i].token_id # i \/ ~SlotsFit(data, DecodeTokenRecord(data.records, i))}

Mismatches(items) ==
    {i \in 1..Len(items) : \/ items[i].token_id # i
                           \/ TraitNames(DecodeTokenRecord(data.records, i)) # ManifestAttributes(items[i])
                           \/ ~SlotsFit(data, DecodeTokenRecord(data.records, i))}

CollectionItem(item) == [token_id |-> item.token_id, trait_values |-> TraitValues(item),
                         color_tuple |-> item.color_tuple]

FilterDoc(counts) ==
    [counts EXCEPT !.rarity_type = [v \in DOMAIN counts.rarity_type \ {"none"} |-> counts.rarity_type[v]]]

FirstOf(S) == CHOOSE i \in S : \A j \in S : i <= j

(* Mutant of ViewerDoc: the index numbers its cats by place, from zero. *)
IndexFromZero(items, counts, doc) ==
    CASE doc = "filters" -> FilterDoc(counts)
      [] doc = "index"   -> [i \in 1..Len(items) |-> [token_id |-> i - 1, trait_values |-> TraitValues(items[i])]]
      [] OTHER           -> [i \in 1..Len(items) |-> CollectionItem(items[i])]

ViewerDoc(items, counts, doc) ==
    CASE doc = "collection" -> [i \in 1..Len(items) |-> CollectionItem(items[i])]
      [] doc = "filters"    -> FilterDoc(counts)
      [] doc = "detail"     -> [i \in 1..Len(items) |-> CollectionItem(items[i])]
      [] doc = "index"      -> [i \in 1..Len(items) |-> [token_id |-> i, trait_values |-> TraitValues(items[i])]]

DocOrder == <<"collection", "filters", "detail", "index">>

---------------------------------------------------------------------------
(* The repository at rest after an earlier release. *)

Init ==
    \E sel \in {s \in Selections : ~RebuildRefuses(s)} :
        LET items == Rebuilt(sel)
            first == Generated(items, BaseData)
            pictures == [i \in 1..Len(items) |-> BuildSvgFromItem(first, items[i])]
            final == WithHash(items, pictures)
        IN  /\ ManifestIsPackable(items) /\ BeamFits(BaseData)
            /\ data = first
            /\ Undrawable(items) = {} /\ Valid(final, sel)
            /\ selection = sel
            /\ manifest = [created |-> 0, items |-> final]
            /\ summary = [created |-> 0, counts |-> Summarize(TraitsOf(final)), of |-> final]
            /\ pngs = pictures
            /\ dataSource = manifest.items
            /\ viewer = [d \in {"svgs"} \cup ToSet(DocOrder) |->
                            IF d # "svgs" THEN ViewerDoc(final, summary.counts, d)
                            ELSE [i \in 1..Len(items) |-> BuildSvg(first, DecodeTokenRecord(first.records, i))]]
            /\ job = Idle

EditSelection ==
    /\ job = Idle
    /\ selection' \in Selections \ {selection}
    /\ UNCHANGED <<manifest, summary, pngs, data, viewer, job, dataSource>>

(* The script reads its inputs and leaves with an error if they cannot make a collection. *)
RebuildStarts ==
    /\ job = Idle /\ manifest.created < MaxRebuilds
    /\ ~RebuildRefuses(selection)
    /\ Len(Rebuilt(selection)) = MaxSupply
    /\ job' = [script |-> "rebuild", step |-> "draw", sel |-> selection, items |-> Rebuilt(selection)]
    /\ UNCHANGED <<selection, manifest, summary, pngs, data, viewer, dataSource>>

(* Pictures are overwritten one by one, before anything is validated. *)
RebuildDraws ==
    /\ job.script = "rebuild" /\ job.step = "draw"
    /\ LET bad   == Undrawable(job.items)
           upTo  == IF bad = {} THEN Len(job.items) ELSE FirstOf(bad) - 1
           drawn == Drawn(job.items, upTo)
           final == WithHash(job.items, drawn)
       IN  /\ pngs' = Overwritten(pngs, drawn)
           /\ job' = IF bad = {} /\ Valid(final, job.sel)
                     THEN [job EXCEPT !.step = "manifest", !.items = final] ELSE Idle
    /\ UNCHANGED <<selection, manifest, summary, data, viewer, dataSource>>

RebuildWritesManifest ==
    /\ job.script = "rebuild" /\ job.step = "manifest"
    /\ manifest' = [created |-> manifest.created + 1, items |-> job.items]
    /\ job' = [job EXCEPT !.step = "summary"]
    /\ UNCHANGED <<selection, summary, pngs, data, viewer, dataSource>>

(* Mutant of RebuildWritesSummary: the items the script started from are counted. *)
SummaryOfTheSources ==
    /\ job.script = "rebuild" /\ job.step = "summary"
    /\ summary' = [created |-> manifest.created, counts |-> Summarize(TraitsOf(Sources)), of |-> job.items]
    /\ job' = Idle
    /\ UNCHANGED <<selection, manifest, pngs, data, viewer, dataSource>>

RebuildWritesSummary ==
    /\ job.script = "rebuild" /\ job.step = "summary"
    /\ summary' = [created |-> manifest.created, counts |-> Summarize(TraitsOf(job.items)), of |-> job.items]
    /\ job' = Idle
    /\ UNCHANGED <<selection, manifest, pngs, data, viewer, dataSource>>

GenerateOnchainData ==
    /\ job = Idle
    /\ ManifestIsPackable(manifest.items) /\ BeamFits(data)
    /\ data' = Generated(manifest.items, data)
    /\ dataSource' = manifest.items
    /\ UNCHANGED <<selection, manifest, summary, pngs, viewer, job>>

(* Items are checked against the data and drawn one by one; the first mismatch ends the run. *)
ViewerChecksItems ==
    /\ job = Idle /\ Len(manifest.items) = MaxSupply
    /\ LET items == ByToken(manifest.items)
           bad   == Mismatches(items)
           upTo  == IF bad = {} THEN Len(items) ELSE FirstOf(bad) - 1
       IN  /\ viewer' = [viewer EXCEPT !.svgs =
                           Overwritten(@, [i \in 1..upTo |-> BuildSvg(data, DecodeTokenRecord(data.records, i))])]
           /\ job' = IF bad = {} THEN [script |-> "viewer", step |-> 1, items |-> items, summary |-> summary]
                     ELSE Idle
    /\ UNCHANGED <<selection, manifest, summary, pngs, data, dataSource>>

ViewerWritesDoc ==
    /\ job.script = "viewer"
    /\ LET doc == DocOrder[job.step]
       IN  viewer' = [viewer EXCEPT ![doc] = ViewerDoc(job.items, job.summary.counts, doc)]
    /\ job' = IF job.step = Len(DocOrder) THEN Idle ELSE [job EXCEPT !.step = @ + 1]
    /\ UNCHANGED <<selection, manifest, summary, pngs, data, dataSource>>

Stops ==
    /\ job # Idle
    /\ job' = Idle
    /\ UNCHANGED <<selection, manifest, summary, pngs, data, viewer, dataSource>>

Next == \/ EditSelection \/ RebuildStarts \/ RebuildDraws \/ RebuildWritesManifest
        \/ RebuildWritesSummary \/ GenerateOnchainData \/ ViewerChecksItems \/ ViewerWritesDoc \/ Stops

Spec == Init /\ [][Next]_vars

---------------------------------------------------------------------------
(* verify_renderer_manifest_match.mjs and verify_renderer_pixels.mjs, of a renderer deployed with
   the data file: every token answers, with the traits and the picture of its item. *)

RendererMatches(items) ==
    \A i \in 1..Len(items) :
        TokenURI(data, i) = [image |-> items[i].final_png, attributes |-> ManifestAttributes(items[i])]

---------------------------------------------------------------------------
(* Properties *)

(* generate_onchain_data.py packs what the renderer unpacks: generated from a manifest, the
   data file names every trait as the manifest does and draws every token pixel for pixel as
   the rebuild script drew it, from the item and the beam's picture, when the manifest was made. *)
ChainDrawsTheManifest == RendererMatches(dataSource)

(* The data file is its own input: with the same manifest a second run writes the same file,
   and no run changes a mask or a fixed layer other than the beam. *)
RegenerationIsStable ==
    [][/\ data' # data => dataSource' # dataSource
       /\ \A layer \in 0..(PreservedLayers - 1) : FixedLayer(data', layer, Blank) = FixedLayer(data, layer, Blank)
       /\ data'.masks = data.masks]_vars

(* A viewer run that has written its collection shows what the chain shows: its comparison of
   attributes is enough to notice a data file generated from cats with other traits, and its
   choice of layers draws what the renderer draws.  The colours it lists beside a cat it copies
   from the manifest without a look at the data file: they are the chain's if the data file was
   generated from the items of this run. *)
ViewerShowsTheChain ==
    (job.script = "viewer" /\ job.step > 1) =>
        \A i \in 1..MaxSupply :
            LET uri   == TokenURI(data, i)
                shown == viewer.collection[i]
                tuple == TupleMeta(data.tupleMeta, DecodeTokenRecord(data.records, i).tuple)
            IN  /\ viewer.svgs[i] = uri.image
                /\ << shown.trait_values.pattern, shown.trait_values.palette_id, shown.trait_values.collar,
                      shown.trait_values.rarity_tier, shown.trait_values.rarity_type >> = uri.attributes
                /\ dataSource = job.items =>
                       shown.color_tuple = SubSeq(data.tupleColors, tuple.offset + 1, tuple.offset + tuple.len)

(* Every option of the filters has the true count of one whole collection, that of the last
   rebuild that ended, in whatever order the scripts ran, failed and stopped.  It is the
   collection shown beside them if that rebuild also wrote the manifest of this run.  A rebuild
   that stopped between the two files makes them differ, and generate_viewer_data.mjs, which
   compares neither their times of creation nor their totals, publishes both. *)
FiltersCountTheCollection ==
    (job.script = "viewer" /\ job.step > 2) =>
        /\ \A key \in TraitKeys : \A value \in DOMAIN viewer.filters[key] :
              viewer.filters[key][value] =
                  Cardinality({i \in 1..MaxSupply : TraitValues(summary.of[i])[key] = value})
        /\ summary.created = manifest.created =>
              \A i \in 1..MaxSupply : viewer.collection[i].trait_values = TraitValues(summary.of[i])
=============================================================================
