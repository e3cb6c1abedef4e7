---------------------------- MODULE OnchainData -----------------------------
(***************************************************************************)
(* generate_onchain_data.py: from the manifest and the data file already   *)
(* in place to the next data file, which overwrites it.  Pattern masks and *)
(* the first eight fixed layers are carried over from the file itself; the *)
(* beam layer is cut from its picture; records and colour tuples come from *)
(* the manifest.                                                           *)
(***************************************************************************)
EXTENDS CatArt, FiniteSets

CONSTANTS
    PaletteLimit,      \* colours one fixed layer may have: 15, a nibble
    TupleLimit         \* colours of one tuple: 4

ASSUME OnchainAssumption == /\ PaletteLimit \in 0..15
                            /\ BeamPixels \in [Pixels -> Nat]

PatternCount    == Len(PATTERN_NAMES)
PreservedLayers == 8
MaxOffset       == OffsetBase * OffsetBase - 1      \* 65535

(* Each item goes behind the ones with lower token ids. *)
ByToken(items) ==
    LET Lower(k) == {j \in 1..Len(items) : items[j].token_id < items[k].token_id}
    IN  [i \in 1..Len(items) |-> items[CHOOSE k \in 1..Len(items) : Cardinality(Lower(k)) = i - 1]]

(* Distinct values in the order they first appear, after those of start. *)
FirstSeen(start, seq) ==
    LET seen[n \in 0..Len(seq)] ==
            IF n = 0 THEN start
            ELSE LET before == seen[n - 1]
                 IN  IF Known(before, seq[n]) THEN before ELSE Append(before, seq[n])
    IN  seen[Len(seq)]

---------------------------------------------------------------------------
(* build_tuple_and_token_records *)

ColorTuples(items) == FirstSeen(<< <<>> >>, [i \in 1..Len(items) |-> items[i].color_tuple])

TokenRecord(item, tuples) ==
    RecordBytes(Pack([pattern |-> IdIn(PATTERN_NAMES, item.pattern),
                      palette |-> IdIn(PALETTE_NAMES, item.palette_id),
                      collar  |-> IdIn(COLLAR_TYPE_NAMES, item.collar_type),
                      tier    |-> IdIn(RARITY_TIER_NAMES, item.rarity_tier),
                      rtype   |-> IdIn(RARITY_TYPE_NAMES, item.rarity_type),
                      tuple   |-> IdIn(tuples, item.color_tuple)]))

TraitsAreKnown(item) ==
    /\ Known(PATTERN_NAMES, item.pattern) /\ Known(PALETTE_NAMES, item.palette_id)
    /\ Known(COLLAR_TYPE_NAMES, item.collar_type) /\ Known(RARITY_TIER_NAMES, item.rarity_tier)
    /\ Known(RARITY_TYPE_NAMES, item.rarity_type)

(* The colours of a tuple stand behind those of all tuples before it. *)
ColorOffset(tuples, i) == Len(FlattenSeq(SubSeq(tuples, 1, i - 1)))

TupleTable(tuples) ==
    [meta   |-> FlattenSeq([i \in 1..Len(tuples) |-> MetaBytes(ColorOffset(tuples, i), Len(tuples[i]))]),
     colors |-> FlattenSeq(tuples)]

ManifestIsPackable(items) ==
    LET sorted == ByToken(items)  tuples == ColorTuples(sorted)
    IN  /\ Len(sorted) = MaxSupply
        /\ \A i \in 1..Len(sorted) : sorted[i].token_id = i /\ TraitsAreKnown(sorted[i])
        /\ \A i \in 1..Len(tuples) : ColorOffset(tuples, i) <= MaxOffset /\ Len(tuples[i]) <= TupleLimit

---------------------------------------------------------------------------
(* build_pattern_data and build_fixed_layer_data *)

RowMajor(map) == [k \in 1..Area |-> map[<<(k - 1) % Width, (k - 1) \div Width>>]]

(* A pixel's nibble is the place of its colour in the palette; 0 is a clear pixel. *)
BeamValues  == FirstSeen(<<Clear>>, RowMajor(BeamPixels))
BeamColors  == Tail(BeamValues)
BeamNibbles == [k \in 1..Area |-> IdIn(BeamValues, RowMajor(BeamPixels)[k])]

PaletteEnd(data) ==
    Max({0} \cup {TupleMeta(data.fixedMeta, layer).offset + TupleMeta(data.fixedMeta, layer).len :
                      layer \in 0..(PreservedLayers - 1)})

BeamFits(current) == Len(BeamColors) <= PaletteLimit /\ PaletteEnd(current) <= MaxOffset

(* Mutant of FixedLayers: the beam's colours go behind all colours there are, the old beam's too. *)
GrowingLayers(current) ==
    LET kept == current.fixedPalettes
    IN  [pixels   |-> SubSeq(current.fixedPixels, 1, PreservedLayers * (Area \div 2)) \o PackNibbles(BeamNibbles),
         meta     |-> SubSeq(current.fixedMeta, 1, 3 * PreservedLayers) \o MetaBytes(Len(kept), Len(BeamColors)),
         palettes |-> kept \o BeamColors]

FixedLayers(current) ==
    LET kept == SubSeq(current.fixedPalettes, 1, PaletteEnd(current))
    IN  [pixels   |-> SubSeq(current.fixedPixels, 1, PreservedLayers * (Area \div 2)) \o PackNibbles(BeamNibbles),
         meta     |-> SubSeq(current.fixedMeta, 1, 3 * PreservedLayers) \o MetaBytes(Len(kept), Len(BeamColors)),
         palettes |-> kept \o BeamColors]

---------------------------------------------------------------------------
(* The file written when nothing is refused. *)

Generated(items, current) ==
    LET sorted == ByToken(items)
        tuples == ColorTuples(sorted)
        table  == TupleTable(tuples)
        fixed  == FixedLayers(current)
    IN  [records       |-> FlattenSeq([i \in 1..Len(sorted) |-> TokenRecord(sorted[i], tuples)]),
         tupleMeta     |-> table.meta,
         tupleColors   |-> table.colors,
         slotCounts    |-> SubSeq(current.slotCounts, 1, PatternCount),
         masks         |-> SubSeq(current.masks, 1, PatternCount * (Area \div 2)),
         fixedPixels   |-> fixed.pixels,
         fixedMeta     |-> fixed.meta,
         fixedPalettes |-> fixed.palettes]
=============================================================================
