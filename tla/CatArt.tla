------------------------------- MODULE CatArt -------------------------------
(***************************************************************************)
(* How a cat is drawn: by the metadata renderer from the packed data, by   *)
(* its port in generate_viewer_data.mjs, and by the rebuild script from    *)
(* the manifest item and the beam's picture.  A drawing is a function from *)
(* pixels to colours; an SVG's rectangles are painted one over the other.  *)
(* A colour is a number; base64, JSON and the SVG's text are left out.     *)
(***************************************************************************)
EXTENDS CatRecords, SequencesExt

CONSTANTS
    Width, Height,      \* 24 and 24
    MaxSupply,          \* 1000
    BeamPixels          \* assets/traits/beam.png: a colour or Clear for every pixel

ASSUME CatArtAssumption == /\ Width \in Nat \ {0} /\ Height \in Nat \ {0}
                           /\ (Width * Height) % 2 = 0
                           /\ MaxSupply \in Nat \ {0}

Clear  == 0
Area   == Width * Height
Pixels == (0..(Width - 1)) \X (0..(Height - 1))
Blank  == [p \in Pixels |-> Clear]

(* The n-th map of a nibble-packed file of maps. *)
PixelMap(packed, n) == [p \in Pixels |-> NibbleAt(packed, n * Area + p[2] * Width + p[1])]

(* The runs of equal, non-transparent values along a row that the two nested loops cut it
   into: from a pixel whose left neighbour differs, as far as the value stays the same. *)
RunLength(map, p) ==
    CHOOSE w \in 1..(Width - p[1]) :
        /\ \A x \in p[1]..(p[1] + w - 1) : map[<<x, p[2]>>] = map[p]
        /\ p[1] + w < Width => map[<<p[1] + w, p[2]>>] # map[p]

Runs(map) ==
    {[x |-> p[1], y |-> p[2], w |-> RunLength(map, p)] :
        p \in {q \in Pixels : map[q] # Clear /\ (q[1] > 0 => map[<<q[1] - 1, q[2]>>] # map[q])}}

(* One rectangle for each run, in the colour that the run's value has among the given ones. *)
Rects(map, colours) ==
    {[x |-> r.x, y |-> r.y, w |-> r.w, h |-> 1, colour |-> colours[map[<<r.x, r.y>>]]] : r \in Runs(map)}

Covers(rect, p) == /\ p[1] \in rect.x..(rect.x + rect.w - 1)
                   /\ p[2] \in rect.y..(rect.y + rect.h - 1)

(* Rectangles of one layer over the drawing so far: they never overlap. *)
Paint(image, rects) ==
    [p \in Pixels |-> IF \E r \in rects : Covers(r, p)
                      THEN (CHOOSE r \in rects : Covers(r, p)).colour ELSE image[p]]

---------------------------------------------------------------------------
(* The metadata renderer on chain, deployed as the collection is: without the placeholder that
   pilots paint over superrare cats. *)

(* A list of colours read from an offset on: value 1 has the first colour. *)
ColoursFrom(list, offset) == SubSeq(list, offset + 1, Len(list))

SlotsFit(data, rec) == TupleMeta(data.tupleMeta, rec.tuple).len >= data.slotCounts[rec.pattern + 1]

PatternLayer(data, rec, image) ==
    Paint(image, Rects(PixelMap(data.masks, rec.pattern),
                       ColoursFrom(data.tupleColors, TupleMeta(data.tupleMeta, rec.tuple).offset)))

FixedLayer(data, layer, image) ==
    LET meta == TupleMeta(data.fixedMeta, layer)
    IN  IF meta.len = 0 THEN image
        ELSE Paint(image, Rects(PixelMap(data.fixedPixels, layer), ColoursFrom(data.fixedPalettes, meta.offset)))

NoLayer == 255

OptionalLayer(data, layer, image) == IF layer = NoLayer THEN image ELSE FixedLayer(data, layer, image)

RareLayer(rtype) == CASE rtype = 1 -> 3 [] rtype = 2 -> 4 [] rtype = 3 -> 5
                      [] rtype = 4 -> 6 [] rtype = 5 -> 7 [] OTHER -> NoLayer

CollarLayer(collar) == CASE collar = 1 -> 1 [] collar = 2 -> 2 [] OTHER -> NoLayer

(* The base and the collar, which every cat has painted over its pattern. *)
Body(data, collar, pattern) == OptionalLayer(data, CollarLayer(collar), FixedLayer(data, 0, pattern))

ImageData(data, rec) ==
    LET body == Body(data, rec.collar, PatternLayer(data, rec, Blank))
    IN  CASE rec.tier = 1 -> OptionalLayer(data, RareLayer(rec.rtype), body)
          [] rec.tier = 2 -> FixedLayer(data, 8, body)
          [] OTHER        -> body

Attributes(rec) == << PatternName(rec.pattern), PaletteName(rec.palette), CollarTypeName(rec.collar),
                      RarityTierName(rec.tier), RarityTypeName(rec.rtype) >>

Reverted == [reverted |-> TRUE]

TokenURI(data, tokenId) ==
    LET rec == DecodeTokenRecord(data.records, tokenId)
    IN  IF tokenId \in 1..MaxSupply /\ SlotsFit(data, rec)
        THEN [image |-> ImageData(data, rec), attributes |-> Attributes(rec)]
        ELSE Reverted

---------------------------------------------------------------------------
(* The port in generate_viewer_data.mjs: the same loops, and its own choice of layers. *)

NameOr(table, id, other) == IF id < Len(table) THEN table[id + 1] ELSE other

TraitNames(rec) == << NameOr(PATTERN_NAMES, rec.pattern, "unknown"), NameOr(PALETTE_NAMES, rec.palette, "unknown"),
                      NameOr(COLLAR_TYPE_NAMES, rec.collar, "none"), NameOr(RARITY_TIER_NAMES, rec.tier, "common"),
                      NameOr(RARITY_TYPE_NAMES, rec.rtype, "none") >>

BuildSvg(data, rec) ==
    LET body == Body(data, rec.collar, PatternLayer(data, rec, Blank))
    IN  CASE rec.tier = 1                  -> OptionalLayer(data, RareLayer(rec.rtype), body)
          [] rec.tier = 2 /\ rec.rtype = 6 -> FixedLayer(data, 8, body)
          [] OTHER                         -> body

---------------------------------------------------------------------------
(* The rebuild script: traits by name, the colours of the item, the beam from its picture. *)

PatternIsDrawable(data, item) ==
    /\ Known(PATTERN_NAMES, item.pattern)
    /\ Len(item.color_tuple) >= data.slotCounts[IdIn(PATTERN_NAMES, item.pattern) + 1]

NamedRareLayer(rtype) ==
    CASE rtype = "odd_eyes" -> 3 [] rtype = "red_nose" -> 4 [] rtype = "blue_nose" -> 5
      [] rtype = "glasses" -> 6 [] rtype = "sunglasses" -> 7 [] OTHER -> NoLayer

(* The beam's pixels are runs of one colour, each its own value. *)
BeamLayer(image) == Paint(image, Rects(BeamPixels, [colour \in {BeamPixels[p] : p \in Pixels} |-> colour]))

BuildSvgFromItem(data, item) ==
    LET pattern == Paint(Blank, Rects(PixelMap(data.masks, IdIn(PATTERN_NAMES, item.pattern)), item.color_tuple))
        body    == Body(data, IdIn(COLLAR_TYPE_NAMES, item.collar_type), pattern)
    IN  CASE item.rarity_tier = "rare" -> OptionalLayer(data, NamedRareLayer(item.rarity_type), body)
          [] item.rarity_tier = "superrare" /\ item.rarity_type = "beam" -> BeamLayer(body)
          [] OTHER -> body
=============================================================================
