----------------------------- MODULE CatRecords -----------------------------
(***************************************************************************)
(* The packed data of the collection: how generate_onchain_data.py encodes *)
(* a token's traits, pixel maps and colour tables, and how the metadata    *)
(* renderer reads them back.  The two programs share no code: each has its *)
(* own tables of names and its own arithmetic.                             *)
(***************************************************************************)
EXTENDS Integers, Sequences

CONSTANTS
    TupleIndexes,   \* how many colour tuples a record can point to: 512, nine bits
    OffsetBase      \* values of one byte of a palette offset: 256

ASSUME RecordsAssumption == /\ TupleIndexes \in 1..512
                            /\ OffsetBase \in Nat \ {0}

---------------------------------------------------------------------------
(* The generator's tables: a trait's id is its position. *)

PATTERN_NAMES == <<"solid", "socks", "pointed", "patched", "hachiware", "tuxedo", "masked",
                   "classic_tabby", "mackerel_tabby", "tortoiseshell">>
PALETTE_NAMES == <<"black_white", "cyberpunk", "earth_tone", "gray_soft", "orange_warm",
                   "orange_white", "psychedelic", "space_nebula", "tricolor_soft",
                   "tropical_fever", "zombie", "ivory_brown", "black_solid">>
COLLAR_TYPE_NAMES == <<"none", "checkered_collar", "classic_red_collar">>
RARITY_TIER_NAMES == <<"common", "rare", "superrare">>
RARITY_TYPE_NAMES == <<"none", "odd_eyes", "red_nose", "blue_nose", "glasses", "sunglasses", "beam">>

Known(table, name) == \E i \in 1..Len(table) : table[i] = name
IdIn(table, name)  == CHOOSE i \in 0..(Len(table) - 1) : table[i + 1] = name

(* The renderer's tables: an if per id, and a name for every other id. *)

PatternName(id) == IF id < 10 THEN
    <<"solid", "socks", "pointed", "patched", "hachiware", "tuxedo", "masked", "classic_tabby",
      "mackerel_tabby", "tortoiseshell">>[id + 1] ELSE "unknown"
PaletteName(id) == IF id < 13 THEN
    <<"black_white", "cyberpunk", "earth_tone", "gray_soft", "orange_warm", "orange_white",
      "psychedelic", "space_nebula", "tricolor_soft", "tropical_fever", "zombie", "ivory_brown",
      "black_solid">>[id + 1] ELSE "unknown"
CollarTypeName(id) == IF id = 1 THEN "checkered_collar"
                      ELSE IF id = 2 THEN "classic_red_collar" ELSE "none"
RarityTierName(id) == IF id = 1 THEN "rare" ELSE IF id = 2 THEN "superrare" ELSE "common"
RarityTypeName(id) == IF id \in 1..6 THEN
    <<"odd_eyes", "red_nose", "blue_nose", "glasses", "sunglasses", "beam">>[id] ELSE "none"

---------------------------------------------------------------------------
(* A token record: six fields in one 32-bit word, little-endian. *)

Fields == [pattern : 0..15, palette : 0..15, collar : 0..3, tier : 0..3,
           rtype : 0..15, tuple : 0..(TupleIndexes - 1)]

(* Mutant of Pack: the rarity type is shifted by one bit too few. *)
OverlappingPack(f) ==
    (f.pattern % 16) + 16 * (f.palette % 16) + 256 * (f.collar % 4)
    + 1024 * (f.tier % 4) + 2048 * (f.rtype % 16) + 256 * 256 * (f.tuple % TupleIndexes)

Pack(f) == (f.pattern % 16) + 16 * (f.palette % 16) + 256 * (f.collar % 4)
           + 1024 * (f.tier % 4) + 4096 * (f.rtype % 16) + 256 * 256 * (f.tuple % TupleIndexes)

RecordBytes(word) == LET second == word \div 256
                         third  == second \div 256
                     IN  << word % 256, second % 256, third % 256, (third \div 256) % 256 >>

Word(b) == b[1] + 256 * (b[2] + 256 * (b[3] + 256 * b[4]))

Decoded(word) == [pattern |-> word % 16, palette |-> (word \div 16) % 16,
                  collar |-> (word \div 256) % 4, tier |-> (word \div 1024) % 4,
                  rtype |-> (word \div 4096) % 16, tuple |-> ((word \div 256) \div 256) % TupleIndexes]

DecodeTokenRecord(records, tokenId) ==
    Decoded(Word(SubSeq(records, 4 * (tokenId - 1) + 1, 4 * tokenId)))

---------------------------------------------------------------------------
(* Nibble-packed pixel maps and the three-byte entries (offset, length) of the colour tables. *)

PackNibbles(vals) == [k \in 1..(Len(vals) \div 2) |-> 16 * vals[2 * k - 1] + vals[2 * k]]

NibbleAt(packed, index) == LET b == packed[index \div 2 + 1]
                           IN  IF index % 2 = 0 THEN b \div 16 ELSE b % 16

MetaBytes(offset, len) == << (offset \div OffsetBase) % OffsetBase, offset % OffsetBase, len >>

TupleMeta(meta, i) == [offset |-> OffsetBase * meta[3 * i + 1] + meta[3 * i + 2],
                       len    |-> meta[3 * i + 3]]
=============================================================================
