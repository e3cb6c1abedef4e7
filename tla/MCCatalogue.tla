---------------------------- MODULE MCCatalogue -----------------------------
(* The release scripts and, once a whole viewer run has been published, a visit of the browse
   site, over a collection of seven cats drawn on three by two pixels. *)
EXTENDS Catalogue

Item(id, pattern, palette, category, key, collar, tier, rtype, colors) ==
    [token_id |-> id, pattern |-> pattern, palette_id |-> palette, category |-> category,
     variant_key |-> key, collar_type |-> collar, rarity_tier |-> tier, rarity_type |-> rtype,
     color_tuple |-> colors]

MCSourceItems ==
    << Item(2, "solid", "black_solid", "classic", "a", "checkered_collar", "rare", "odd_eyes", <<11>>),
       Item(1, "solid", "black_solid", "classic", "a", "none", "common", "none", <<11>>),
       Item(3, "socks", "cyberpunk", "dream", "b", "classic_red_collar", "common", "none", <<13, 12>>),
       Item(4, "socks", "cyberpunk", "dream", "b", "classic_red_collar", "common", "none", <<12, 13>>),
       Item(5, "socks", "cyberpunk", "dream", "b", "none", "rare", "odd_eyes", <<12, 13>>),
       Item(6, "socks", "tropical_fever", "dream", "c", "none", "rare", "sunglasses", <<14, 11>>),
       Item(7, "superrare", "logo", "logo", "d", "none", "superrare", "logo", <<>>) >>

Rare(id)         == [source |-> id, group |-> "rare", duplicate |-> FALSE]
Common(id, dbl)  == [source |-> id, group |-> "common", duplicate |-> dbl]
Selection(s, d)  == [selected |-> s, dropped |-> d]

(* The second moves both beams, the third only changes the colours of one; then: a cat too
   many, a quota missed, a double of nothing, and the logo kept in place of a cat. *)
MCSelections ==
    { Selection({Rare(2), Common(4, TRUE)}, {7}), Selection({Rare(5), Common(1, TRUE)}, {7}),
      Selection({Rare(2), Common(3, TRUE)}, {7}),
      Selection({Rare(2), Common(4, TRUE)}, {}),
      Selection({Rare(6), Common(1, TRUE)}, {7}), Selection({Rare(2), Common(9, TRUE)}, {7}),
      Selection({Rare(2), Common(4, TRUE)}, {1}) }

(* Ten masks of six nibbles; the first two have one and two slots. *)
MCBaseData ==
    [slotCounts    |-> <<1, 2, 1, 1, 1, 1, 1, 1, 1, 1>>,
     masks         |-> <<17, 1, 0,   18, 33, 2>> \o [i \in 1..24 |-> 16],
     fixedPixels   |-> <<1, 0, 0,  0, 1, 32,  0, 1, 16,  1, 2, 0,  16, 0, 1,  1, 0, 1,  17, 0, 0,  17, 16, 0>>,
     fixedMeta     |-> <<0, 0, 1,  0, 1, 2,  0, 3, 1,  1, 0, 2,  1, 2, 1,  1, 3, 1,  2, 0, 1,  2, 1, 1>>,
     fixedPalettes |-> <<21, 22, 23, 24, 25, 26, 27, 28, 29, 30>>]

MCBeamPixels == [p \in (0..2) \X (0..1) |->
                    IF p = <<0, 0>> THEN 41 ELSE IF p = <<1, 0>> THEN 42 ELSE IF p = <<2, 1>> THEN 41 ELSE 0]
MCRareQuota == [odd_eyes |-> 1, sunglasses |-> 1]
MCGroups    == [classic |-> {"black_solid"}, dream |-> {"cyberpunk", "tropical_fever", "zombie"}]
MCLandings  == { NoParams, [NoParams EXCEPT !.collar_type = "with_collar"],
                 [NoParams EXCEPT !.page = 99], [NoParams EXCEPT !.pattern = "no_such"] }

(* Nothing of the repository changes, and no property of it can, while the site is visited. *)
MCView == IF site = None THEN <<vars, viewVars>> ELSE <<viewVars>>
=============================================================================
