------------------------------ MODULE Packing ------------------------------
(***************************************************************************)
(* How pil2's buffers are laid out and read back: packed value sections,   *)
(* row windows and the opening order (harness/pil2.py), the stage-1 values *)
(* of a contribution (harness/contributions.py), the tiles of a GPU dump   *)
(* (harness/capture.py), and a chip's fixed columns out of the proving     *)
(* key's (constraints/preprocessed.py).                                    *)
(***************************************************************************)
EXTENDS Integers, Sequences, FiniteSets, SequencesExt

CONSTANTS TileRows, TileCols \* 256 and 4

ASSUME PackingAssumption == TileRows \in Nat \ {0} /\ TileCols \in Nat \ {0}

CeilDiv(a, b) == (a + b - 1) \div b

-----------------------------------------------------------------------------
(* A values map is the sequence of its entries' stages.                    *)

\* Stage-1 values are one word, the later ones three.
Width(stage) == IF stage = 1 THEN 1 ELSE 3

\* value_offsets, offsets from 0.
ValueOffsets(stages) ==
    [i \in DOMAIN stages |->
       [offset |-> FoldLeft(LAMBDA sum, s : sum + Width(s), 0, SubSeq(stages, 1, i - 1)),
        width |-> Width(stages[i])]]

Words(words, at) == SubSeq(words, at.offset + 1, at.offset + at.width)

Padded(words, n) == words \o [k \in 1..(n - Len(words)) |-> 0]

\* values_env: every value as a cubic.
ValuesEnv(words, stages) ==
    [i \in DOMAIN stages |-> Padded(Words(words, ValueOffsets(stages)[i]), 3)]

\* proof_serializer._values3.
Values3(words, stages) == FlattenSeq(ValuesEnv(words, stages))

\* contributions.stage1_values.
Stage1Values(words, stages) ==
    FlattenSeq([i \in DOMAIN stages |->
        IF ValueOffsets(stages)[i].width = 1 THEN Words(words, ValueOffsets(stages)[i]) ELSE <<>>])

\* absorb_stage2_airvalues: what it absorbs.
Stage2Absorbed(words, stages) ==
    FlattenSeq([i \in DOMAIN stages |->
        IF stages[i] = 2 THEN Words(words, ValueOffsets(stages)[i]) ELSE <<>>])

\* stage_challenge_ids.
StageChallengeIds(stages, stage) ==
    SelectSeq([i \in DOMAIN stages |-> i], LAMBDA i : stages[i] = stage)

-----------------------------------------------------------------------------
RowsPerWindow(n, count) == CeilDiv(n, count)

\* row_windows: << lo, hi >> pairs, the last one clipped.
RowWindows(n, count) ==
    LET per == RowsPerWindow(n, count)
        nonempty == SelectSeq([k \in 1..count |-> k - 1], LAMBDA k : k * per < n)
    IN  [j \in DOMAIN nonempty |-> << nonempty[j] * per, Min({ (nonempty[j] + 1) * per, n }) >>]

\* open_evmap_columns: base columns first for the opening, then back in
\* evMap order.
OpeningOrder(isBase) ==
    SelectSeq([i \in DOMAIN isBase |-> i], LAMBDA i : isBase[i])
    \o SelectSeq([i \in DOMAIN isBase |-> i], LAMBDA i : ~isBase[i])

OpenEvMap(isBase, opened) ==
    LET order == OpeningOrder(isBase)
        split == [j \in DOMAIN order |-> opened[order[j]]]
    IN  [i \in DOMAIN isBase |-> split[CHOOSE j \in DOMAIN order : order[j] = i]]

-----------------------------------------------------------------------------
(* untile_gpu: tiles of TileRows by TileCols, column-major in a tile, the  *)
(* last column group narrower.                                             *)

GroupCols(cols, g) == Min({ cols - TileCols * g, TileCols })

InTile(r, c, ncb) == ((c - 1) % TileCols) * TileRows + ((r - 1) % TileRows)

Untile(flat, rows, cols) ==
    [r \in 1..rows |-> [c \in 1..cols |->
        LET g == (c - 1) \div TileCols
            ncb == GroupCols(cols, g)
            block == (r - 1) \div TileRows
        IN  flat[rows * TileCols * g + block * ncb * TileRows + InTile(r, c, ncb) + 1]]]

-----------------------------------------------------------------------------
(* A chip's fixed columns: descriptors with a name, an index and a width;  *)
(* a derived one sums rolls of a column of the key.                        *)

RefusedColumns == << <<"refused">> >>

\* _preprocessed_names: the descriptors must tile the index space exactly.
PreprocessedNames(cols, nPrep) ==
    LET sorted == SetToSortSeq(ToSet(cols), LAMBDA a, b : a.index < b.index)
    IN  IF /\ \A k \in DOMAIN sorted : sorted[k].index = k - 1 /\ sorted[k].width = 1
           /\ Len(sorted) = nPrep
        THEN [k \in DOMAIN sorted |-> sorted[k].name]
        ELSE RefusedColumns

\* load_preprocessed: columns of the key's file of rows, by name and in the
\* caller's order; none of a file that is not what its starkinfo says.
LoadPreprocessed(key, columns) ==
    LET at(name) == SelectInSeq(key.constPols, LAMBDA pol : pol.name = name)
        width == Len(key.constPols)
    IN  IF /\ key.nConstants = width
           /\ \A k \in 1..width : key.constPols[k].dim = 1
           /\ Len(key.words) = key.rows * width
           /\ \A k \in DOMAIN columns : at(columns[k]) # 0
        THEN [k \in DOMAIN columns |->
                [x \in 1..key.rows |-> key.words[(x - 1) * width + at(columns[k])]]]
        ELSE RefusedColumns

\* pil2 qualifies an authored column by its AIR.
ConstPolName(air, name) == << air, name >>

\* load_chip_preprocessed: by name from the key, or base rolled by lo..hi and
\* summed; a chip without fixed columns needs no key.
ChipPreprocessed(names, air, key, derived) ==
    LET backing(name) == IF name \in DOMAIN derived THEN derived[name].base ELSE name
        loaded == LoadPreprocessed(key, [k \in DOMAIN names |-> ConstPolName(air, backing(names[k]))])
        rolled(src, d) ==
            [x \in DOMAIN src |->
               FoldLeft(LAMBDA sum, by : sum + src[((x - 1 - by) % Len(src)) + 1], 0,
                        [j \in 1..(d.hi - d.lo + 1) |-> d.lo + j - 1])]
    IN  IF names = << >> \/ loaded = RefusedColumns
        THEN IF names = << >> THEN << >> ELSE RefusedColumns
        ELSE [k \in DOMAIN names |->
                IF names[k] \in DOMAIN derived THEN rolled(loaded[k], derived[names[k]]) ELSE loaded[k]]

\* full_trace: the fixed columns before the main ones, of one height.
FullTrace(nMain, main, prep) ==
    IF Len(main) # nMain \/ prep = RefusedColumns THEN RefusedColumns
    ELSE IF prep = << >> THEN main
    ELSE IF Len(main[1]) # Len(prep[1]) THEN RefusedColumns
    ELSE prep \o main
=============================================================================
