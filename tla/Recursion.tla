----------------------------- MODULE Recursion -----------------------------
(***************************************************************************)
(* The witness calculator of a recursion circuit (harness/recursion.py):   *)
(* the adds of its .exec file are put into waves once, and every trace     *)
(* asked of it is the witness with the adds run by waves, placed into the  *)
(* trace's columns on the host, or on the device behind a placement that   *)
(* stays uploaded from one call to the next.                               *)
(*                                                                         *)
(* Cells are numbered from 0 as in the code, a witness is a function of    *)
(* its cells, and an add is << a, b, by a, by b >>.  A circuit's witness   *)
(* has `size` cells before those of its adds, its placement `rows` rows.   *)
(***************************************************************************)
EXTENDS Integers, Sequences, FiniteSets, SequencesExt

CONSTANTS Modulus,   \* the field's, below every word's end: a word is < 2 * Modulus
          Circuits,  \* records: size, adds, rows, smap
          CellWords, \* what the witness library leaves in a cell
          Heights, Widths \* of the traces asked for

Cells(c) == 0..(c.size + Len(c.adds) - 1)

ASSUME RecursionAssumption ==
    /\ Modulus \in Nat \ {0, 1}
    /\ CellWords \subseteq 0..(2 * Modulus - 1)
    /\ \A c \in Circuits :
          /\ c.size \in Nat \ {0} /\ c.rows \in Nat \ {0}
          /\ c.adds \in Seq([1..4 -> Nat])
          /\ c.smap \in Seq(Cells(c))
    /\ Heights \subseteq Nat /\ Widths \subseteq Nat \ {0}

VARIABLES
    circuit, \* the circuit the calculator is of
    built,   \* it has been made
    waves,   \* the places of its adds, by wave
    upload,  \* the placement on the device and the width it was reshaped to
    answer   \* what was asked of it last, and what came

calcVars == <<circuit, built, waves, upload, answer>>

-----------------------------------------------------------------------------
(* _add_waves.                                                             *)

Reads(add) == { add[1], add[2] }

\* The adds that read a slot their own or a later add fills.
Forward(adds, size) ==
    { k \in DOMAIN adds : \E cell \in Reads(adds[k]) : cell - size >= k - 1 }

\* One pass of the relaxation: an add is one above the adds it reads.
Relaxed(adds, size, level) ==
    [k \in DOMAIN adds |->
       Max({ 0 } \cup { level[cell - size + 1] + 1 :
                          cell \in { c \in Reads(adds[k]) : c >= size } })]

\* The levels after each pass, at most as many as adds.
Levels(adds, size) ==
    LET after[pass \in 0..Len(adds)] ==
          IF pass = 0 THEN [k \in DOMAIN adds |-> 0]
          ELSE Relaxed(adds, size, after[pass - 1])
    IN  after

\* The adds of every level.
AddWaves(adds, size) ==
    IF adds = << >> THEN << >>
    ELSE LET level == Levels(adds, size)[Len(adds)]
         IN [lv \in 1..(Max({ level[k] : k \in DOMAIN adds }) + 1) |->
               { k \in DOMAIN adds : level[k] = lv - 1 }]

-----------------------------------------------------------------------------
(* CircomCalc.                                                             *)

NoUpload == [cols |-> 0, smap |-> << >>]
NoAnswer == [asked |-> FALSE]

\* __init__, which is refused when an add reads forward.
CalcInit ==
    /\ circuit \in Circuits
    /\ built = (Forward(circuit.adds, circuit.size) = {})
    /\ waves = IF built THEN AddWaves(circuit.adds, circuit.size) ELSE << >>
    /\ upload = NoUpload
    /\ answer = NoAnswer

\* What the witness library fills, the cells of the adds zero.
WitnessesOf(c) ==
    { [cell \in Cells(c) |-> IF cell < c.size THEN w[cell] ELSE 0] : w \in [0..(c.size - 1) -> CellWords] }

AddValue(w, add) == (w[add[1]] * add[3] + w[add[2]] * add[4]) % Modulus

\* One wave, every add of it on the witness before it.
RunWave(w, adds, size, wave) ==
    [cell \in DOMAIN w |->
       IF cell - size + 1 \in wave THEN AddValue(w, adds[cell - size + 1]) ELSE w[cell]]

Canonical(v) == IF v >= Modulus THEN v - Modulus ELSE v

\* _settled: the waves, then the unmapped cell to zero and every cell
\* canonical.
Settled(w) ==
    LET run == FoldLeft(LAMBDA acc, wave : RunWave(acc, circuit.adds, circuit.size, wave), w, waves)
    IN  [cell \in DOMAIN w |-> IF cell = 0 THEN 0 ELSE Canonical(run[cell])]

\* numpy's reshape takes a width the placement fills, and an output has the
\* placement's rows at least.
Reshapes(cols) == circuit.rows * cols = Len(circuit.smap)
HasRoom(n) == circuit.rows <= n

Reshaped(cols) ==
    [r \in 1..circuit.rows |-> [c \in 1..cols |-> circuit.smap[(r - 1) * cols + c]]]

\* The placed cells, and rows of zeros below them.
LaidOut(cells, smap, n, cols) ==
    [r \in 1..n |-> [c \in 1..cols |-> IF r <= circuit.rows THEN cells[smap[r][c]] ELSE 0]]

Answered(w, n, cols, ok, trace) ==
    answer' = [asked |-> TRUE, w |-> w, n |-> n, cols |-> cols, ok |-> ok,
               trace |-> IF ok THEN trace ELSE << >>]

\* committed_pols: the placement is reshaped by every call.
CommittedPols(w, n, cols) ==
    /\ built
    /\ Answered(w, n, cols, Reshapes(cols) /\ HasRoom(n),
                LaidOut(Settled(w), Reshaped(cols), n, cols))
    /\ UNCHANGED <<circuit, built, waves, upload>>

\* Mutant: the placement uploaded first serves every width.
UploadedOnce(cols) == upload # NoUpload

\* The upload is keyed on the width its reshape was made for.
Uploaded(cols) == upload.cols = cols

\* committed_trace: the gather behind the uploaded placement.  A width that
\* does not reshape leaves the upload as it was.
CommittedTrace(w, n, cols) ==
    /\ built
    /\ IF Uploaded(cols) \/ Reshapes(cols)
       THEN /\ upload' = IF Uploaded(cols) THEN upload
                         ELSE [cols |-> cols, smap |-> Reshaped(cols)]
            /\ Answered(w, n, cols, HasRoom(n), LaidOut(Settled(w), upload'.smap, n, upload'.cols))
       ELSE /\ Answered(w, n, cols, FALSE, << >>)
            /\ UNCHANGED upload
    /\ UNCHANGED <<circuit, built, waves>>

CalcNext ==
    \E w \in WitnessesOf(circuit), n \in Heights, cols \in Widths :
        CommittedPols(w, n, cols) \/ CommittedTrace(w, n, cols)

CalcSpec == CalcInit /\ [][CalcNext]_calcVars

-----------------------------------------------------------------------------
(* What a calculator promises.                                             *)

\* proofman: the adds one after the other.
OneByOne(w, adds, size) ==
    LET after[k \in 0..Len(adds)] ==
          IF k = 0 THEN w
          ELSE [after[k - 1] EXCEPT ![size + k - 1] = AddValue(after[k - 1], adds[k])]
    IN  after

\* The value a trace has where the placement names a cell.
Proofman(w, cell) ==
    IF cell = 0 THEN 0
    ELSE OneByOne(w, circuit.adds, circuit.size)[Len(circuit.adds)][cell] % Modulus

(***************************************************************************)
(* Every trace, on the host or the device, in whichever order of calls and *)
(* widths, holds at every place the value that the adds run one after the  *)
(* other leave in the cell the placement names there; a call is refused    *)
(* just when the placement does not have its shape, and a circuit just     *)
(* when an add reads a slot filled at or after it; and the passes over the *)
(* depths of the adds settle within as many as there are adds, as          *)
(* _add_waves says of the branch it calls unreachable.                     *)
(***************************************************************************)
WitnessesSettleInOrder ==
    LET adds == circuit.adds
        size == circuit.size
    IN  /\ built <=> \A k \in DOMAIN adds : \A cell \in Reads(adds[k]) : cell < size + k - 1
        /\ built /\ adds # << >> =>
              Levels(adds, size)[Len(adds)] = Levels(adds, size)[Len(adds) - 1]
        /\ answer.asked =>
              /\ answer.ok <=> circuit.rows * answer.cols = Len(circuit.smap) /\ circuit.rows <= answer.n
              /\ answer.ok => answer.trace =
                    [r \in 1..answer.n |-> [c \in 1..answer.cols |->
                       IF r <= circuit.rows
                       THEN Proofman(answer.w, circuit.smap[(r - 1) * answer.cols + c]) ELSE 0]]

-----------------------------------------------------------------------------
(* What this rests on (module TranscriptProofs).                           *)

\* The calculator keeps the circuit's waves, and on the device nothing but its
\* own placement, in the width it says.
CalcInv ==
    /\ circuit \in Circuits
    /\ built <=> Forward(circuit.adds, circuit.size) = {}
    /\ built => waves = AddWaves(circuit.adds, circuit.size)
    /\ \A cols \in Widths : Uploaded(cols) => Reshapes(cols) /\ upload.smap = Reshaped(cols)
    /\ WitnessesSettleInOrder
=============================================================================
