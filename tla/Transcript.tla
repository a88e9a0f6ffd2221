----------------------------- MODULE Transcript -----------------------------
(***************************************************************************)
(* The Fiat-Shamir transcript of zisk_zorch/transcript/transcript.py: a    *)
(* sponge with a pending buffer of Rate elements and an output buffer of   *)
(* Width lanes that is read front to back.                                 *)
(*                                                                         *)
(* The permutation is ideal: a sponge state is the sequence of the blocks  *)
(* permuted into it, so two states are equal exactly when the same blocks  *)
(* went in, and a lane of a state is the pair <<state, lane>>.  The state  *)
(* of a fresh transcript is all zeros.                                     *)
(***************************************************************************)
EXTENDS Integers, Sequences, SequencesExt

CONSTANTS
    Width,      \* lanes of the sponge (WIDTH)
    Digest,     \* lanes carried into the next permutation (DIGEST)
    Limbs,      \* elements of a challenge (CHALLENGE_LIMBS)
    QueryBits,  \* bits used of a squeezed element (_BITS_PER_ELEMENT)
    Values,     \* field elements put by callers
    Queries,    \* the <<n, n_bits>> callers ask of get_permutations
    MaxPuts,    \* bound of the model: elements absorbed
    MaxReads    \* bound of the model: elements squeezed

ASSUME WidthAssumption  == Width \in Nat /\ Digest \in 1..(Width - 1)
ASSUME LimbsAssumption  == Limbs \in Nat \ {0} /\ QueryBits \in Nat \ {0}
ASSUME ValuesAssumption == Values \subseteq Nat /\ 0 \in Values
ASSUME BoundsAssumption == MaxPuts \in Nat /\ MaxReads \in Nat

\* get_permutations stacks the elements it takes: it refuses to take none.
ASSUME QueriesAssumption == Queries \subseteq (Nat \ {0}) \X (Nat \ {0})

Rate == Width - Digest

Const(n) == <<n>>
Zero == Const(0)

Lane(state, i) == IF state = <<>> THEN Zero ELSE <<state, i>>
Lanes(state, n) == [i \in 1..n |-> Lane(state, i - 1)]

-----------------------------------------------------------------------------
(* The transcript object and its methods.                                  *)

Fresh == [state |-> <<>>, out |-> <<>>, pending |-> <<>>, cursor |-> 0]

ZeroPadded(block) == block \o [i \in 1..(Rate - Len(block)) |-> Zero]

UpdateState(t) ==
    LET permuted == Append(t.state, ZeroPadded(t.pending))
    IN  [state |-> permuted, out |-> permuted, pending |-> <<>>, cursor |-> Width]

\* Mutant: an absorb leaves the output lanes to be read.
PutOneKeepingOutput(t, value) ==
    LET filled == [t EXCEPT !.pending = Append(@, value)]
    IN  IF Len(filled.pending) = Rate THEN UpdateState(filled) ELSE filled

PutOne(t, value) ==
    LET filled == [t EXCEPT !.pending = Append(@, value), !.cursor = 0]
    IN  IF Len(filled.pending) = Rate THEN UpdateState(filled) ELSE filled

PutAll(t, values) == FoldLeft(PutOne, t, values)

\* What get_state leaves; what it returns are the lanes of its state.
Flushed(t) == IF t.pending # <<>> THEN UpdateState(t) ELSE t

Refilled(t) == IF t.cursor = 0 THEN UpdateState(t) ELSE t

\* get_fields1, n times in a row: the transcript after it and the elements.
SqueezeOne(r, i) ==
    LET ready == Refilled(r.t)
    IN  [t    |-> [ready EXCEPT !.cursor = @ - 1],
         read |-> Append(r.read, Lane(ready.out, (Width - ready.cursor) % Width))]

Squeeze(t, n) == FoldLeft(SqueezeOne, [t |-> t, read |-> <<>>], [i \in 1..n |-> i])

\* Mutant: one element more when the bits fill the elements.
FieldsForOneMore(n, bits) == (n * bits) \div QueryBits + 1

\* get_permutations: the elements it takes, and the bits of them that make up
\* the queries, as pairs <<element, bit>>.
FieldsFor(n, bits) == ((n * bits - 1) \div QueryBits) + 1

TakeBit(c, i) ==
    LET last == c.bit + 1 = QueryBits
    IN  [bits  |-> Append(c.bits, <<c.field, c.bit>>),
         bit   |-> IF last THEN 0 ELSE c.bit + 1,
         field |-> IF last THEN c.field + 1 ELSE c.field]

QueryBitsOf(fields, n, bits) ==
    LET taken == FoldLeft(TakeBit, [bits |-> <<>>, bit |-> 0, field |-> 1],
                          [i \in 1..(n * bits) |-> i]).bits
    IN  [i \in 1..(n * bits) |-> <<fields[taken[i][1]], taken[i][2]>>]

\* Mutant: whole blocks get a block of padding.
TranscriptHashPaddingAlways(values) ==
    LET padded == values \o [i \in 1..(Rate - (Len(values) % Rate)) |-> Zero]
    IN  Lanes([j \in 1..(Len(padded) \div Rate) |->
                 SubSeq(padded, (j - 1) * Rate + 1, j * Rate)], Digest)

\* transcript_hash: one scan over whole blocks, no transcript object.
TranscriptHash(values) ==
    IF values = <<>>
    THEN Lanes(<<>>, Digest)
    ELSE LET padded == values \o [i \in 1..(((0 - Len(values)) % Rate)) |-> Zero]
             Block(j) == SubSeq(padded, (j - 1) * Rate + 1, j * Rate)
         IN  Lanes([j \in 1..(Len(padded) \div Rate) |-> Block(j)], Digest)

\* absorb_section: the limbs of a proof section, or their digest.
Section(values, hashed) == IF hashed THEN TranscriptHash(values) ELSE values

\* Crossing a jit boundary: leaves and static data out, a new object back.
Flatten(t) == [leaves |-> <<t.state, t.out, t.pending>>, aux |-> t.cursor]
Unflatten(f) == [state |-> f.leaves[1], out |-> f.leaves[2],
                 pending |-> f.leaves[3], cursor |-> f.aux]

-----------------------------------------------------------------------------
VARIABLES
    t,          \* the transcript object in use
    inZone,     \* it is the copy a jit zone works on
    segments,   \* history: what was absorbed and how much read since, in turn
    squeezed,   \* history: the elements squeezed, each with its place
    queried     \* history: the bits of the last queries

vars == <<t, inZone, segments, squeezed, queried>>

Init ==
    /\ t = Fresh
    /\ inZone = FALSE
    /\ segments = <<[absorbed |-> <<>>, read |-> 0, open |-> TRUE]>>
    /\ squeezed = <<>>
    /\ queried = <<>>

TotalPuts  == FoldLeft(LAMBDA n, s : n + Len(s.absorbed), 0, segments)
TotalReads == Len(squeezed)

Absorbing(values) ==
    LET last == segments[Len(segments)]
    IN  segments' = IF values = <<>> THEN segments
                    ELSE IF last.open
                    THEN [segments EXCEPT ![Len(segments)].absorbed = @ \o values]
                    ELSE Append(segments, [absorbed |-> values, read |-> 0, open |-> TRUE])

Reading(elements) ==
    LET k == Len(segments)
        r == segments[k].read
    IN  /\ squeezed' = squeezed \o
              [i \in 1..Len(elements) |-> [value |-> elements[i], seg |-> k, nth |-> r + i]]
        /\ segments' = [segments EXCEPT ![k].read = @ + Len(elements), ![k].open = FALSE]

Put(values, hashed) ==
    /\ TotalPuts + Len(Section(values, hashed)) <= MaxPuts
    /\ t' = PutAll(t, Section(values, hashed))
    /\ Absorbing(Section(values, hashed))
    /\ UNCHANGED <<inZone, squeezed, queried>>

GetState ==
    /\ t' = Flushed(t)
    /\ segments' = IF t.pending # <<>> THEN [segments EXCEPT ![Len(segments)].open = FALSE]
                                       ELSE segments
    /\ UNCHANGED <<inZone, squeezed, queried>>

GetField ==
    LET r == Squeeze(t, Limbs)
    IN  /\ TotalReads + Limbs <= MaxReads
        /\ t' = r.t
        /\ Reading(r.read)
        /\ UNCHANGED <<inZone, queried>>

GetPermutations(n, bits) ==
    LET r == Squeeze(t, FieldsFor(n, bits))
    IN  /\ TotalReads + FieldsFor(n, bits) <= MaxReads
        /\ t' = r.t
        /\ Reading(r.read)
        /\ queried' = [from |-> TotalReads + 1, took |-> FieldsFor(n, bits),
                       bits |-> QueryBitsOf(r.read, n, bits)]
        /\ UNCHANGED inZone

EnterZone == /\ ~inZone
             /\ inZone' = TRUE
             /\ t' = Unflatten(Flatten(t))
             /\ UNCHANGED <<segments, squeezed, queried>>

LeaveZone == /\ inZone
             /\ inZone' = FALSE
             /\ t' = Unflatten(Flatten(t))
             /\ UNCHANGED <<segments, squeezed, queried>>

Batches == { <<>> } \cup { <<Const(v)>> : v \in Values }
                    \cup { <<Const(v), Const(w)>> : v, w \in Values }

Next ==
    \/ \E values \in Batches, hashed \in BOOLEAN : Put(values, hashed)
    \/ GetState
    \/ GetField
    \/ \E q \in Queries : GetPermutations(q[1], q[2])
    \/ EnterZone
    \/ LeaveZone

Spec == Init /\ [][Next]_vars

-----------------------------------------------------------------------------
(* What the buffers promise, from the history alone.                       *)

Chunks(values) ==
    [j \in 1..((Len(values) + Rate - 1) \div Rate) |->
        ZeroPadded(SubSeq(values, (j - 1) * Rate + 1,
                          IF j * Rate < Len(values) THEN j * Rate ELSE Len(values)))]

\* The blocks a segment permutes by the time n of its elements are read: its
\* absorbs, padded, and a block of zeros whenever the lanes have run out.
Idle(n) == [i \in 1..n |-> ZeroPadded(<<>>)]
BlocksOf(s, n) ==
    IF s.absorbed = <<>>
    THEN Idle((n + Width - 1) \div Width)
    ELSE Chunks(s.absorbed) \o Idle(IF n = 0 THEN 0 ELSE (n - 1) \div Width)

BlocksBefore(k) ==
    FoldLeft(LAMBDA b, i : b \o BlocksOf(segments[i], segments[i].read),
             <<>>, [i \in 1..(k - 1) |-> i])

StreamElement(k, n) ==
    Lane(BlocksBefore(k) \o BlocksOf(segments[k], n), (n - 1) % Width)

IsSequence(s) == Len(s) \in Nat /\ s = [i \in 1..Len(s) |-> s[i]]

\* An object of the class: pending is short of a block, the state made of whole
\* ones.
WellFormed(u) ==
    /\ DOMAIN u = {"state", "out", "pending", "cursor"}
    /\ u.cursor \in 0..Width
    /\ IsSequence(u.pending) /\ Len(u.pending) < Rate
    /\ IsSequence(u.state) /\ \A j \in DOMAIN u.state : Len(u.state[j]) = Rate

TypeOK ==
    /\ WellFormed(t)
    /\ inZone \in BOOLEAN
    /\ IsSequence(segments) /\ Len(segments) > 0
    /\ \A k \in DOMAIN segments :
          /\ DOMAIN segments[k] = {"absorbed", "read", "open"}
          /\ IsSequence(segments[k].absorbed)
          /\ segments[k].read \in Nat /\ segments[k].open \in BOOLEAN
    /\ IsSequence(squeezed)

(***************************************************************************)
(* A squeezed element is the lane its place in the stream of absorbs and   *)
(* squeezes gives it, and so depends on every element absorbed before it:  *)
(* no leftover output survives an absorb, no pending absorb is skipped,    *)
(* and how callers batch their puts or cross jit zones makes no difference *)
(* (transcript.put, get_fields1, _transcript_flatten).                     *)
(***************************************************************************)
SqueezesAreTheStream ==
    \A i \in DOMAIN squeezed :
        squeezed[i].value = StreamElement(squeezed[i].seg, squeezed[i].nth)

-----------------------------------------------------------------------------
(* What these rest on (module TranscriptProofs).                           *)

\* The first q whole blocks of values.
Whole(values, q) == [j \in 1..q |-> SubSeq(values, (j - 1) * Rate + 1, j * Rate)]

\* The first n of values are absorbed since the blocks before: as many whole
\* blocks are permuted, the rest is pending.
Holds(u, before, values, n) ==
    /\ u.state = before \o Whole(values, n \div Rate)
    /\ u.pending = SubSeq(values, (n \div Rate) * Rate + 1, n)

\* And none of them squeezed over: there are lanes to read if the last of them
\* ended a block.
Filled(u, before, values, n) ==
    /\ Holds(u, before, values, n)
    /\ u.cursor = IF n > 0 /\ n % Rate = 0 THEN Width ELSE 0
    /\ u.cursor > 0 => u.out = u.state

\* All of a segment is permuted, and n lanes are read since.
Drained(u, before, s, n) ==
    /\ s.absorbed # <<>> \/ n > 0
    /\ u.state = before \o BlocksOf(s, n)
    /\ u.pending = <<>>
    /\ u.cursor = IF n = 0 THEN Width ELSE (0 - n) % Width
    /\ u.cursor > 0 => u.out = u.state

\* The buffers hold the place in the stream that the history gives.
BuffersFollowTheStream ==
    LET k == Len(segments)
        s == segments[k]
    IN  IF s.open
        THEN s.read = 0 /\ Filled(t, BlocksBefore(k), s.absorbed, Len(s.absorbed))
        ELSE Drained(t, BlocksBefore(k), s, s.read)

\* Each element squeezed has a place of its own among those read.
SqueezesHavePlaces ==
    /\ \A i \in DOMAIN squeezed :
          /\ squeezed[i].seg \in DOMAIN segments
          /\ squeezed[i].nth \in 1..segments[squeezed[i].seg].read
    /\ \A i, j \in DOMAIN squeezed :
          squeezed[i].seg = squeezed[j].seg /\ squeezed[i].nth = squeezed[j].nth => i = j
    /\ squeezed = <<>> => segments[Len(segments)].read = 0

IInv == TypeOK /\ BuffersFollowTheStream /\ SqueezesHavePlaces /\ SqueezesAreTheStream

(***************************************************************************)
(* No two squeezes return the same lane of the same state, however long    *)
(* the reader goes on without an absorb (get_fields1 past Width lanes).    *)
(***************************************************************************)
NoLaneSqueezedTwice == IsInjective([i \in DOMAIN squeezed |-> squeezed[i].value])

\* The transcript squeezes the sponge's stream and no lane of it twice, however
\* puts and squeezes alternate.
LanesAreTheStream == IInv /\ NoLaneSqueezedTwice

(***************************************************************************)
(* The compiled scan over a section's blocks gives the digest the eager    *)
(* transcript gives: whole blocks take no extra permutation, a short tail  *)
(* is padded, an empty section is the zero digest (transcript_hash).       *)
(***************************************************************************)
ScanMatchesEagerHash ==
    Len(segments) = 1 /\ squeezed = <<>> =>
        TranscriptHash(segments[1].absorbed) = Lanes(Flushed(t).state, Digest)

(***************************************************************************)
(* The queries are the used bits of the squeezed elements in order, least  *)
(* significant first, across element boundaries, each taken once, none of  *)
(* an element's unused bits, and no element squeezed that gives no bit     *)
(* (get_permutations).                                                     *)
(***************************************************************************)
QueriesReadTheStreamInOrder ==
    queried # <<>> =>
        /\ IsSequence(queried.bits)
        /\ queried.from \in Nat \ {0} /\ queried.from + queried.took - 1 <= Len(squeezed)
        /\ queried.took = (Len(queried.bits) + QueryBits - 1) \div QueryBits
        /\ \A i \in DOMAIN queried.bits :
              queried.bits[i] = <<squeezed[queried.from + ((i - 1) \div QueryBits)].value,
                                  (i - 1) % QueryBits>>
=============================================================================
