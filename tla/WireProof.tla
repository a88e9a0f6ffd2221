----------------------------- MODULE WireProof -----------------------------
(***************************************************************************)
(* The flat wire proof and what wraps it: how its sections are laid out    *)
(* (harness/proof_serializer.py) and found again                           *)
(* (harness/verify_proof_layout.py), the zkin vectors of the recursion     *)
(* circuits built from it (harness/zkin.py), and the proof.bin envelope    *)
(* (harness/proof_bin.py).                                                 *)
(*                                                                         *)
(* A key `si` is a record: airgroup and airValues (their stages), nStages, *)
(* nEvals, nConstants, customs and sections (widths), steps (their bits),  *)
(* arity's log2, llv and nQueries.                                         *)
(***************************************************************************)
EXTENDS Packing

CONSTANTS Digest,   \* words of a digest
          WordMod,  \* the field's modulus
          ByteBase  \* values of a byte

ASSUME WireAssumption == Digest \in Nat \ {0} /\ WordMod \in Nat \ {0} /\ ByteBase \in Nat \ {0}

\* _n_siblings: the levels of a path before the last level kept.
NSiblings(bits, si) == CeilDiv(bits, si.arityBits) - si.llv

\* Mutant: a digest short of the cap.
LastLevelNodesUnpadded(bits, si) == Min({ 2^bits, 2^(si.arityBits * si.llv) })

LastLevelNodes(bits, si) == 2^(si.arityBits * si.llv)

\* _last_level: the level it takes, and its words, padded to the cap.
LastLevelAt(bits, si) ==
    LET cap == 2^(si.arityBits * si.llv)
        nodes[level \in 0..bits] ==
          IF level = 0 THEN 2^bits ELSE CeilDiv(nodes[level - 1], 2^si.arityBits)
    IN  CHOOSE level \in 0..bits :
           /\ nodes[level] <= cap
           /\ \A below \in 0..(level - 1) : nodes[below] > cap

LastLevelWords(bits, si) == IF si.llv = 0 THEN 0 ELSE LastLevelNodes(bits, si) * Digest

\* A section is its name and its words; what stands for a word is its place.
Section(name, n) == [k \in 1..n |-> << name, k >>]

\* A tree opened: the rows, the paths cut to their siblings, the last level.
TreeBlock(name, width, bits, si) ==
    Section(name \o <<"rows">>, si.nQueries * width)
    \o Section(name \o <<"paths">>, si.nQueries * NSiblings(bits, si) * (2^si.arityBits - 1) * Digest)
    \o Section(name \o <<"last">>, LastLevelWords(bits, si))

Openings(si) ==
    FlattenSeq([c \in DOMAIN si.customs |-> TreeBlock(<<"custom", c>>, si.customs[c], si.steps[1], si)])
    \o FlattenSeq([s \in DOMAIN si.sections |-> TreeBlock(<<"cm", s>>, si.sections[s], si.steps[1], si)])

FriWidth(si, k) == 3 * 2^(si.steps[k - 1] - si.steps[k])

\* serialize_proof; a cubic word of a value is its entry and its limb.
SerializeProof(si) ==
    Section(<<"airgroup", 0>>, 3 * Len(si.airgroup))
    \o Section(<<"air", 0>>, 3 * Len(si.airValues))
    \o FlattenSeq([s \in 1..(si.nStages + 1) |-> Section(<<"root", s>>, Digest)])
    \o Section(<<"evals", 0>>, 3 * si.nEvals)
    \o TreeBlock(<<"const", 0>>, si.nConstants, si.steps[1], si)
    \o Openings(si)
    \o FlattenSeq([k \in DOMAIN Tail(si.steps) |-> Section(<<"friroot", k + 1>>, Digest)])
    \o FlattenSeq([k \in DOMAIN Tail(si.steps) |->
                     TreeBlock(<<"fri", k + 1>>, FriWidth(si, k + 1), si.steps[k + 1], si)])
    \o Section(<<"final", 0>>, 3 * 2^Last(si.steps))
    \o Section(<<"nonce", 0>>, 1)

-----------------------------------------------------------------------------
(* parse_proof                                                             *)

Tree(width, bits, si) ==
    si.nQueries * width + si.nQueries * NSiblings(bits, si) * (2^si.arityBits - 1) * Digest
    + (IF si.llv = 0 THEN 0 ELSE 2^(si.arityBits * si.llv) * Digest)

Total(seq) == FoldLeft(LAMBDA a, b : a + b, 0, seq)

ParseProof(si, buf) ==
    LET roots == 3 * (Len(si.airgroup) + Len(si.airValues))
        evals == roots + (si.nStages + 1) * Digest
        openings == evals + 3 * si.nEvals
    IN  [airgroup |-> SubSeq(buf, 1, 3 * Len(si.airgroup)),
         roots |-> [s \in 1..(si.nStages + 1) |->
                      SubSeq(buf, roots + (s - 1) * Digest + 1, roots + s * Digest)],
         evals |-> SubSeq(buf, evals + 1, openings),
         consumed |-> openings
             + Tree(si.nConstants, si.steps[1], si)
             + Total([c \in DOMAIN si.customs |-> Tree(si.customs[c], si.steps[1], si)])
             + Total([s \in DOMAIN si.sections |-> Tree(si.sections[s], si.steps[1], si)])
             + (Len(si.steps) - 1) * Digest
             + Total([k \in 1..(Len(si.steps) - 1) |->
                        Tree(FriWidth(si, k + 1), si.steps[k + 1], si)])
             + 3 * 2^Last(si.steps) + 1]

-----------------------------------------------------------------------------
(* zkin.py: a child is << head, proof >>, or NoChild.                      *)

NoChild == <<>>
RefusedZkin == <<"refused">>

Canon(v) == IF v >= WordMod THEN v - WordMod ELSE v
CanonAll(words) == [k \in DOMAIN words |-> Canon(words[k])]

\* subtree_head: the lead, a zero, the sums of the subtree's values.
SubtreeHead(basics, lead) ==
    LET sum(field, k) == FoldLeft(LAMBDA acc, b : (acc + b[field][k]) % WordMod, 0, basics)
    IN  lead \o << 0 >>
        \o [k \in DOMAIN basics[1].airgroupvalue |-> sum("airgroupvalue", k)]
        \o [k \in DOMAIN basics[1].contribution |-> sum("contribution", k)]

\* node_zkin: equal widths, an absent child zero-filled.
NodeZkin(prefix, segments) ==
    LET present == { k \in DOMAIN segments : segments[k] # NoChild }
        width(k) == Len(segments[k][1]) + Len(segments[k][2])
        widths == { width(k) : k \in present }
    IN  IF Cardinality(widths) # 1 THEN RefusedZkin
        ELSE prefix \o FlattenSeq([k \in DOMAIN segments |->
               IF k \in present THEN segments[k][1] \o CanonAll(segments[k][2])
               ELSE [x \in 1..Max(widths) |-> 0]])

LeafZkin(prefix, proof) == prefix \o CanonAll(proof)
CompressedLeafZkin(head, prefix, proof) == head \o prefix \o CanonAll(proof)

-----------------------------------------------------------------------------
(* proof_bin.py: the six highest bytes are not values of their own; four   *)
(* of them mark two, four, eight and sixteen bytes.                        *)

\* Little-endian, n bytes.
LeBytes(v, n) == [k \in 1..n |-> (v \div ByteBase^(k - 1)) % ByteBase]
FromLe(bytes) == FoldRight(LAMBDA b, acc : acc * ByteBase + b, bytes, 0)

Marker(b) == b - (ByteBase - 5) + 1
MarkedBytes == << 2, 4, 8, 16 >>

SingleByte(v) == v <= ByteBase - 6

EncodeVarint(v) ==
    IF SingleByte(v) THEN << v >>
    ELSE LET k == IF v < ByteBase^2 THEN 1 ELSE IF v < ByteBase^4 THEN 2 ELSE 3
         IN  << ByteBase - 6 + k >> \o LeBytes(v, MarkedBytes[k])

Truncated == [ok |-> FALSE]

\* _decode_varint at a position from 1: the value and the next position.
DecodeVarint(buf, pos) ==
    IF pos > Len(buf) THEN Truncated
    ELSE IF SingleByte(buf[pos]) THEN [ok |-> TRUE, value |-> buf[pos], next |-> pos + 1]
    ELSE IF Marker(buf[pos]) \notin DOMAIN MarkedBytes THEN Truncated
    ELSE LET n == MarkedBytes[Marker(buf[pos])]
         IN  IF pos + n > Len(buf) THEN Truncated
             ELSE [ok |-> TRUE, value |-> FromLe(SubSeq(buf, pos + 1, pos + n)),
                   next |-> pos + n + 1]

Encode(words, trailer) ==
    << 0 >> \o EncodeVarint(Len(words))
    \o FlattenSeq([k \in DOMAIN words |-> EncodeVarint(words[k])]) \o trailer

\* decode: the lead, the count, the words, and the rest as it is.
Decode(buf) ==
    IF buf = << >> \/ buf[1] # 0 THEN Truncated
    ELSE LET count == DecodeVarint(buf, 2)
         IN  IF ~count.ok THEN Truncated
             ELSE IF count.value > Len(buf) - count.next + 1 THEN Truncated
             ELSE LET step(st, k) ==
                        IF ~st.ok THEN st
                        ELSE LET v == DecodeVarint(buf, st.next)
                             IN IF v.ok THEN [ok |-> TRUE, words |-> Append(st.words, v.value),
                                              next |-> v.next]
                                ELSE Truncated
                      end == FoldLeft(step, [ok |-> TRUE, words |-> << >>, next |-> count.next],
                                      [k \in 1..count.value |-> k])
                  IN  IF end.ok THEN [ok |-> TRUE, words |-> end.words,
                                      trailer |-> SubSeq(buf, end.next, Len(buf))]
                      ELSE Truncated
=============================================================================
