---------------------------- MODULE FifoAdmission ----------------------------
(***************************************************************************)
(* What the admission to a PJRT client promises (bridge/src/lib.rs, the    *)
(* comments of `Pending` and `Queue::admits`), without tickets and without *)
(* a condition variable: instances are let in strictly in the order they   *)
(* came, at most Cap at a time, and so that whichever of those inside is   *)
(* the one proving, the others have at most Budget bytes of uploads.       *)
(***************************************************************************)
EXTENDS Naturals, Sequences, FiniteSets, FiniteSetsExt

CONSTANTS Instances,  \* the instances proofman hands over
          Uploads,    \* Uploads[i]: the device bytes of i's inputs
          Cap,        \* ZZ_PENDING: instances inside at once
          Budget      \* ZZ_PENDING_BYTES: bytes beside the running prove

VARIABLES line,    \* the instances waiting, first come first
          inside   \* the instances let in and not gone

vars == <<line, inside>>

BytesOf(S) == MapThenSumSet(LAMBDA i : Uploads[i], S)

\* Whichever member of S proves, the others fit the budget beside it.  One
\* instance alone always fits.
FitsTogether(S) ==
    /\ Cardinality(S) <= Cap
    /\ \A p \in S : BytesOf(S \ {p}) <= Budget

Init == line = <<>> /\ inside = {}

InLine == {line[k] : k \in 1 .. Len(line)}

\* An instance that arrives joins the end of the line, ...
Arrive(i) ==
    /\ i \in Instances \ (inside \cup InLine)
    /\ line' = Append(line, i)
    /\ UNCHANGED inside

\* ... or passes straight through when there is no line and it fits.
PassThrough(i) ==
    /\ i \in Instances \ inside
    /\ line = <<>>
    /\ FitsTogether(inside \cup {i})
    /\ inside' = inside \cup {i}
    /\ UNCHANGED line

\* Only the first in line is let in.
LetIn ==
    /\ line # <<>>
    /\ FitsTogether(inside \cup {Head(line)})
    /\ inside' = inside \cup {Head(line)}
    /\ line' = Tail(line)

Leave(i) ==
    /\ i \in inside
    /\ inside' = inside \ {i}
    /\ UNCHANGED line

Next ==
    \/ \E i \in Instances : Arrive(i) \/ PassThrough(i) \/ Leave(i)
    \/ LetIn

Spec == Init /\ [][Next]_vars
=============================================================================
