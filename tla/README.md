# A formal model of zisk-zorch

zisk-zorch proves ZisK's AIRs on an accelerator. Python (`zisk_zorch/`) writes
each AIR's prover as a set of programs; `zisk_zorch.export` lowers them to
StableHLO artifacts with a manifest; and the Rust bridge (`bridge/src/`) sits
behind proofman's prove hook, compiles the programs for the machine's PJRT
clients and drives them, one prove after another, from many threads. A second
prover in Python, the byte-match harness, runs the same programs role by role,
and an inner prover with its verifier closes the protocol over one transcript.
This directory holds TLA+ modules of both sides, the TLC configurations that
check them, and TLAPS proofs.

Run `tlc -config X.cfg M` for a run named below and `tlapm M.tla` for a module
of proofs.

## 1. Inventory

Paths are relative to the repository's root. "Hard" says what makes the part
hard to test.

### The bridge (Rust, `bridge/src/`)

| part | state it keeps | operations |
|---|---|---|
| **Gate** of a client (`artifact.rs`) | `loads_in_flight`, `proving`, `proves_waiting`, `started_proving` under one mutex, one condition variable | `enter_load`, `enter_prove`, drop of `GatePass`, the look at `started_proving` (`has_started_proving`) |
| **Pending**, the admission to a client (`lib.rs`) | the admitted (ticket, uploads), `next`, `serving` under one mutex, one condition variable | `acquire`, `try_acquire`, drop of `PendingPass`, `queued`, `pending` |
| **Prove path** of a client (`lib.rs` `prove_owned`, `FixedAhead`, `AheadFixed`; `driver.rs` `set_fixed`, `drop_fixed`) | the slot: its drivers, each with or without its fixed sections, and the stamps of their last use; the residency mirror; the read-ahead's permit; the plan | `prove_async`, `prove_owned`, `read_ahead_fixed`, `FixedAhead::plan / installed / evicted`, `set_plan`, `keeps_fixed` |
| **Loading** (`lib.rs` `artifact`, `PreloadQueue`, `preload_with`, `slot_index`; `artifact.rs` `compile_all`, `executable`, `CacheEntryLock`) | per client the AIRs ready and in flight; the shared work list and its number of workers; the files of the executable cache and the locks of its entries | `Bridge::global`, `set_plan`, `preload`, `artifact`, `executable` |
| **Executable cache** (`artifact.rs`) | the files `<name>-<key>.pjrt` of an artifact and their temporaries, shared by processes | read, deserialize, remove, write aside, rename |
| **Prove schedule** (`driver.rs` `AirDriver::prove`) | the environment of named device buffers, the transcript, the proof buffer | about forty program runs, their absorbs, squeezes and downloads |
| **Host transcript** (`transcript.rs`, twin of `zisk_zorch/transcript/`) | sponge state, pending inputs, outputs left | `put`, `get_field`, `get_permutations` |
| **A/B gate** (`ab.rs`) | bridge proofs and pil2 proofs that have not met yet, verdict counts | `record`, `check`, `compare` |
| **Trace unpacking** (`lib.rs`) | none | `unpack_trace`, `copy_canonical`, `tiled_to_row_major` |
| manifest, memory log, NVTX ranges, `bin/zz_prove.rs` | parsed JSON; a registry of live buffers; none; none | lookups; register and report; ranges; a command line |

How they interact. proofman calls `prove_async`, which hands an owned request
to a thread; the thread picks a client (`slot_index`), gets the AIR's programs
(`artifact`, which loads them through the client's gate if nobody has), passes
the admission (`Pending::acquire`), uploads its inputs, may read and upload the
AIR's fixed sections ahead of its turn (`FixedAhead`), takes the client's slot
(a mutex) and then the gate (`enter_prove`), evicts other AIRs' sections,
installs its own, proves, and drops gate, slot and admission in that order
before it calls `done`. Preload workers call `artifact` at the same time. The
plan arrives by `set_plan` whenever proofman has it.

Hard: two condition variables with conditions over several counters; a mirror
and a permit read outside the lock that orders the proves; loads and proves
excluding one another while both wait for other things; workers that retire
while work is pushed; panics of the plugin that unwind out of any of it; and
what must eventually happen through all of that.

What makes each part correct:

- **Gate**: a prove has the plugin alone; a waiting prove is not overtaken by
  loads; nobody sleeps on a true condition; everybody gets in.
- **Pending**: strictly first come first served, at most `ZZ_PENDING` inside,
  and whichever of them proves, the others' uploads fit `ZZ_PENDING_BYTES`;
  nobody waits for ever, the instance larger than the budget included.
- **Prove path**: a prove finds its AIR's sections however stale its glance at
  the mirror was; the sections on the card stay within the knobs; the permit
  always comes back; the mirror is right between proves; every instance ends.
- **Loading**: one load per client and AIR, one compile per cache entry; the
  planned AIRs load although the client proves and the background ones do not
  stand in a prove's way; no thread waits for a load that ended.
- **Executable cache**: a torn or foreign file is never run.
- **Prove schedule**: every absorb and squeeze in the verifier's order; no
  buffer used after its last reader; fixed sections handed back or released.

### The provers in Python (`zisk_zorch/`)

| part | state it keeps, or what it computes | hard |
|---|---|---|
| **Export** (`export/stages.py`, `export/replay.py`) | the programs of an AIR with the names of their inputs and outputs; a replay that runs them | the names bind three schedules to each other: `driver.rs`, `replay.py` and the harness |
| **Transcript** (`transcript/`) | sponge state, pending inputs, output lanes left | puts and squeezes in any order, whole blocks, jit boundaries, bits that run across elements |
| **Byte-match harness** (`harness/pil2_prover.py`, `schedule.py`) | a generator of claims, the transcript, the key's sections on the device | may be let go at any yield; same bytes as pil2 |
| **FRI** (`fri/`) | folding, grinding, queries, prover, verifier | index and domain arithmetic |
| **Inner prover and verifier** (`prover.py`, `verifier.py`, `opening/`, `quotient/`, `deep/`) | a proof and its replay | both must rebuild one transcript and four descriptions of one coset |
| **Domains** (`commit/trace_commit.py`, `quotient/zerofier.py`, `quotient/compute_q.py`, `evals/lev.py`) | extension, zerofiers, split, opening weights | shifts and strides |
| **Block composite** (`harness/block_composite.py`, `contributions.py`, `global_constraints.py`, `staging.py`) | host traces, staged uploads, provers and their key sections, shape constants, contributions, seed, airgroup values | residency over four phases; the seed must cover the whole block |
| **Continuation** (`constraints/continuation.py`) | bus updates between Main segments | the first, last and only segments differ |
| **Constraint code and LogUp** (`quotient/cexp_ref.py`, `quotient/reauthor.py`, `logup/bus.py`) | values over all rows or a window | windows clip, rotations wrap |
| **Recursion** (`harness/recursion.py`) | a witness, its placement on the device | waves of adds; a stale placement |
| **Packing and wire** (`harness/pil2.py`, `capture.py`, `proof_serializer.py`, `verify_proof_layout.py`, `zkin.py`, `proof_bin.py`, `constraints/preprocessed.py`) | layouts written and read back | sizes computed twice, padding at the boundaries |
| `poseidon1/`, `poseidon2/`, `constraints/chip_loader.py`, gates and verifications of the harness, `bridge/bench/`, `tools/`, `scripts/` | kernels, I/O, reports, fixtures | not modelled, see section 6 |

What makes them correct:

- **Schedules**: every absorb and squeeze in the verifier's order; every program
  gets the value the schedule means and finds it still there; the proof is whole
  and in pil2's order; the key's sections outlive the prove that keeps them.
- **Transcript**: every squeezed element is its own place in one stream,
  whatever the puts' batching.
- **FRI and inner proof**: true proofs are accepted, false and altered ones are
  not; every hand-over between stages is one polynomial's values.
- **Block**: every proof is made under the seed of the whole block, and the
  block balances exactly when it is one execution; memory follows the phase.
- **Algorithms**: windows, waves and blocks give what the plain definition gives,
  and what is packed reads back.

`PROJECT.json` lists every part with its status and every hazard with its line.

## 2. The modules

### The bridge

| module | models | built on |
|---|---|---|
| `PluginExclusion` | what the gate promises: loads share, proves exclude, no load joins once a prove asked. No counter, lock or condition variable | |
| `Gate` | `Gate`, `GateState`, `GatePass` | refines `PluginExclusion` |
| `FifoAdmission` | what the admission promises: a line and a set of those inside | |
| `Pending` | `Pending`, `Queue`, `PendingPass` | refines `FifoAdmission` |
| `ClientProve` | one client's proves from hand-over to completion | uses `FifoAdmission` for its admission |
| `Loading` | programs onto clients, all clients of one process | uses the gate as `PluginExclusion` describes it |
| `ExecutableCache` | the files of one cache entry, between processes | |
| `GateProofs`, `PendingProofs`, `ClientProveProofs` | TLAPS proofs of these | |
| `LoadingProofs` | TLAPS proofs of `Loading` and of `ExecutableCache` | |
| `FiniteFacts` | lemmas the proofs share: induction on finite sets and up to a number, sums, counting | |

### One instance's prove

| module | models | built on |
|---|---|---|
| `AirPrograms` | the programs of an AIR, their inputs and outputs (`export/stages.py`) | |
| `Replay` | the schedule as tables: the value every program gets for every input, the transcript's order, the wire's order (`export/replay.py`, `harness/schedule.py`, `proof_serializer.py`) | `AirPrograms` |
| `GenProof` | what a prove promises, whoever runs the programs: the tables are kept, nothing is used before it exists | the tables of `Replay`, as parameters |
| `AirDriver` | `AirDriver::prove`, `set_fixed`, `drop_fixed` of `driver.rs` | refines `GenProof` |
| `AirDriverProofs` | TLAPS proofs of it | `FiniteFacts` |
| `Pil2InnerProver` | the roles of `harness/pil2_prover.py` | refines `GenProof` |
| `Transcript` | `transcript/transcript.py` and its twin `transcript.rs` | |
| `TranscriptProofs` | TLAPS proofs of it, of the grinding and of `Recursion` | `FiniteFacts` |

### The mathematics, over small fields

| module | models | built on |
|---|---|---|
| `PrimeField` | the field, its roots of unity and the coset shift | |
| `Fri` | folding, grinding, query draw, FRI prover and verifier | `PrimeField` |
| `Domains` | extensions, zerofiers, quotient split, opening weights | `PrimeField` |
| `InnerProof` | the inner prover and the verifier | `Fri`, `Domains` |
| `Cexp` | the interpreter of constraint code, by row windows | `Domains` |
| `LogUp` | the bus columns, the re-authored quotients of Arith and Binary, the stage-2 section from the hints | `Cexp` |

### Blocks, recursion, layouts

| module | models | built on |
|---|---|---|
| `Continuation` | the direct and global bus updates of Main segments | |
| `BlockComposite` | `prove_block` and what it keeps resident | `Continuation` |
| `BlockCompositeProofs` | TLAPS proofs of it | `FiniteFacts` |
| `Recursion` | a `CircomCalc`: the waves of its adds, the traces asked of it, the placement it keeps uploaded | |
| `Packing` | value sections, windows, tiles, fixed columns | |
| `WireProof` | the flat proof, its parse, the recursion's inputs, `proof.bin` | `Packing` |

`MC*` modules instantiate these for TLC. Where one run covers two settings, the
second is an `INSTANCE` over variables of its own and a variable `setting` chooses
at the start (`MCLoading`, `MCSchedule`; in `MCAlgorithms` one kind of `input` is a calculator that is asked; `MCClientResidency` switches the plan
and the policy of one set of variables).

The abstract modules are the interfaces. `Gate` and `Pending` are shown to keep
theirs, and the larger modules use the promise in place of the detail, which is
why they can afford three or four threads. `GenProof` is the interface of a
prove: two programs written apart, in two languages, are shown to implement it.

### How state and actions correspond to the code

**Gate.** The four variables are the fields of `GateState`; `pc` says where each
thread is: `out`, asleep (`parked`), runnable after a wake-up (`awake`), or
holding a pass (`in`). One critical section of the mutex is one action:
`EnterLoad`/`EnterProve` are the calls up to the sleep or the return,
`Recheck*` is the `while` condition after a wake-up, `Leave*` is the drop of the
pass with its `notify_all`. `SpuriousWakeup` is what std allows a condition
variable to do. `enter_prove` counts itself in `proves_waiting` and tests under
one lock, so both are one step.

**Pending.** As above, with the tickets. The drop of a pass is two steps,
because the code releases the lock before it notifies: `DropPass`, then
`NotifyAfterDrop`. `try_acquire` is called on the permit of the read-ahead
only, a pool of its own that nobody waits on, with uploads of zero bytes: there
it is a count against a ceiling, and it is modelled as such in `ClientProve`.

**ClientProve.** `line` and `inside` are the admission. `slot` is the holder of
the slot's mutex; any waiter may get it. `fixed` says which drivers hold their
sections, `lastUsed` and `tick` are `Slot.last_used` and `Slot.tick`, `mirror` is
`FixedAhead.resident`, `permits` are the passes of `FixedAhead.permit`, `ahead`
is what a prove brings to the slot (nothing, the words read, or the buffers
uploaded), `releases` are the proves whose residency is `Release`, and `plan`
is `Bridge.plan`. The labels of `pc`, in order:

    new -> [in line ->] admitted -> uploaded -> [reading -> [uploading ->]]
    slot wait -> slot -> installed -> ready -> proving -> slot done -> leaving -> done

`TakeSlot` is the locked part up to the residency, entering the gate included:
only the slot's owner asks the gate of its client to prove, and module Gate
shows that it gets in. Each access to the mirror or the permit is its own step,
since those have locks of their own: the glance and the permit (`PlanAhead`),
the hand-back (`DropAhead`, in the step that consumes the sections), and the
two updates under the slot (`MirrorInstall`, `EndProve`). `Faults` selects which
failures may happen: of the input upload, of a read, of the upload ahead, of a
setup program, of the checks between install and prove, and a plugin panic
inside the prove.

**Loading.** `work` and `workers` are `PreloadQueue`, `ready` and `inFlight` are
`Loaded` of every client as pairs, `cache` is the file of each entry, `started`
is the gate's `started_proving`, which `has_started_proving` reads. A thread that loads walks the programs one by one,
each through the gate (`EnterPlugin`), the entry's lock (`TakeEntry`), the file
(`ReadCache`), the compile and the write (`Compile`), and out (`LeavePlugin`).
`compile_all` is modelled with one load thread per artifact, the bridge's
default; a missing program does not stop the others, as in `each_parallel`. A
program's compile failure is a plugin panic, which aborts the load through the
guard that clears the mark. The prove threads ask for their AIR like the
workers do, then take the slot and the gate. `exes` is `Artifact.exes` of what a
client was handed: the prove takes its programs from there, and one that were
missing would be loaded behind the gate the prove itself holds.

**ExecutableCache.** `entry` is the file of one entry, `temps` the temporaries by
the process id in their names, `bytes` what a process has read or serialized. A
file's content is the kind of device it was made for, because the entry's key
(bytecode and plugin) does not say it: a plugin takes its own kind and rejects
another, or a file cut short. What holds a process's threads apart at one entry
is in `Loading`, so a process is one walker here. It is assumed that the ids of
live processes differ, as they do on one machine; ids come back after a death,
and so may the name of a temporary. A process that rejected what it read removes
what has the name by then, which may be a good file: that costs a compile, and
nothing else.

**AirPrograms, Replay, GenProof.** A program is its name with the sets of its
input and output names; a run is a program with the first row of its window; a
value is a run and one of its outputs, or what comes from the host or the
transcript. `Replay` gives, for every run, which value each input must be,
which is what `replay.py` binds: `ArgsOf` by the program's name, with `QuotientWindows`,
`EvalsWindows` and `DeepWindows` for the windows and `FriRounds` for the rounds. `GenProof` lets any subset of the runs whose inputs
exist happen in a step, with any next part of the transcript and the wire in their
order; nothing absorbed may depend on a challenge squeezed after it. It takes the tables as
parameters, so `AirDriver` and `Pil2InnerProver` give it the very operators they are written with.

**AirDriver.** `env` is the environment by name, `fixed` what `set_fixed` left, `keep`
the residency, `pc` and `k` the place in `prove` with its window, commit or round.
One run with its absorbs, squeezes and releases is one action. What a name is
bound to is the value's provenance, so a buffer bound to the wrong output is
seen. `Fail` may come at any place: the environment goes, and with it the sections
of the key that a releasing prove took into it. `ran`, `log` and `wire` are histories that the
properties and the mapping to `GenProof` read.

**Pil2InnerProver.** One role is one action, because the generator yields after each;
`LetGo` is a caller that drops the generator there. A claim is what a role hands
on; the key's sections stay on the device for the next prove.

**Transcript.** The permutation is ideal: a state is the sequence of blocks that
went in, a lane of it a pair. `cursor`, `pending` and `out` are the object's fields;
`EnterZone` and `LeaveZone` are `flatten` and `unflatten` at a jit boundary. The scan of
`transcript_hash` is a fold over whole blocks.

**Fri, Domains, InnerProof.** Goldilocks and its cubic extension are one small prime
field with the same tower of two-adic roots; a root of a tree is the rows it
commits to, so equality of roots is equality of contents. The transcript is an
oracle that answers the prover's own absorbs with a chosen draw and any other
absorbs with another one: a verifier that replays something else gets other
challenges. A proof travels once; on the way one value of any kind may change.
FRI's query phase, the terminal degree test and the grinding are the code's.

**BlockComposite, Continuation.** `pc` walks `prove_block`'s four phases. A commitment
is the trace committed to, a contribution what is hashed into it, an aggregate a
bag. `cached` are host traces, `uploads` staged ones, `provers` the ones alive by family, `sections` the keys
they have on the device, `interned` the shape constants. An airgroup value is
the bag of signed bus updates; a sum vanishes for generic challenges exactly
when the updates cancel.

**Recursion.** A state machine of one calculator: `CalcInit` is `__init__`, which
refuses a circuit whose adds read forward; `CommittedPols` and `CommittedTrace` come
in any order, with any witness, height and width. `waves` is `_add_waves`,
`upload` the placement on the device with its width, `answer` what was asked last and
what came.

**Cexp, LogUp, Packing, WireProof.** Pure functions, one operator per
function of the code, checked against a definition that does not work by
windows, blocks or offsets. `Stage2Columns` is `_logup_columns` from the hints: the `im_col`
columns, the `im_airval` values, the running sum with the direct term of its export or the
running product, the imPol columns, each reading what the hints before it wrote. The two re-authored quotients share
`StdSum`; Binary's has the constraint of the term on one row and the air value in the boundary,
Arith's has neither. What raises in the code is a value of its own (`RefusedQuotient`,
`RefusedStage`): a fixed column with no trace of them, a constraint that does not hold on every row, a product with
a direct term. Left out: Binary's seven row-local constraints, which the code writes by hand, come as blocks of
code; the limbs of a cubic in the committed matrix and in the air values' words (a field element is one
number); hint values with a row offset or of a kind no key has, which raise.

## 3. The runs

| run | instance | what it asks |
|---|---|---|
| `gate` | 2 loads, 2 proves | inductive invariant (exclusion, exact counters, no lost wake-up), no overtaking, refinement of `PluginExclusion`, a prove gets in, loads get in once proves stop |
| `pending` | 6 instances of 1, 1, 1, 1, 3 and 5 bytes, cap 3, budget 3; the sixth comes once the first four have left | order, count, budget, wake-ups, refinement of `FifoAdmission`, everybody is admitted |
| `client_prove` | 3 instances, 2 AIRs, the bridge's defaults (cap 2, read-ahead 1, one resident AIR), every failure and a panic | sections bounded and found, permit returned, everybody completes |
| `client_prove_panic` | the same | **violation**: the mirror stays wrong after the panic |
| `client_residency` | 4 instances, 3 AIRs, 2 resident places; keep everything (cap 3, read-ahead 2), or a plan that counts right (cap 2, read-ahead 1) | least recently used eviction; an AIR the plan names once is gone after its prove; mirror and drivers agree |
| `loading` | 2 clients, 1 AIR, 1 program, 2 workers, 2 prove threads, every load failure; or 1 client, 2 AIRs of 2 programs, background preload then a plan | the loaders' inductive invariant; programs found and compiled once; a prove waits only for programs in flight; completion; planned AIRs arrive although the client proves |
| `executable_cache` | 3 processes, 2 kinds of device, every failure, 1 kill, ids used again | no torn entry, whatever temporaries are left behind; the entry gets good and stays so |
| `schedule` | the driver over 3 shapes of AIR, 2 proves, any failure; the roles over 6 shapes, the recursion's circuits included, 3 proves | inputs still there, claims are the transcript's; each prover refines `GenProof` and its finished proofs are whole |
| `inner_proof` | 17 elements, 8 extended points; FRI over 3 polynomials and 4 schedules, the inner proof over 5 traces (2 false) and 3 schedules, every draw, one value of every kind altered | hand-overs are one polynomial's, acceptance exactly when true, smallest nonce |
| `transcript` | width 3, rate 2, at most 3 puts and 6 reads, two query shapes | the inductive invariant (buffers where the history leaves them), no lane twice, the scan, the query bits |
| `block` | 1 or 2 Main segments of 2 rows over 2 registers, with Binary; grouped and ungrouped; every air value off, an instance missing or twice | the inductive invariant (residency, one seed, order), balance exactly for one execution |
| `algorithms` | field of 97 elements, windows and blocks of every alignment, small keys; or a calculator of a circuit of 2 cells and up to 3 adds, forward ones included, asked for traces of two widths and 1 to 3 rows in any order | re-authored quotients; what stage 2 commits and exports binds the trace, over keys as Arith, Binary, Main and a recursion circuit have; extensions and windows; packings and wire; every trace is what the adds one after the other give, through its own placement |

**Why the bounds are enough.** The gate's threads come back without end and
nothing is counted, so its state space is whole for the number of threads; two
of each kind gives every pair of contenders, and more of a kind adds no new
pair. Pending needs a sum of three terms in `admits` (cap 3), four instances that
fit the budget and not the cap, one that fits beside one other but not beside
two, and one that fits beside nobody. The proofs below cover every number for
most of what these runs check. In ClientProve a mirror and a driver differ
through at most one holder, one prove on its way with a stale glance, and one
more that evicts: three instances, two of one AIR, and a plan that undercounts
exactly the AIR that comes back. The eviction order needs three AIRs and a
return of the first. In Loading the interesting meetings are of two threads over
one artifact and of two clients over one entry; two workers let one retire while
the other is pushed work. In ExecutableCache two processes over one file can
disturb each other and a third can use the id of one that died; its theorem
holds for any number.

A schedule branches on the AIR only through the sizes and flags in its record: the shapes
put each flag both ways, windows of one, two and three parts with and without a
short tail, none, one and two commits, rounds and air values; the second prove is what meets
kept sections and the third what meets sections left by a prover let go. The
transcript's counters are modulo the rate and the width, and the bounds let every
put end before, on and after a block and every squeeze run out of lanes. A FRI
layer folds by two and by four, to its end in one, two and no steps; the domain of
eight points has room for degrees below and above the bound. In a field this
small a false proof could pass by chance: the draws are ones under which it
does not, so soundness is checked as "the equations the code tests are the ones
that tell true from false", not as a probability. Blocks of two segments have a
first, a last and (with one) an only segment; nothing in the continuation looks
further than one neighbour. Three adds give a chain of depth three, two adds of one
wave, and an add that skips a level.

The plan arrives once (`SetPlan` may come at any point), instances are proved
once each: these are the bounds of the two modules. `MaxProves`, `MaxKills`,
`MaxPuts` and `MaxReads` bound what could go on for ever. Everything else is bounded
by the sets of the configuration. `CHECK_DEADLOCK FALSE` is in the runs whose system
stops: a prove schedule after its last prove, a proof that is verified once, an
algorithm that returned, a calculator that was refused.

**The finding.** `client_prove_panic`: a prove that releases its sections takes
them off the driver before it runs; a plugin panic unwinds past the update of
the mirror, which then names an AIR whose driver holds nothing, with the slot
free. The comment of `FixedAhead` says the mirror trails only between a prove's
glance and its turn. The next prove of that AIR reads its sections under the
slot instead of ahead; no proof is wrong.

## 4. Fairness

Weak fairness on what the operating system runs: a runnable thread takes its
next step, and what the code holds (a pass, the slot) is let go in the end,
because proves and loads end, by a result, an error or a panic. No fairness is
given to arrivals: nothing makes a thread come, a plan arrive, a fault happen or
a sleeping thread wake without a notification.

In ExecutableCache a load that began goes on; that loads keep coming is the
premise of `CacheWarmsUp`, not an assumption.

The slot is a `std::sync::Mutex`, which promises nothing to any one waiter; each
instance takes it once, so weak fairness of `TakeSlot` is enough. At the gate
with two proves the code promises neither of them a bound, so the property is
that some prove gets in (`SomeProveGetsIn`), which is what a client needs: the slot sends one
at a time. Loads may wait as long as proves keep coming; that is the gate's
design, and the property asks for them only once proves stop. The Python side
and the driver are sequential programs whose properties are safety only.

## 5. What is proved

All for every value of the constants that the named assumptions allow.

**GateProofs** (from `ThreadsAssumption`: disjoint finite sets of threads).
`IInv == TypeOK /\ CountsExact /\ ProveAlone /\ NoLostWakeup` is inductive.
Exclusion alone is not: the conditions read counters, so it needs
`CountsExact`, which ties `loads_in_flight`, `proves_waiting` and `proving` to
the threads, and each step moves one thread between two cardinalities. From it:
type correctness, exclusion, exact counts, no lost wake-up, no overtaking, and
`GateImplementsExclusion`, which maps every step of `Gate` to one of
`PluginExclusion` or a stutter.

**FiniteFacts** holds what the others keep needing. Induction is stated of sets, so that
it needs no operator as a parameter: a family of subsets of a finite set has a minimal
member (`MinimalMember`), a set of naturals a least (`LeastMember`), and a set that has 0 and the
number after each of its own has all of them (`UpTo`). `Total` is the sum that
`MapThenSumSet` computes, `FirstAreThatMany` counts the first k of an order.

**PendingProofs** (from the named assumption of `Pending`: finite instances,
natural uploads and budget, a positive cap). The inductive invariant adds
`TicketsInOrder`: tickets are drawn once, lie below `next`, and are served
exactly when below `serving`. With it an entry is identified by its ticket, so
`EntriesMatchPasses` is kept by the drop of a pass, nobody overtakes, the cap
holds, and the one waiter whose turn it is cannot sleep on a true condition
unless the notification is on its way. The sum over the entries that `admits` takes
is the sum over the instances inside, which says that whichever of them
proves, the rest fit (`PendingBudgetHolds`), and that every step is one of `FifoAdmission`
or a stutter (`PendingImplementsFifo`): the waiters by ticket are its line.

**ClientProveProofs** (from `ClientAssumption`). `IInv` collects the types of
what matters, that the line's members wait there, that the slot is held exactly
between its take and its drop, the permit's whereabouts, and two facts about
the sections: a prove that runs with `Release` has none on its driver, and
short of a panic the mirror is wrong only about the holder's AIR, between the
install and its record or while its sections are away with it. None of
`ProveFindsItsSections`, `PermitOnlyOnTheWay` and `MirrorAgreesWithDrivers` is
inductive alone; together with the slot's exclusion they are. The bound on the
sections (`ClientSectionsBounded`) needs how many an eviction leaves, which is counted by
the stamps of last use: they tell the AIRs apart, so the AIRs evicted are as many as
there are too many, and those that stay are the latest (`ClientResidentAreTheLatest`). Two of
these have a premise, a failure that would really break them: an AIR the plan names
once leaves nothing on the client after its prove (`ClientAirsProvedOnceLeave`) if the plan was there
from the start and no instance fails at the checks between install and prove (one named twice or
more stays after its last prove too: `keeps_fixed` asks the plan, which does not count down); the resident AIRs are the latest used
if no setup program fails.

**LoadingProofs, the cache's part** (from `CacheAssumption`). That no step makes the entry
torn is an action property; it needs that a temporary about to be renamed is
whole, which needs that nobody else touches it, which needs that the ids of live
processes differ: `CacheIInv == CacheTypeOK /\ LivePidsDiffer /\ WholeBeforeRename`.
Nothing is claimed of temporaries left behind: a kill leaves one, and so does a failed write whose
`remove_file` fails, because its result is dropped; none of them ever gets the entry's name.

**LoadingProofs** (from `LoadingAssumption`: finite workers and prove threads that
differ, at least one worker, client and program). `IInv` adds three parts to what the properties
say. `ThreadsKnowTheirJobs`: who loads or proves knows its client and AIR, and a worker never
has a prove thread's place. `ArtifactsAreWhole`: a load that missed nothing holds every
program it is past, so what it hands out is whole; a program counter alone would not say that,
since a load goes on after a miss. `EntriesAreLocked`: at one cache file there is one thread, which
"nobody compiles what the cache has" needs, because the file could get good under a compiler. The marks of
`Loaded` are shown to be the images of the loading threads by one lemma on how
a step moves the set of loaders (`LoadersMove`); the workers' count by cardinalities of
the set that a push starts and an empty pop ends. `LoadingProgramsAreThereOnce` puts together what
`ArtifactsAreWhole` and `EntriesAreLocked` give; `LoadingLetsProvesIn` is an action property
over the same invariant, and what `OnlyProgramsInFlightPrecede` says of the run's second setting.

**BlockCompositeProofs** (from `BlocksAssumption`: a block has a source). The parts of `IInv` say, for each phase and
place in the sequence, which trace is on the host and which upload is under way
(`TracesAreThisTurns`), whose prover is alive with which key and constants
(`ProversAreThisFamilys`), and how much of the block is committed, contributed and proved
(`BlockIsInOrder`). From it come the bound on what is resident, and that every proof is made
under the seed of all the contributions, of the trace whose root went into it.
`AggregateCounts` is about the fold itself: the sum of the contributions counts the
instances that made each one, in whatever order.

**TranscriptProofs** (from `WidthAssumption`, `LimbsAssumption` and `QueriesAssumption`: a rate below
the width, positive sizes). A fold is followed one element at a time: the function that
`FoldLeft` is defined by is shown to exist by `MinimalMember`, and its values at the
first k places are the steps of the loop. `IInv` says that the buffers are where the history leaves
them: in a segment that is being put, the permuted blocks are the whole blocks of what
is absorbed and the rest is pending (`Filled`); in one that is being squeezed, the
state has the padded blocks and one block of zeros for every width of lanes read, and the cursor
counts down to the next lane (`Drained`). That a put spends the lanes left and a squeeze
permutes what is pending is what carries one into the other. With it every squeezed element is
the lane its place says, and different places are different lanes because each reading starts
behind the last (`SqueezesHavePlaces`). `TranscriptScanMatches` compares the scan's fold with the
state that the puts and the flush of what is pending leave, empty, whole and padded last
blocks included; `TranscriptQueriesInOrder` follows the bits by division with remainder.

The grinding (`GrindingFindsTheSmallestNonce`, from `FriAssumption`, `InnerAssumption` and
`FieldAssumption`: at least one bit of work and fewer than a word has, nonces that are field
elements, images that are words) is proved of the inner prover and the prover of FRI alone, every
step of theirs. The check compares the halves of an image with the halves of the level, which is
the comparison of the words (`HalvesCompareTheImage`, by powers of two that multiply as exponents add);
the search
ends on the least nonce under the level if there is one (`SearchFindsTheSmallest`); and `GrindInv` says that the seed and the bits of work the
verifier sees are those the search had, and that an unaltered proof carries its result.

`CalculatorsSettleInOrder` (from `RecursionAssumption`: the operands of an add are natural numbers,
the placement names cells of the witness, words are below twice the modulus) has no bound on a circuit's adds.
Pass p of the relaxation settles the levels of the first p + 1 adds, because an add that reads
forward was refused (`LevelsSettle`); so the levels are their own relaxation, and an add's is above those it
reads. After wave lv the adds below that level have the values they end on when they run one after the
other, and the rest none (`Partly`, `WaveSettles`): all that a wave reads is final. Every word stays
below twice the modulus, so one subtraction makes it canonical. `CalcInv` adds that the placement on
the device is the circuit's in the width it says.

**AirDriverProofs** (from `AirsAssumption`: an AIR's custom commits have ids of their own and
no batch is without a window; `DriverAssumption`: it is not a circuit of the recursion, whose
seed binds `root1`, which the driver's does not; `ChallengesAssumption`: every challenge belongs to a
stage from the second to the DEEP batch, and the challenges of the openings and of
the DEEP batch, which the driver uploads by name, are there at their stages; `MaxProvesAssumption`). Nothing bounds an AIR's windows, rounds, custom
commits or the number of challenges. `IInv` says, for every place of a prove, which names its
environment has (`EnvNames`) and which value each is bound to (`Means`), what the windows and the
rounds behind it left (`PartsAre`, `LayersAre`, `CodewordIs`), that what stays with the driver is the
key whole (`KeptSectionsAreTheKeys`), and that what ran is what the schedule has up to there, each
with the inputs of `Replay` (`RanAsScheduled`). Names alone would be no invariant: a call's
inputs are the schedule's only if no name was bound again since, so values go with them. An action
is followed in two halves: the call (`CallsAre`: every input is in the environment, and what it
is bound to is what `ArgsOf` says) and what the step leaves. `BuffersStay` then needs, for each
buffer and place, either that no program still to run reads it, or the one that does: the
programs behind a place are told from those ahead by kind, and windows, rounds and commits by their
number, for which the first rows of windows are shown to grow (`StartsGrow`).

`DriverFollowsTheSchedule` has two parts. A finished proof is whole
(`ProofsAreWholeWhenFinished`): `Traced` says how long the transcript and the wire are at every place
of a prove, absorb by absorb and part by part; at the end `IInv` has every run
behind it, and what `Traced` has built up is `Protocol` and `Wire`. And every step of the driver is one of `GenProof` or a
stutter (`DriverKeepsToTheSchedule`). There `IInv` and `Traced` are not enough, since both fall
silent between proves, where a failed prove leaves its histories and `GenProof` still asks
that nothing in them was used before it existed. `Keeping` asks it at every state, and is kept by one lemma on
how histories grow (`CausalStep`): what is consistent stays so if each new run, absorb and part of the
proof is known by what there is when it comes, and if no old absorb depends on a challenge that
came after it. That the step's own program only uses what is known is read off the tables, program by
program (`ChallengesMap` may name any number of challenges, in any order).

### Only model-checked

- Liveness (`SomeProveGetsIn`, `LoadsGetInOnceProvesStop`, `EveryoneIsAdmitted`,
  `EveryInstanceCompletes`, `EveryProveCompletes`, `ThePlanGetsReady`,
  `CacheWarmsUp`): the prover has no fairness.
- `BlockBalancesIffWhole`: that the bus updates of a whole execution cancel, over every block of the instance, and what a block is
  made of (`Continuation`).
- The harness's schedule (`ClaimsAreTheTranscripts`, `RolesFollowTheSchedule`), of which the
  driver's half is proved; see the plan.
- FRI and the inner proof but for the grinding, and the algorithms: sums and products over a field, whose
  laws the small fields have by computation, and recursive definitions over data.


## 6. Not modelled, and why

- **In the modelled parts.** A poisoned mutex: nothing that is done under the
  short locks panics, and the slot's holder takes the state out of a poisoned
  lock. What a poisoned slot does to `slot_index`, whose `try_lock` goes on failing
  after a panic, decides only which client an instance goes to. `Loading` takes that scan, which tries one
  slot after the other, in one step: a fall back on the instance's own client because each slot was busy
  when its turn came, though never all at once, is not there. No property is about which client it is. A read-only or
  absent cache directory (every look-up misses; nothing else changes).
  `ZZ_LOAD_THREADS` above one: the programs of one artifact then load side by side, each
  under its own pass, which the gate module covers. Merkle paths are not walked: a root is
  its rows, and a path's length and the last level are in `WireProof`. The witness
  library of the recursion is a shared object that is called; reading a key and a dump is I/O.
- **External.** NTTs, field operations and the opening of a column are what the field
  libraries compute; a proof on its way is the environment's.
- **A/B gate** (`ab.rs`): a self-test against pil2 that keeps two maps and counts verdicts;
  nothing it does reaches a proof.
- **Manifest, memory log, NVTX ranges, `bin/zz_prove.rs`**: look-ups, reports, annotations and a
  command line over the modelled parts.
- **Unpacking of traces** (`unpack_trace`, `copy_canonical`, `tiled_to_row_major`): data
  movement over millions of words; the layout of the tiles is in `Packing`.
- **Poseidon kernels**: round constants and linear layers, pinned by golden vectors;
  the models that hash take any permutation.
- **Lowering to StableHLO**: what an exported program computes inside is JAX's; its
  interface is `AirPrograms`.
- **Gates and verifications against pil2's dumps, chip registry, benchmark readers, fixture
  generators, scripts**: files in, bytes compared, reports out.

## 7. Plan

Done: the bridge with the proofs of its five modules, the schedules of both
provers against one promise with the proof that the driver keeps it and its buffers, the transcript and the block composite with their proofs, FRI and
the inner proof, the domains, the continuation, constraint code, LogUp, recursion and
the wire. What would come next, in order of weight:

1. The proof of `Pil2InnerProver` against `GenProof`: one role is several programs, so
   a step joins what the driver does in several; and the order of the programs in
   `export/replay.py` as a third refinement.
2. A panic inside a prove in `Loading`: the slot it poisons is passed over by the
   scan of `slot_index` from then on.
3. Openings with paths walked, over a symbolic hash, to check indices and the
   last level together.
4. `AbGate`: record and check from two threads; each instance compared once.
