------------------------------ MODULE MCLoading ------------------------------
(***************************************************************************)
(* Loading for TLC in two settings, one chosen at the start.  In the first *)
(* two clients and two prove threads meet over one AIR and every failure   *)
(* may happen (the cfg's constants, the module's own variables); in the    *)
(* second a plan is loaded while a client proves and nothing fails (the    *)
(* instance Planned, on variables of its own).                             *)
(***************************************************************************)
EXTENDS Loading, TLC

CONSTANTS w1, w2, i1, i2, Main, Rom

VARIABLES setting, pPhase, pWork, pWorkers, pReady, pInFlight, pCache, pStarted, pJob, pProg,
          pFailed, pExes, pPc

\* Every instance proves the same AIR; i1's home is client 0, i2's the last.
SameAir == [i \in Instances |-> Main]
Homes == [i \in Instances |-> IF i = i1 THEN 0 ELSE NumClients - 1]
JustMain == <<Main>>

\* One client and two AIRs of two programs, the whole key preloaded in the
\* background, a plan that asks for it, no failure, and files of the cache that
\* are good or absent.
Planned == INSTANCE Loading WITH
    NumClients <- 1, Keys <- {Main, Rom}, Programs <- 2, Workers <- {w1, w2}, Instances <- {i1},
    KeyOf <- (i1 :> Main), HomeOf <- (i1 :> 0), Streamed <- {},
    StartKeys <- <<Main, Rom>>, StartFirst <- FALSE, PlanKeys <- <<Main, Rom>>, Faults <- {},
    phase <- pPhase, work <- pWork, workers <- pWorkers, ready <- pReady, inFlight <- pInFlight,
    cache <- pCache, started <- pStarted, job <- pJob, prog <- pProg, failed <- pFailed,
    exes <- pExes, pc <- pPc

pVars == <<pPhase, pWork, pWorkers, pReady, pInFlight, pCache, pStarted, pJob, pProg, pFailed,
           pExes, pPc>>

MCInit ==
    /\ setting \in {"failures", "plan"}
    /\ Init /\ Planned!Init
    /\ \A e \in DOMAIN pCache :
          pCache[e] \in (IF setting = "failures" THEN {"absent"} ELSE {"absent", "good"})
    /\ setting = "plan" => \A e \in DOMAIN cache : cache[e] = "absent"

MCNext ==
    /\ UNCHANGED setting
    /\ \/ setting = "failures" /\ Next /\ UNCHANGED pVars
       \/ setting = "plan" /\ Planned!Next /\ UNCHANGED vars

\* Loading's fairness, in the setting there is.
Started == \/ setting = "failures" /\ StartUp /\ UNCHANGED <<setting, pVars>>
           \/ setting = "plan" /\ Planned!StartUp /\ UNCHANGED <<setting, vars>>

Takes(w) == \/ setting = "failures" /\ TakeWork(w) /\ UNCHANGED <<setting, pVars>>
            \/ setting = "plan" /\ Planned!TakeWork(w) /\ UNCHANGED <<setting, vars>>

Loads(t) == \/ setting = "failures" /\ LoadStep(t) /\ UNCHANGED <<setting, pVars>>
            \/ setting = "plan" /\ t # i2 /\ Planned!LoadStep(t) /\ UNCHANGED <<setting, vars>>

Proves(i) == \/ setting = "failures" /\ ProveStep(i) /\ UNCHANGED <<setting, pVars>>
             \/ setting = "plan" /\ i # i2 /\ Planned!ProveStep(i) /\ UNCHANGED <<setting, vars>>

allVars == <<setting, vars, pVars>>

MCSpec ==
    /\ MCInit /\ [][MCNext]_allVars
    /\ WF_allVars(Started)
    /\ \A w \in Workers : WF_allVars(Takes(w))
    /\ \A t \in Threads : WF_allVars(Loads(t))
    /\ \A i \in Instances : WF_allVars(Proves(i))

\* A prove at the gate waits for the programs in flight and for no more; and
\* under the plan, where an AIR has two programs, what Loading's own IInv and
\* ProgramsAreThereOnce are in the setting of the failures.
OnlyProgramsInFlightPrecede ==
    /\ Planned!OnlyProgramsInFlightPrecedeAProve
    /\ [](Planned!IInv /\ Planned!ProgramsAreThereOnce)

\* When nothing fails, every AIR of the plan gets onto every client although
\* proves keep the gate.
ThePlanGetsReady == Planned!PlannedAirsGetReady
=============================================================================
