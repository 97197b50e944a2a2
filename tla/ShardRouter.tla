------------------------------- MODULE ShardRouter -------------------------------
(***************************************************************************)
(* The shard-router: its registry of cells with their health               *)
(* (infra/registry.go), the watcher that probes them (infra/watcher.go)    *)
(* and the proxy that sends a request to the active cell of its client's   *)
(* shard, or to the passive one, through one breaker per PBC that all      *)
(* shards share (api/handlers.go).                                         *)
(*                                                                         *)
(* A cell is up when it would answer a probe with 200.  A probe takes less *)
(* than the watcher's tick (2 s of 5 s), so a cell has one at a time; a    *)
(* tick skips the cells that find no slot in the semaphore, and the order  *)
(* of the cells in a tick is Go's random map order.  Requests to the saga  *)
(* hub are passed on without any state and are left out.                   *)
(***************************************************************************)
EXTENDS Breaker, FiniteSets

CONSTANTS
    Cells,          \* the cells with an URL, as <<shard, pbc, role>>
    Clients,        \* the requests that may be in progress at a time
    Route,          \* the shard each client's key hashes to
    Slots,          \* the probes that may be in progress at a time, 5 in the code
    MaxFaults       \* bound on crashes of cells, failed probes and lost clients

PBCs == {cell[2] : cell \in Cells}

ASSUME RouterAssumption ==
    /\ \A cell \in Cells : cell = <<cell[1], cell[2], cell[3]>>
    /\ IsFiniteSet(Cells)
    /\ Slots \in Nat \ {0}
    /\ MaxFaults \in Nat

VARIABLES
    up,         \* the cells that are up
    healthy,    \* the cells the registry has as healthy
    probes,     \* per cell, the answer of the probe in progress, if any
    breakers,   \* the breaker of each PBC
    forwards,   \* per client, the cell its request is with, if any
    hurt,       \* history: PBCs with a cell or a client that failed
    faults      \* faults so far

vars == <<up, healthy, probes, breakers, forwards, hurt, faults>>

TypeOK ==
    /\ up \subseteq Cells
    /\ healthy \subseteq Cells
    /\ probes \in [Cells -> SUBSET BOOLEAN]
    /\ Cardinality({cell \in Cells : probes[cell] # {}}) <= Slots
    /\ breakers \in [PBCs -> Breakers(Clients)]
    /\ forwards \in [Clients -> SUBSET Cells]
    /\ hurt \subseteq PBCs
    /\ faults \in 0 .. MaxFaults

(* NewRegistry takes every cell to be healthy.                               *)
Init ==
    /\ up = Cells
    /\ healthy = Cells
    /\ probes = [cell \in Cells |-> {}]
    /\ breakers = [p \in PBCs |-> NewBreaker("closed")]
    /\ forwards = [c \in Clients |-> {}]
    /\ hurt = {}
    /\ faults = 0

Fault(cell) ==
    /\ faults < MaxFaults
    /\ faults' = faults + 1
    /\ hurt' = hurt \cup {cell[2]}

NoFault == UNCHANGED <<hurt, faults>>

-----------------------------------------------------------------------------
(* Cells *)

Crash(cell) ==
    /\ cell \in up
    /\ up' = up \ {cell}
    /\ Fault(cell)
    /\ UNCHANGED <<healthy, probes, breakers, forwards>>

Recover(cell) ==
    /\ cell \in Cells \ up
    /\ up' = up \cup {cell}
    /\ NoFault
    /\ UNCHANGED <<healthy, probes, breakers, forwards>>

-----------------------------------------------------------------------------
(* The watcher *)

(* mutant: the slots are taken after the probe has begun                     *)
HasSlotLate == Cardinality({cell \in Cells : probes[cell] # {}}) <= Slots

HasSlot == Cardinality({cell \in Cells : probes[cell] # {}}) < Slots

(* A probe, up to its answer; that of a cell that is up may be too late.     *)
Check(cell) ==
    /\ probes[cell] = {}
    /\ HasSlot
    /\ \E ok \in BOOLEAN :
          /\ probes' = [probes EXCEPT ![cell] = {ok}]
          /\ \/ (ok <=> cell \in up) /\ NoFault
             \/ ~ok /\ cell \in up /\ Fault(cell)
    /\ UNCHANGED <<up, healthy, breakers, forwards>>

(* mutant: the slot is released only if the cell answered                    *)
SetHealthyLeaks(cell) ==
    \E ok \in probes[cell] :
        /\ healthy' = IF ok THEN healthy \cup {cell} ELSE healthy \ {cell}
        /\ probes' = IF ok THEN [probes EXCEPT ![cell] = {}] ELSE probes
        /\ NoFault
        /\ UNCHANGED <<up, breakers, forwards>>

SetHealthy(cell) ==
    \E ok \in probes[cell] :
        /\ healthy' = IF ok THEN healthy \cup {cell} ELSE healthy \ {cell}
        /\ probes' = [probes EXCEPT ![cell] = {}]
        /\ NoFault
        /\ UNCHANGED <<up, breakers, forwards>>

-----------------------------------------------------------------------------
(* The proxy *)

ActiveCell(shard, p) ==
    LET active == {<<shard, p, "active">>} \cap healthy
    IN  IF active # {} THEN active ELSE {<<shard, p, "passive">>} \cap healthy

(* mutant: the handler has one breaker                                       *)
BreakerOfAll(p) == CHOOSE q \in PBCs : TRUE

BreakerOf(p) == p

(* The request is passed on; with no healthy cell it is answered 503 and     *)
(* with a breaker that refuses it, 200 with nothing in it, which changes     *)
(* nothing.                                                                  *)
Proxy(c, p) ==
    /\ forwards[c] = {}
    /\ \E cell \in ActiveCell(Route[c], p) :
          /\ Admits(breakers[BreakerOf(p)])
          /\ breakers' = [breakers EXCEPT ![BreakerOf(p)] = Entered(@, c)]
          /\ forwards' = [forwards EXCEPT ![c] = {cell}]
    /\ NoFault
    /\ UNCHANGED <<up, healthy, probes>>

Returns(c, p, ok) ==
    /\ breakers' = [breakers EXCEPT ![BreakerOf(p)] = Reported(@, c, ok)]
    /\ forwards' = [forwards EXCEPT ![c] = {}]
    /\ UNCHANGED <<up, healthy, probes>>

(* The cell answers, with whatever status, or is not there: 502.             *)
ProxyReturns(c) ==
    \E cell \in forwards[c], ok \in BOOLEAN :
        (ok <=> cell \in up) /\ Returns(c, cell[2], ok) /\ NoFault

(* The client goes away, which the reverse proxy reports as an error too.    *)
ClientGone(c) ==
    \E cell \in forwards[c] : Returns(c, cell[2], FALSE) /\ Fault(cell)

(* The breaker's Interval or Timeout passes.                                 *)
BreakerElapses(p) ==
    /\ MayElapse(breakers[p])
    /\ breakers' = [breakers EXCEPT ![p] = Elapsed(@)]
    /\ NoFault
    /\ UNCHANGED <<up, healthy, probes, forwards>>

-----------------------------------------------------------------------------
Next ==
    \/ \E cell \in Cells : Crash(cell) \/ Recover(cell) \/ Check(cell) \/ SetHealthy(cell)
    \/ \E c \in Clients :
          \/ \E p \in PBCs : Proxy(c, p)
          \/ ProxyReturns(c)
          \/ ClientGone(c)
    \/ \E p \in PBCs : BreakerElapses(p)

Spec == Init /\ [][Next]_vars

(* Probes end, and the random order of a tick's cells lets every cell find a *)
(* slot again and again.                                                     *)
FairSpec ==
    Spec /\ \A cell \in Cells : SF_vars(Check(cell)) /\ WF_vars(SetHealthy(cell))

-----------------------------------------------------------------------------
(* fitness-functions/run_all.py, FF4: what fails in one PBC does not touch   *)
(* the others.  Their cells stay healthy though the probes share a           *)
(* semaphore, and their breakers stay closed with no failure in them.        *)
BulkheadHolds ==
    \A p \in PBCs \ hurt :
        /\ breakers[p].state = "closed" /\ breakers[p].failures = 0
        /\ \A cell \in Cells : cell[2] = p => cell \in healthy

(* The registry comes to say of every cell whether it is up: no result of an *)
(* old probe stays, and no cell is left out for want of a slot.              *)
HealthConverges == <>[](healthy = up)

(* runbooks/circuit-breaker.md: the breaker closes by itself.  It never has  *)
(* its test requests used up with none of them still out to decide: results  *)
(* of calls from before it opened do not count, nor are any awaited twice.   *)
HalfOpenDecides ==
    \A p \in PBCs :
        LET b == breakers[p]
        IN  b.state = "half-open" /\ ~Admits(b) =>
                \E c \in b.current : \E cell \in forwards[c] : cell[2] = p
================================================================================
