-------------------------------- MODULE DataSync --------------------------------
(***************************************************************************)
(* data-sync for one table of one shard (infra/applier.go): the changes of *)
(* the active cell's rows, as Debezium captures them, are read from Kafka  *)
(* one at a time, applied to the passive cell's table through Retry and a  *)
(* breaker, and committed, applied or not.  The active cell inserts a row, *)
(* updates it, may delete it and write it back; the changes of a row are   *)
(* in order in a partition, here one per row.                              *)
(*                                                                         *)
(* A row is known by its version: the number of the change that made it, 0 *)
(* if there is no row.  Debezium sends the row before an update only if    *)
(* the table has REPLICA IDENTITY FULL; nothing in the repository sets it. *)
(* The id of a deleted row it always sends.                                *)
(***************************************************************************)
EXTENDS Breaker, Sequences

CONSTANTS
    Rows,           \* the ids of the table's rows
    MaxChanges,     \* bound on the changes of a row
    MaxFaults       \* bound on the failures of the passive database, of
                    \* commits, on restarts and on signals to stop

ASSUME SyncAssumption ==
    /\ MaxChanges \in Nat
    /\ MaxFaults \in Nat

VARIABLES
    routed,         \* whether the topic's passive pool is configured and the
                    \* table allowed
    identityFull,   \* whether updates carry the row before
    cdc,            \* per row, the changes captured, by their kind
    passive,        \* per row, its version in the passive table
    position,       \* per row, the changes read
    committed,      \* per row, the changes committed
    current,        \* the change at hand, if any
    breaker,        \* the breaker of the passive database
    stopping,       \* whether the context of Run is cancelled
    lost,           \* history: per row, why changes of it were not applied
    failed,         \* history: database calls that failed, up to three
    faults          \* faults so far

config == <<routed, identityFull>>
vars == <<config, cdc, passive, position, committed, current, breaker, stopping,
          lost, failed, faults>>

Attempts == 3

Change == [row : Rows, n : 1 .. MaxChanges, attempt : 1 .. Attempts, done : BOOLEAN]

Reasons == {"unrouted", "unidentified", "failures", "stopped"}

TypeOK ==
    /\ routed \in BOOLEAN
    /\ identityFull \in BOOLEAN
    /\ cdc \in [Rows -> Seq({"c", "u", "d"})]
    /\ passive \in [Rows -> Nat]
    /\ position \in [Rows -> Nat]
    /\ committed \in [Rows -> Nat]
    /\ \A r \in Rows :
          /\ committed[r] <= position[r]
          /\ position[r] <= Len(cdc[r])
          /\ passive[r] <= Len(cdc[r])
    /\ current \subseteq Change
    /\ \A m \in current : current = {m}
    /\ breaker \in Breakers({"loop"})
    /\ stopping \in BOOLEAN
    /\ lost \in [Rows -> SUBSET Reasons]
    /\ failed \in 0 .. 3
    /\ faults \in 0 .. MaxFaults

Init ==
    /\ routed \in BOOLEAN
    /\ identityFull \in BOOLEAN
    /\ cdc = [r \in Rows |-> <<>>]
    /\ passive = [r \in Rows |-> 0]
    /\ position = [r \in Rows |-> 0]
    /\ committed = [r \in Rows |-> 0]
    /\ current = {}
    /\ breaker = NewBreaker("closed")
    /\ stopping = FALSE
    /\ lost = [r \in Rows |-> {}]
    /\ failed = 0
    /\ faults = 0

Fault == faults < MaxFaults /\ faults' = faults + 1

Deleted(r) == cdc[r] # <<>> /\ cdc[r][Len(cdc[r])] = "d"

(* The version of the row in the active table.                               *)
Active(r) == IF Deleted(r) THEN 0 ELSE Len(cdc[r])

(* The active cell changes a row, or writes a deleted one back: an upsert.   *)
Capture(r) ==
    /\ Len(cdc[r]) < MaxChanges
    /\ \E op \in IF Active(r) = 0 THEN {"c"} ELSE {"u", "d"} :
          cdc' = [cdc EXCEPT ![r] = Append(@, op)]
    /\ UNCHANGED <<config, passive, position, committed, current, breaker, stopping,
                   lost, failed, faults>>

(* mutant: enable.auto.commit is left on                                     *)
ReadMessageAutoCommit(r) ==
    /\ current = {}
    /\ ~stopping
    /\ position[r] < Len(cdc[r])
    /\ current' = {[row |-> r, n |-> position[r] + 1, attempt |-> 1, done |-> FALSE]}
    /\ position' = [position EXCEPT ![r] = @ + 1]
    /\ committed' = [committed EXCEPT ![r] = position[r] + 1]
    /\ UNCHANGED <<config, cdc, passive, breaker, stopping, lost, failed, faults>>

ReadMessage(r) ==
    /\ current = {}
    /\ ~stopping
    /\ position[r] < Len(cdc[r])
    /\ current' = {[row |-> r, n |-> position[r] + 1, attempt |-> 1, done |-> FALSE]}
    /\ position' = [position EXCEPT ![r] = @ + 1]
    /\ UNCHANGED <<config, cdc, passive, committed, breaker, stopping, lost, failed,
                   faults>>

(* ON CONFLICT (id) DO NOTHING                                               *)
ApplyInsert(row, n) == IF row = 0 THEN n ELSE row

ApplyUpdate(row, n) == IF row = 0 THEN row ELSE n

(* mutant: the id is looked up in "after", which a deletion does not have    *)
ApplyDeleteAfter(row) == row

ApplyDelete(row) == 0

(* What the statement of change n makes of a row of the passive table.       *)
Applied(op, row, n) ==
    CASE op = "c" -> ApplyInsert(row, n)
      [] op = "u" -> ApplyUpdate(row, n)
      [] op = "d" -> ApplyDelete(row)

Execute(m) ==
    passive' = [passive EXCEPT ![m.row] = Applied(cdc[m.row][m.n], @, m.n)]

(* The statement has no row to name: nothing is executed, and nothing fails. *)
Unidentified(m) == cdc[m.row][m.n] = "u" /\ ~identityFull

(* apply returns, and the change will be committed as if it were applied.    *)
GivesUp(m, why) ==
    /\ current' = {[m EXCEPT !.done = TRUE]}
    /\ lost' = [lost EXCEPT ![m.row] = @ \cup {why}]

(* mutant: the attempts are counted from zero                                *)
NextAttemptOnceMore(m) ==
    IF m.attempt > Attempts THEN GivesUp(m, "failures")
    ELSE IF stopping THEN GivesUp(m, "stopped")
    ELSE current' = {[m EXCEPT !.attempt = @ + 1]} /\ UNCHANGED lost

(* mutant: there is one attempt too few                                      *)
NextAttemptEarly(m) ==
    IF m.attempt + 1 = Attempts THEN GivesUp(m, "failures")
    ELSE IF stopping THEN GivesUp(m, "stopped")
    ELSE current' = {[m EXCEPT !.attempt = @ + 1]} /\ UNCHANGED lost

(* Retry, after an attempt that failed; in the end the error is only logged. *)
NextAttempt(m) ==
    IF m.attempt = Attempts THEN GivesUp(m, "failures")
    ELSE IF stopping THEN GivesUp(m, "stopped")
    ELSE current' = {[m EXCEPT !.attempt = @ + 1]} /\ UNCHANGED lost

(* apply returns before its first attempt.                                   *)
Unrouted ==
    \E m \in current :
        /\ ~m.done
        /\ ~routed
        /\ GivesUp(m, "unrouted")
        /\ UNCHANGED <<config, cdc, passive, position, committed, breaker, stopping,
                       failed, faults>>

AttemptSucceeds(m) ==
    /\ Admits(breaker)
    /\ IF Unidentified(m)
       THEN GivesUp(m, "unidentified") /\ UNCHANGED passive
       ELSE current' = {[m EXCEPT !.done = TRUE]} /\ Execute(m) /\ UNCHANGED lost
    /\ breaker' = Reported(Entered(breaker, "loop"), "loop", TRUE)
    /\ UNCHANGED <<failed, faults>>

(* A call that fails may have changed the row all the same; one under a      *)
(* cancelled context fails with no other fault.                              *)
AttemptFails(m) ==
    /\ Admits(breaker)
    /\ ~Unidentified(m)
    /\ Execute(m) \/ UNCHANGED passive
    /\ breaker' = Reported(Entered(breaker, "loop"), "loop", FALSE)
    /\ NextAttempt(m)
    /\ failed' = IF failed = 3 THEN 3 ELSE failed + 1
    /\ IF stopping THEN UNCHANGED faults ELSE Fault

AttemptRefused(m) ==
    /\ ~Admits(breaker)
    /\ NextAttempt(m)
    /\ UNCHANGED <<passive, breaker, failed, faults>>

(* An attempt goes through the breaker, whose only caller the loop is, or is *)
(* refused by it.                                                            *)
Attempt ==
    \E m \in current :
        /\ ~m.done
        /\ routed
        /\ AttemptSucceeds(m) \/ AttemptFails(m) \/ AttemptRefused(m)
        /\ UNCHANGED <<config, cdc, position, committed, stopping>>

(* Retry waits for its next attempt and sees the context cancelled.          *)
ContextDone ==
    \E m \in current :
        /\ ~m.done
        /\ m.attempt > 1
        /\ stopping
        /\ GivesUp(m, "stopped")
        /\ UNCHANGED <<config, cdc, passive, position, committed, breaker, stopping,
                       failed, faults>>

CommitMessage ==
    \E m \in current :
        /\ m.done
        /\ current' = {}
        /\ \/ committed' = [committed EXCEPT ![m.row] = m.n] /\ UNCHANGED faults
           \/ UNCHANGED committed /\ Fault
        /\ UNCHANGED <<config, cdc, passive, position, breaker, stopping, lost, failed>>

(* A signal arrives and main cancels the context; Run may go on until the    *)
(* process has ended, and commits what it gives up.  A message that is just  *)
(* being read counts as read before.                                         *)
Stop ==
    /\ ~stopping
    /\ stopping' = TRUE
    /\ Fault
    /\ UNCHANGED <<config, cdc, passive, position, committed, current, breaker, lost,
                   failed>>

(* The process ends, as it was told to or not, and is started again.         *)
Restart ==
    /\ current' = {}
    /\ position' = committed
    /\ breaker' = NewBreaker("closed")
    /\ stopping' = FALSE
    /\ IF stopping THEN UNCHANGED faults ELSE Fault
    /\ UNCHANGED <<config, cdc, passive, committed, lost, failed>>

(* The breaker's Interval or Timeout passes.                                 *)
BreakerElapses ==
    /\ MayElapse(breaker)
    /\ breaker' = Elapsed(breaker)
    /\ UNCHANGED <<config, cdc, passive, position, committed, current, stopping,
                   lost, failed, faults>>

LoopStep ==
    \/ \E r \in Rows : ReadMessage(r)
    \/ Unrouted
    \/ Attempt
    \/ ContextDone
    \/ CommitMessage

Next ==
    \/ \E r \in Rows : Capture(r)
    \/ LoopStep
    \/ Stop
    \/ Restart
    \/ BreakerElapses

Spec == Init /\ [][Next]_vars

(* The loop of Run goes on, and a process that ended is started again.       *)
FairSpec == Spec /\ WF_vars(LoopStep) /\ WF_vars(stopping /\ Restart)

-----------------------------------------------------------------------------
(* Every change that was committed and not applied is accounted for.  Retry  *)
(* and the breaker together make a database that fails twice lose nothing:   *)
(* three calls failed, the change's own or earlier ones that opened the      *)
(* breaker, or one of them did while the process was being stopped.          *)
LossesAreFounded ==
    \A r \in Rows :
        /\ "failures" \in lost[r] => failed = 3
        /\ "stopped" \in lost[r] => failed >= 1
        /\ "unidentified" \in lost[r] => ~identityFull
        /\ "unrouted" \in lost[r] => ~routed

(* The passive row is the active one, if none of its changes was given up;   *)
(* if only updates were that name no row, it exists as the active one does.  *)
Agree(r) ==
    /\ lost[r] = {} => passive[r] = Active(r)
    /\ lost[r] \subseteq {"unidentified"} => (passive[r] = 0 <=> Active(r) = 0)

(* When all changes are read, the passive table agrees with the active one,  *)
(* though restarts apply changes again, old ones over newer ones, insertions *)
(* after deletions and deletions of rows that were written back since.       *)
ReadyWhenCaughtUp ==
    current = {} /\ (\A r \in Rows : position[r] = Len(cdc[r])) =>
        \A r \in Rows : Agree(r)

(* The passive table comes to agree with the active one for good when that   *)
(* one is changed no more.                                                   *)
PassiveConverges == <>[](\A r \in Rows : Agree(r))
=================================================================================
