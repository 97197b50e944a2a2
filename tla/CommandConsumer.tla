---------------------------- MODULE CommandConsumer ----------------------------
(***************************************************************************)
(* The command consumer of a cell (infra/messaging/kafka.go): the replicas *)
(* of one active cell form a Kafka consumer group, read the cell's command *)
(* topics, process each command, answer it and commit its offset.  One     *)
(* partition of each topic is modelled; a replica owns it in all topics.   *)
(* The commands are there from the beginning: one that is not read yet is  *)
(* like one that is not sent yet.                                          *)
(*                                                                         *)
(* pedidos and estoque have the same loop: it publishes the reply and      *)
(* commits only if that worked.  In notificacoes processing publishes the  *)
(* reply, errors ignored, and a command that failed is not committed.  All *)
(* of them count a command's failures under its partition and offset, not  *)
(* its topic, and put it on the dead letter queue at the third.  The loop  *)
(* is the only caller of its bulkhead of ten, which never rejects.         *)
(*                                                                         *)
(* Produce may refuse a reply or a dead letter, but mostly queues it: it   *)
(* can then still be lost, to a delivery error that is only logged or with *)
(* the process, after the command was committed.  Nobody reads the topic   *)
(* here, so what becomes of a message is settled when it is produced.      *)
(***************************************************************************)
EXTENDS Naturals

CONSTANTS
    PBCs,           \* the cells looked at
    Replicas,       \* the replicas of the cell
    MaxCommands,    \* the commands in each topic
    MaxFaults       \* bound on the crashes, rebalances and Kafka errors

ASSUME ConsumerAssumption ==
    /\ PBCs \subseteq {"pedidos", "estoque", "notificacoes"}
    /\ Replicas # {}
    /\ MaxCommands \in Nat
    /\ MaxFaults \in Nat

VARIABLES
    pbc,        \* the cell
    owner,      \* the replica the partitions are assigned to
    position,   \* per topic, the next offset the owner reads
    committed,  \* per topic, the group's committed offset
    task,       \* per replica, the command it is at, if any
    failCounts, \* per replica, the failures it has counted under each offset
    failures,   \* history: failures of commands at each offset, up to three
    answered,   \* history: commands a reply to which reached its topic
    dead,       \* history: commands that reached the dead letter queue
    lost,       \* history: commands a reply to which, or whose dead letter, did not
    faults      \* faults so far

history == <<failures, answered, dead, lost>>

vars == <<pbc, owner, position, committed, task, failCounts,
          failures, answered, dead, lost, faults>>

AllTopics == {"criar_pedido", "cancelar_pedido", "reservar_estoque", "liberar_estoque",
              "enviar_notificacao"}

Topics ==
    CASE pbc = "pedidos" -> {"criar_pedido", "cancelar_pedido"}
      [] pbc = "estoque" -> {"reservar_estoque", "liberar_estoque"}
      [] pbc = "notificacoes" -> {"enviar_notificacao"}

Offsets == 0 .. MaxCommands - 1

Commands == AllTopics \X Offsets

(* "process" and what follows it; a failed command of notificacoes may end   *)
(* without a commit.                                                         *)
Stages == {"process", "reply", "dlq", "commit"}

Task == [topic : AllTopics, offset : Offsets, stage : Stages]

TypeOK ==
    /\ pbc \in PBCs
    /\ owner \in Replicas
    /\ position \in [AllTopics -> 0 .. MaxCommands]
    /\ committed \in [AllTopics -> 0 .. MaxCommands]
    /\ \A t \in AllTopics : committed[t] <= position[t]
    /\ task \in [Replicas -> SUBSET Task]
    /\ failCounts \in [Replicas -> [Offsets -> 0 .. 3]]
    /\ failures \in [Offsets -> 0 .. 3]
    /\ answered \cup dead \cup lost \subseteq Commands
    /\ faults \in 0 .. MaxFaults

Init ==
    /\ pbc \in PBCs
    /\ owner = CHOOSE r \in Replicas : TRUE
    /\ position = [t \in AllTopics |-> 0]
    /\ committed = [t \in AllTopics |-> 0]
    /\ task = [r \in Replicas |-> {}]
    /\ failCounts = [r \in Replicas |-> [o \in Offsets |-> 0]]
    /\ failures = [o \in Offsets |-> 0]
    /\ answered = {}
    /\ dead = {}
    /\ lost = {}
    /\ faults = 0

Fault == faults < MaxFaults /\ faults' = faults + 1

NoFault == UNCHANGED faults

Goes(r, stage) == task' = [task EXCEPT ![r] = {[u EXCEPT !.stage = stage] : u \in @}]

Ends(r) == task' = [task EXCEPT ![r] = {}]

Command(u) == <<u.topic, u.offset>>

Answer(u) == answered' = answered \cup {Command(u)} /\ UNCHANGED <<dead, lost>> /\ NoFault

Loses(u) == lost' = lost \cup {Command(u)} /\ UNCHANGED <<answered, dead>> /\ Fault

Reads(r, t) ==
    /\ owner = r
    /\ task[r] = {}
    /\ t \in Topics
    /\ position[t] < MaxCommands
    /\ task' = [task EXCEPT ![r] = {[topic |-> t, offset |-> position[t], stage |-> "process"]}]
    /\ position' = [position EXCEPT ![t] = @ + 1]

(* mutant: enable.auto.commit is left on                                     *)
ReadMessageAutoCommit(r, t) ==
    /\ Reads(r, t)
    /\ committed' = [committed EXCEPT ![t] = position[t] + 1]
    /\ UNCHANGED <<pbc, owner, failCounts, history, faults>>

ReadMessage(r, t) ==
    /\ Reads(r, t)
    /\ UNCHANGED <<pbc, owner, committed, failCounts, history, faults>>

ClearCount(r, u) == failCounts' = [failCounts EXCEPT ![r][u.offset] = 0]

(* What follows processing: notificacoes has replied by then and goes on to  *)
(* "next", whatever became of the reply; the others reply next.              *)
Processing(r, u, next) ==
    IF pbc = "notificacoes"
    THEN next /\ (Answer(u) \/ Loses(u))
    ELSE Goes(r, "reply") /\ UNCHANGED <<answered, dead, lost, faults>>

Process(r) ==
    \E u \in task[r] :
        /\ u.stage = "process"
        /\ ClearCount(r, u)
        /\ Processing(r, u, Goes(r, "commit"))
        /\ UNCHANGED <<pbc, owner, position, committed, failures>>

(* mutant: the second failure is the last                                    *)
IsLastEarly(r, u) == failCounts[r][u.offset] + 1 >= 2

IsLast(r, u) == failCounts[r][u.offset] + 1 >= 3

(* After the last failure pedidos and estoque do not reply; notificacoes has.*)
ProcessFails(r) ==
    \E u \in task[r] :
        /\ u.stage = "process"
        /\ failures' = [failures EXCEPT ![u.offset] = IF @ = 3 THEN 3 ELSE @ + 1]
        /\ failCounts' = [failCounts EXCEPT ![r][u.offset] = @ + 1]
        /\ \/ ~IsLast(r, u) /\ Processing(r, u, Ends(r))
           \/ /\ IsLast(r, u)
              /\ Goes(r, "dlq")
              /\ IF pbc = "notificacoes" THEN Answer(u) \/ Loses(u)
                 ELSE UNCHANGED <<answered, dead, lost, faults>>
        /\ UNCHANGED <<pbc, owner, position, committed>>

(* SendToDLQ drops the error of Produce, and the command is committed.       *)
SendToDLQ(r) ==
    \E u \in task[r] :
        /\ u.stage = "dlq"
        /\ \/ dead' = dead \cup {Command(u)} /\ UNCHANGED <<answered, lost>> /\ NoFault
           \/ Loses(u)
        /\ ClearCount(r, u)
        /\ Goes(r, "commit")
        /\ UNCHANGED <<pbc, owner, position, committed, failures>>

(* If Produce, or the breaker before it, refuses the reply, the loop goes on *)
(* without a commit; one that is lost after it was queued is committed.      *)
PublishReply(r) ==
    \E u \in task[r] :
        /\ u.stage = "reply"
        /\ \/ Answer(u) /\ Goes(r, "commit")
           \/ Loses(u) /\ (Ends(r) \/ Goes(r, "commit"))
        /\ UNCHANGED <<pbc, owner, position, committed, failCounts, failures>>

(* mutant: the commit of a replica that lost the partition is accepted       *)
CommitMessageAnyway(r) ==
    \E u \in task[r] :
        /\ u.stage = "commit"
        /\ Ends(r)
        /\ committed' = [committed EXCEPT ![u.topic] = u.offset + 1]
        /\ UNCHANGED <<pbc, owner, position, failCounts, history, faults>>

(* The group refuses the commit of a replica that lost the partition; an     *)
(* error is logged.                                                          *)
CommitMessage(r) ==
    \E u \in task[r] :
        /\ u.stage = "commit"
        /\ Ends(r)
        /\ \/ /\ owner = r
              /\ committed' = [committed EXCEPT ![u.topic] = u.offset + 1]
              /\ NoFault
           \/ owner # r /\ UNCHANGED committed /\ NoFault
           \/ UNCHANGED committed /\ Fault
        /\ UNCHANGED <<pbc, owner, position, failCounts, history>>

(* The partitions are assigned anew, to a replica that polls: one in its     *)
(* loop does not know, and goes on.  It may be the owner again.              *)
Rebalance(r) ==
    /\ task[r] = {}
    /\ owner' = r
    /\ position' = committed
    /\ Fault
    /\ UNCHANGED <<pbc, committed, task, failCounts, history>>

(* mutant: it starts from auto.offset.reset = latest                         *)
RestartLatest(r) ==
    /\ Ends(r)
    /\ failCounts' = [failCounts EXCEPT ![r] = [o \in Offsets |-> 0]]
    /\ position' = IF owner = r THEN [t \in AllTopics |-> MaxCommands] ELSE position
    /\ Fault
    /\ UNCHANGED <<pbc, owner, committed, history>>

(* The replica dies and starts again.                                        *)
Restart(r) ==
    /\ Ends(r)
    /\ failCounts' = [failCounts EXCEPT ![r] = [o \in Offsets |-> 0]]
    /\ position' = IF owner = r THEN committed ELSE position
    /\ Fault
    /\ UNCHANGED <<pbc, owner, committed, history>>

-----------------------------------------------------------------------------
LoopStep(r) ==
    \/ \E t \in AllTopics : ReadMessage(r, t)
    \/ Process(r)
    \/ ProcessFails(r)
    \/ SendToDLQ(r)
    \/ PublishReply(r)
    \/ CommitMessage(r)

Next == \E r \in Replicas : LoopStep(r) \/ Rebalance(r) \/ Restart(r)

Spec == Init /\ [][Next]_vars

(* The consumers' loops run.                                                 *)
FairSpec == Spec /\ \A r \in Replicas : WF_vars(LoopStep(r))

-----------------------------------------------------------------------------
(* Below a committed offset is no command that was not answered or put on    *)
(* the dead letter queue, but for those whose reply or dead letter Kafka did *)
(* not take or lost: a commit covers all earlier commands of the topic,      *)
(* those the loop went past without a commit among them.                     *)
CommitsCoverAnswers ==
    \A t \in AllTopics, o \in Offsets :
        o < committed[t] => <<t, o>> \in answered \cup dead \cup lost

(* Every command of the cell comes to an answer, to the dead letter queue or *)
(* to the loss of either, whatever dies or is rebalanced on the way.         *)
CommandsEnd == <>(Topics \X Offsets \subseteq answered \cup dead \cup lost)

(* The group's offset never goes back, though replicas commit commands of an *)
(* assignment that has ended.                                                *)
CommittedNeverMovesBack == [][\A t \in AllTopics : committed'[t] >= committed[t]]_vars

(* README.md: "mensagens que falham após N retries": a command goes to the   *)
(* dead letter queue only after three failures at its offset.  They need not *)
(* be its own: commands at one offset of several topics share the count.     *)
DeadLetterAtThree == \A c \in dead : failures[c[2]] = 3
================================================================================
