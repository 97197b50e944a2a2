-------------------------- MODULE CommandConsumerProofs --------------------------
(***************************************************************************)
(* Proofs about CommandConsumer, for any cells, replicas and bounds.       *)
(*                                                                         *)
(* That a commit covers answered commands only needs to know what the      *)
(* loop is at: whatever the owner has read of a topic is settled (answered *)
(* or dead-lettered, or either was lost) but for the command at hand       *)
(* (Passed), which is the last one it read and is not committed yet        *)
(* (OwnersTask); a replica about to commit has settled its command.  The   *)
(* commands of former owners may be anywhere; the group refuses their      *)
(* commits.  Three failures are counted just for the command on its way to *)
(* the dead letter queue (LastCounts).                                     *)
(***************************************************************************)
EXTENDS CommandConsumer, TLAPS

Settled == answered \cup dead \cup lost

FlowTypes ==
    /\ owner \in Replicas
    /\ position \in [AllTopics -> 0 .. MaxCommands]
    /\ committed \in [AllTopics -> 0 .. MaxCommands]
    /\ \A t \in AllTopics : committed[t] <= position[t]
    /\ task \in [Replicas -> SUBSET Task]
    /\ \A r \in Replicas : \A u \in task[r] : task[r] = {u}
    /\ Settled \subseteq Commands

OwnersTask ==
    \A u \in task[owner] :
        position[u.topic] = u.offset + 1 /\ committed[u.topic] <= u.offset

Passed ==
    \A t \in AllTopics, o \in Offsets :
        o < position[t] =>
            \/ <<t, o>> \in Settled
            \/ \E u \in task[owner] : u.topic = t /\ u.offset = o /\ u.stage # "commit"

CommitsSettled ==
    \A r \in Replicas : \A u \in task[r] : u.stage = "commit" => Command(u) \in Settled

Flow == FlowTypes /\ OwnersTask /\ Passed /\ CommitsSettled

AtDLQ(T, o) == \E u \in T : u.stage = "dlq" /\ u.offset = o

LastCounts == \A r \in Replicas, o \in Offsets : failCounts[r][o] = 3 <=> AtDLQ(task[r], o)

(* What a replica has counted under an offset did fail there.                *)
Counts ==
    /\ failCounts \in [Replicas -> [Offsets -> 0 .. 3]]
    /\ failures \in [Offsets -> 0 .. 3]
    /\ \A r \in Replicas, o \in Offsets : failCounts[r][o] <= failures[o]
    /\ LastCounts
    /\ dead \subseteq Commands
    /\ DeadLetterAtThree

IInv ==
    /\ pbc \in PBCs
    /\ faults \in 0 .. MaxFaults
    /\ Flow
    /\ Counts

-----------------------------------------------------------------------------
LEMMA TaskType ==
    ASSUME NEW u \in Task
    PROVE  /\ u.topic \in AllTopics /\ u.offset \in Offsets /\ Command(u) \in Commands
           /\ u.stage \in Stages
           /\ u.offset \in Nat /\ u.offset + 1 \in 0 .. MaxCommands
<1>1. /\ u.topic \in AllTopics /\ u.offset \in Offsets
      /\ u.stage \in Stages
  BY DEF Task
<1>2. u.offset \in Nat /\ u.offset + 1 \in 0 .. MaxCommands
  BY <1>1, ConsumerAssumption DEF Offsets
<1>. QED
  BY <1>1, <1>2 DEF Command, Commands

LEMMA GoesType ==
    ASSUME NEW r, NEW u \in Task, task[r] = {u},
           NEW stage \in {"process", "reply", "dlq", "commit"}, Goes(r, stage)
    PROVE  \E e \in Task : /\ task' = [task EXCEPT ![r] = {e}]
                           /\ e.topic = u.topic /\ e.offset = u.offset /\ e.stage = stage
<1> DEFINE e == [u EXCEPT !.stage = stage]
<1>1. e \in Task /\ e.topic = u.topic /\ e.offset = u.offset /\ e.stage = stage
  BY DEF Task, Stages
<1>2. {[v EXCEPT !.stage = stage] : v \in task[r]} = {e}
  BY Zenon
<1>3. task' = [task EXCEPT ![r] = {e}]
  BY <1>2 DEF Goes
<1> HIDE DEF e
<1>. QED
  BY <1>1, <1>3

LEMMA CommitsCover ==
    Flow => CommitsCoverAnswers
<1> SUFFICES ASSUME Flow, NEW t \in AllTopics, NEW o \in Offsets, o < committed[t]
             PROVE  <<t, o>> \in Settled
  BY DEF CommitsCoverAnswers, Settled
<1>1. o \in Nat /\ committed[t] \in Nat /\ position[t] \in Nat /\ o < position[t]
  BY ConsumerAssumption DEF Flow, FlowTypes, Offsets
<1>2. ASSUME NEW u \in task[owner], u.topic = t, u.offset = o PROVE FALSE
  BY <1>1, <1>2 DEF Flow, OwnersTask
<1>. QED
  BY <1>1, <1>2 DEF Flow, Passed

(* A step of the loop of replica r about the command at hand: it goes on     *)
(* with it or is done with it, and it is settled before it is committed or   *)
(* left behind.                                                              *)
LEMMA TaskStep ==
    ASSUME Flow, NEW r \in Replicas, NEW u \in task[r],
           UNCHANGED <<owner, position>>,
           Settled \subseteq Settled', Settled' \subseteq Commands,
           NEW T, task' = [task EXCEPT ![r] = T],
           \/ T = {}
           \/ \E e \in Task : T = {e} /\ e.topic = u.topic /\ e.offset = u.offset,
           T = {} \/ (\E e \in T : e.stage = "commit") => Command(u) \in Settled',
           \/ UNCHANGED committed
           \/ owner = r /\ T = {} /\ committed' = [committed EXCEPT ![u.topic] = u.offset + 1]
    PROVE  Flow'
<1>1. u \in Task /\ task[r] = {u} /\ owner \in Replicas
  BY DEF Flow, FlowTypes
<1>2. /\ u.topic \in AllTopics /\ u.offset \in Nat /\ u.offset + 1 \in 0 .. MaxCommands
  BY <1>1, TaskType
<1>3. /\ task' \in [Replicas -> SUBSET Task]
      /\ task'[r] = T
      /\ \A q \in Replicas \ {r} : task'[q] = task[q]
  BY DEF Flow, FlowTypes
<1>4. owner = r => position[u.topic] = u.offset + 1 /\ committed[u.topic] <= u.offset
  BY DEF Flow, OwnersTask
<1>5. FlowTypes'
  <2>1. committed' \in [AllTopics -> 0 .. MaxCommands]
    BY <1>2 DEF Flow, FlowTypes
  <2>2. \A t \in AllTopics : committed'[t] <= position[t]
    <3>1. CASE UNCHANGED committed
      BY <3>1 DEF Flow, FlowTypes
    <3>2. CASE owner = r /\ committed' = [committed EXCEPT ![u.topic] = u.offset + 1]
      BY <1>2, <1>4, <3>2 DEF Flow, FlowTypes
    <3>. QED
      BY <3>1, <3>2
  <2>3. \A q \in Replicas : \A v \in task'[q] : task'[q] = {v}
    BY <1>3 DEF Flow, FlowTypes
  <2>. QED
    BY <1>3, <2>1, <2>2, <2>3 DEF Flow, FlowTypes
<1>6. OwnersTask'
  <2>1. CASE owner = r
    BY <1>2, <1>3, <1>4, <2>1 DEF OwnersTask
  <2>2. CASE owner # r
    BY <1>1, <1>3, <2>2 DEF Flow, OwnersTask
  <2>. QED
    BY <2>1, <2>2
<1>7. Passed'
  <2> SUFFICES ASSUME NEW t \in AllTopics, NEW o \in Offsets, o < position[t],
                      <<t, o>> \notin Settled'
               PROVE  \E v \in task'[owner] : v.topic = t /\ v.offset = o /\ v.stage # "commit"
    BY DEF Passed
  <2>1. PICK v \in task[owner] : v.topic = t /\ v.offset = o /\ v.stage # "commit"
    BY DEF Flow, Passed
  <2>2. CASE owner # r
    BY <1>1, <1>3, <2>1, <2>2
  <2>3. CASE owner = r
    <3>1. v = u /\ Command(u) = <<t, o>>
      BY <1>1, <2>1, <2>3 DEF Command
    <3>. QED
      BY <1>3, <2>1, <2>3, <3>1
  <2>. QED
    BY <2>2, <2>3
<1>8. CommitsSettled'
  <2> SUFFICES ASSUME NEW q \in Replicas, NEW v \in task'[q], v.stage = "commit"
               PROVE  Command(v) \in Settled'
    BY DEF CommitsSettled
  <2>1. CASE q # r
    BY <1>3, <2>1 DEF Flow, CommitsSettled
  <2>2. CASE q = r
    BY <1>3, <2>2 DEF Command
  <2>. QED
    BY <2>1, <2>2
<1>. QED
  BY <1>5, <1>6, <1>7, <1>8 DEF Flow

(* The owner changes or starts anew, from the committed offsets.             *)
LEMMA Repositioned ==
    ASSUME Flow, NEW r \in Replicas, task' = [task EXCEPT ![r] = {}],
           \/ owner' = r /\ position' = committed
           \/ owner' # r /\ UNCHANGED <<owner, position>>,
           UNCHANGED <<committed, answered, dead, lost>>
    PROVE  Flow'
<1>1. /\ task' \in [Replicas -> SUBSET Task] /\ task'[r] = {}
      /\ \A q \in Replicas \ {r} : task'[q] = task[q]
      /\ Settled' = Settled
  BY DEF Flow, FlowTypes, Settled
<1>2. FlowTypes'
  <2>1. \A t \in AllTopics : committed[t] \in Nat /\ committed[t] <= position[t]
    BY DEF Flow, FlowTypes
  <2>2. owner' \in Replicas /\ position' \in [AllTopics -> 0 .. MaxCommands]
    BY DEF Flow, FlowTypes
  <2>3. \A t \in AllTopics : committed'[t] <= position'[t]
    BY <2>1
  <2>4. \A q \in Replicas : \A v \in task'[q] : task'[q] = {v}
    BY <1>1 DEF Flow, FlowTypes
  <2>. QED
    BY <1>1, <2>2, <2>3, <2>4 DEF Flow, FlowTypes
<1>3. OwnersTask' /\ Passed'
  <2>1. CASE owner' = r /\ position' = committed
    BY <1>1, <2>1, CommitsCover DEF OwnersTask, Passed, CommitsCoverAnswers, Settled
  <2>2. CASE owner' # r /\ UNCHANGED <<owner, position>>
    <3>1. task'[owner'] = task[owner]
      BY <1>1, <2>2 DEF Flow, FlowTypes
    <3>. QED
      BY <1>1, <2>2, <3>1 DEF Flow, OwnersTask, Passed
  <2>. QED
    BY <2>1, <2>2
<1>4. CommitsSettled'
  BY <1>1 DEF Flow, CommitsSettled
<1>. QED
  BY <1>2, <1>3, <1>4 DEF Flow

(* Replica r goes on to the tasks T and the counts F, that count three just  *)
(* for a command on its way to the dead letter queue.                        *)
LEMMA CountsStep ==
    ASSUME Flow, Counts, NEW r \in Replicas,
           NEW T, task' = [task EXCEPT ![r] = T],
           NEW F \in [Offsets -> 0 .. 3], failCounts' = [failCounts EXCEPT ![r] = F],
           failures' \in [Offsets -> 0 .. 3],
           \A o \in Offsets : failures[o] <= failures'[o] /\ F[o] <= failures'[o],
           \A o \in Offsets : F[o] = 3 <=> AtDLQ(T, o),
           dead' \subseteq Commands,
           \A c \in dead' \ dead : failures'[c[2]] = 3
    PROVE  Counts'
<1>1. /\ task'[r] = T /\ \A q \in Replicas \ {r} : task'[q] = task[q]
  BY DEF Flow, FlowTypes
<1>2. /\ failCounts' \in [Replicas -> [Offsets -> 0 .. 3]]
      /\ failCounts'[r] = F /\ \A q \in Replicas \ {r} : failCounts'[q] = failCounts[q]
  BY DEF Counts
<1>3. \A q \in Replicas, o \in Offsets : failCounts'[q][o] <= failures'[o]
  <2> SUFFICES ASSUME NEW q \in Replicas, NEW o \in Offsets
               PROVE  failCounts'[q][o] <= failures'[o]
    OBVIOUS
  <2>1. /\ failCounts[q][o] \in 0 .. 3 /\ failCounts[q][o] <= failures[o]
        /\ failures[o] \in 0 .. 3 /\ failures'[o] \in 0 .. 3
    BY DEF Counts
  <2>2. CASE q = r
    BY <1>2, <2>2
  <2>3. CASE q # r
    BY <1>2, <2>1, <2>3
  <2>. QED
    BY <2>2, <2>3
<1>4. LastCounts'
  <2> SUFFICES ASSUME NEW q \in Replicas, NEW o \in Offsets
               PROVE  failCounts'[q][o] = 3 <=> AtDLQ(task'[q], o)
    BY DEF LastCounts, AtDLQ
  <2>1. CASE q = r
    BY <1>1, <1>2, <2>1
  <2>2. CASE q # r
    BY <1>1, <1>2, <2>2 DEF Counts, LastCounts
  <2>. QED
    BY <2>1, <2>2
<1>5. DeadLetterAtThree'
  <2> SUFFICES ASSUME NEW c \in dead', c \in dead PROVE failures'[c[2]] = 3
    BY DEF DeadLetterAtThree
  <2>1. c[2] \in Offsets /\ failures[c[2]] = 3
    BY DEF Counts, DeadLetterAtThree, Commands
  <2>. QED
    BY <2>1
<1>. QED
  BY <1>2, <1>3, <1>4, <1>5 DEF Counts

(* A step that counts nothing, before or after which no command is on its    *)
(* way to the dead letter queue.                                             *)
LEMMA CountsKept ==
    ASSUME Flow, Counts, NEW r \in Replicas,
           NEW T, task' = [task EXCEPT ![r] = T],
           UNCHANGED <<failCounts, failures, dead>>,
           \A o \in Offsets : ~AtDLQ(task[r], o) /\ ~AtDLQ(T, o)
    PROVE  Counts'
<1>1. PICK F : F = failCounts[r]
  OBVIOUS
<1>2. F \in [Offsets -> 0 .. 3] /\ failCounts' = [failCounts EXCEPT ![r] = F]
  BY <1>1 DEF Counts
<1>3. failures' \in [Offsets -> 0 .. 3] /\ dead' \subseteq Commands /\ dead' \ dead = {}
  BY DEF Counts
<1>4. \A o \in Offsets : failures[o] <= failures'[o] /\ F[o] <= failures'[o]
  BY <1>1 DEF Counts
<1>5. \A o \in Offsets : F[o] = 3 <=> AtDLQ(T, o)
  BY <1>1 DEF Counts, LastCounts
<1>. QED
  BY <1>2, <1>3, <1>4, <1>5, CountsStep

-----------------------------------------------------------------------------
LEMMA InitInv == Init => IInv
<1> SUFFICES ASSUME Init PROVE IInv
  OBVIOUS
<1>1. owner \in Replicas
  BY ConsumerAssumption DEF Init
<1>2. FlowTypes
  BY <1>1, ConsumerAssumption DEF Init, FlowTypes, Settled
<1>3. OwnersTask /\ CommitsSettled
  BY <1>1 DEF Init, OwnersTask, CommitsSettled
<1>4. Passed
  BY ConsumerAssumption DEF Init, Passed, Offsets
<1>5. Counts
  BY DEF Init, Counts, LastCounts, AtDLQ, DeadLetterAtThree
<1>. QED
  BY <1>2, <1>3, <1>4, <1>5, ConsumerAssumption DEF Init, IInv, Flow

LEMMA ReadMessageInv ==
    ASSUME IInv, NEW r \in Replicas, NEW t \in AllTopics, ReadMessage(r, t)
    PROVE  IInv'
<1> DEFINE u == [topic |-> t, offset |-> position[t], stage |-> "process"]
<1>1. /\ owner = r /\ task[r] = {} /\ position[t] < MaxCommands
      /\ task' = [task EXCEPT ![r] = {u}]
      /\ position' = [position EXCEPT ![t] = @ + 1]
      /\ UNCHANGED <<pbc, owner, committed, failCounts, failures, answered, dead, lost,
                     faults>>
  BY DEF ReadMessage, Reads, history
<1>2. /\ position[t] \in Nat /\ position[t] \in Offsets /\ position[t] + 1 \in 0 .. MaxCommands
      /\ committed[t] <= position[t]
  BY <1>1, ConsumerAssumption DEF IInv, Flow, FlowTypes, Offsets
<1>3. u \in Task /\ u.topic = t /\ u.offset = position[t] /\ u.stage = "process"
  BY <1>2 DEF Task, Stages
<1> HIDE DEF u
<1>4. /\ task' \in [Replicas -> SUBSET Task] /\ task'[r] = {u}
      /\ \A q \in Replicas \ {r} : task'[q] = task[q]
      /\ Settled' = Settled
  BY <1>1, <1>3 DEF IInv, Flow, FlowTypes, Settled
<1>5. /\ position' \in [AllTopics -> 0 .. MaxCommands]
      /\ position'[t] = position[t] + 1
      /\ \A s \in AllTopics \ {t} : position'[s] = position[s]
  BY <1>1, <1>2 DEF IInv, Flow, FlowTypes
<1>6. FlowTypes'
  <2>1. \A s \in AllTopics : committed'[s] <= position'[s]
    BY <1>1, <1>2, <1>5 DEF IInv, Flow, FlowTypes
  <2>2. \A q \in Replicas : \A v \in task'[q] : task'[q] = {v}
    BY <1>4 DEF IInv, Flow, FlowTypes
  <2>. QED
    BY <1>1, <1>4, <1>5, <2>1, <2>2 DEF IInv, Flow, FlowTypes
<1>7. OwnersTask'
  BY <1>1, <1>2, <1>3, <1>4, <1>5 DEF OwnersTask
<1>8. Passed'
  <2> SUFFICES ASSUME NEW s \in AllTopics, NEW o \in Offsets, o < position'[s],
                      <<s, o>> \notin Settled
               PROVE  \E v \in task'[owner] : v.topic = s /\ v.offset = o /\ v.stage # "commit"
    BY <1>1, <1>4 DEF Passed
  <2>1. o \in Nat
    BY ConsumerAssumption DEF Offsets
  <2>2. ~(o < position[s])
    BY <1>1 DEF IInv, Flow, Passed
  <2>3. s = t /\ o = position[t]
    BY <1>2, <1>5, <2>1, <2>2
  <2>. QED
    BY <1>1, <1>3, <1>4, <2>3
<1>9. CommitsSettled'
  BY <1>3, <1>4 DEF IInv, Flow, CommitsSettled
<1>10. Counts'
  <2>1. \A o \in Offsets : ~AtDLQ(task[r], o) /\ ~AtDLQ({u}, o)
    BY <1>1, <1>3 DEF AtDLQ
  <2>2. PICK T : T = {u}
    OBVIOUS
  <2>. QED
    BY <1>1, <2>1, <2>2, CountsKept DEF IInv
<1>. QED
  BY <1>1, <1>6, <1>7, <1>8, <1>9, <1>10 DEF IInv, Flow

(* What became of the reply to a command, or of its dead letter, settles it. *)
LEMMA Answers ==
    ASSUME Settled \subseteq Commands, NEW u, Command(u) \in Commands,
           \/ Answer(u) \/ Loses(u)
           \/ dead' = dead \cup {Command(u)} /\ UNCHANGED <<answered, lost>>
    PROVE  /\ Settled \subseteq Settled' /\ Settled' \subseteq Commands
           /\ Command(u) \in Settled'
BY DEF Settled, Answer, Loses

LEMMA Faults ==
    ASSUME faults \in 0 .. MaxFaults, Fault \/ NoFault
    PROVE  faults' \in 0 .. MaxFaults
BY ConsumerAssumption DEF Fault, NoFault

(* The command at hand goes on to a stage, or is left; it is settled before  *)
(* it is committed or left.                                                  *)
LEMMA StageFlow ==
    ASSUME Flow, NEW r \in Replicas, NEW u \in task[r],
           UNCHANGED <<owner, position, committed>>,
           Settled \subseteq Settled', Settled' \subseteq Commands,
           \/ Ends(r) /\ Command(u) \in Settled'
           \/ Goes(r, "commit") /\ Command(u) \in Settled'
           \/ Goes(r, "reply")
           \/ Goes(r, "dlq")
    PROVE  Flow'
<1>1. u \in Task /\ task[r] = {u}
  BY DEF Flow, FlowTypes
<1>2. CASE Ends(r) /\ Command(u) \in Settled'
  <2>1. task' = [task EXCEPT ![r] = {}]
    BY <1>2 DEF Ends
  <2>. QED
    BY <1>2, <2>1, TaskStep
<1>3. ASSUME NEW stage \in {"reply", "dlq", "commit"}, Goes(r, stage),
             stage = "commit" => Command(u) \in Settled'
      PROVE  Flow'
  <2>1. PICK e \in Task : /\ task' = [task EXCEPT ![r] = {e}]
                          /\ e.topic = u.topic /\ e.offset = u.offset /\ e.stage = stage
    BY <1>1, <1>3, GoesType
  <2>. QED
    BY <1>3, <2>1, TaskStep
<1>. QED
  BY <1>2, <1>3

(* The tasks a step leaves the replica with, as to the dead letter queue.    *)
LEMMA StageTasks ==
    ASSUME NEW r, NEW u \in Task, task[r] = {u}
    PROVE  /\ Ends(r) => \E T : /\ task' = [task EXCEPT ![r] = T]
                                /\ \A o \in Offsets : ~AtDLQ(T, o)
           /\ \A stage \in {"reply", "commit"} : Goes(r, stage) =>
                 \E T : /\ task' = [task EXCEPT ![r] = T]
                        /\ \A o \in Offsets : ~AtDLQ(T, o)
           /\ Goes(r, "dlq") => \E T : /\ task' = [task EXCEPT ![r] = T]
                                       /\ \A o \in Offsets : AtDLQ(T, o) <=> o = u.offset
<1>1. ASSUME Ends(r)
      PROVE  \E T : task' = [task EXCEPT ![r] = T] /\ \A o \in Offsets : ~AtDLQ(T, o)
  <2>1. \A o \in Offsets : ~AtDLQ({}, o)
    BY DEF AtDLQ
  <2>. QED
    BY <1>1, <2>1 DEF Ends
<1>2. ASSUME NEW stage \in {"reply", "commit"}, Goes(r, stage)
      PROVE  \E T : task' = [task EXCEPT ![r] = T] /\ \A o \in Offsets : ~AtDLQ(T, o)
  <2>0. stage \in {"process", "reply", "dlq", "commit"}
    OBVIOUS
  <2>1. PICK e \in Task : task' = [task EXCEPT ![r] = {e}] /\ e.stage = stage
    BY <1>2, <2>0, GoesType
  <2>2. \A o \in Offsets : ~AtDLQ({e}, o)
    BY <2>1 DEF AtDLQ
  <2>. QED
    BY <2>1, <2>2
<1>3. ASSUME Goes(r, "dlq")
      PROVE  \E T : /\ task' = [task EXCEPT ![r] = T]
                    /\ \A o \in Offsets : AtDLQ(T, o) <=> o = u.offset
  <2>1. PICK e \in Task : /\ task' = [task EXCEPT ![r] = {e}]
                          /\ e.offset = u.offset /\ e.stage = "dlq"
    BY <1>3, GoesType
  <2>2. \A o \in Offsets : AtDLQ({e}, o) <=> o = u.offset
    BY <2>1 DEF AtDLQ
  <2>. QED
    BY <2>1, <2>2
<1>. QED
  BY <1>1, <1>2, <1>3

(* ClearCount, after which nothing is on its way to the dead letter queue.   *)
LEMMA ClearCounts ==
    ASSUME IInv, NEW r \in Replicas, NEW u \in task[r], ClearCount(r, u),
           Ends(r) \/ Goes(r, "reply") \/ Goes(r, "commit"),
           UNCHANGED failures,
           dead' \subseteq Commands,
           \A c \in dead' \ dead : failures[c[2]] = 3
    PROVE  Counts'
<1>1. u \in Task /\ task[r] = {u} /\ u.offset \in Offsets /\ Counts /\ Flow
  BY TaskType DEF IInv, Flow, FlowTypes
<1>2. PICK T : task' = [task EXCEPT ![r] = T] /\ \A o \in Offsets : ~AtDLQ(T, o)
  BY <1>1, StageTasks
<1>3. PICK F : F = [failCounts[r] EXCEPT ![u.offset] = 0]
  OBVIOUS
<1>4. /\ failCounts[r] \in [Offsets -> 0 .. 3]
      /\ \A o \in Offsets : failCounts[r][o] <= failures[o]
      /\ \A o \in Offsets : failCounts[r][o] = 3 => o = u.offset
      /\ failures \in [Offsets -> 0 .. 3]
  BY <1>1 DEF Counts, LastCounts, AtDLQ
<1>5. F \in [Offsets -> 0 .. 3] /\ failCounts' = [failCounts EXCEPT ![r] = F]
  BY <1>1, <1>3, <1>4 DEF Counts, ClearCount
<1>6. \A o \in Offsets : failures[o] <= failures'[o] /\ F[o] <= failures'[o]
  BY <1>1, <1>3, <1>4
<1>7. \A o \in Offsets : F[o] = 3 <=> AtDLQ(T, o)
  BY <1>1, <1>2, <1>3, <1>4
<1>. QED
  BY <1>1, <1>2, <1>4, <1>5, <1>6, <1>7, CountsStep

LEMMA ProcessInv ==
    ASSUME IInv, NEW r \in Replicas, Process(r)
    PROVE  IInv'
<1>1. PICK u \in task[r] :
        /\ u.stage = "process"
        /\ ClearCount(r, u)
        /\ Processing(r, u, Goes(r, "commit"))
        /\ UNCHANGED <<pbc, owner, position, committed, failures>>
  BY DEF Process
<1>2. Settled \subseteq Commands /\ Command(u) \in Commands
  BY TaskType DEF IInv, Flow, FlowTypes
<1>3. /\ \/ (Answer(u) \/ Loses(u)) /\ Goes(r, "commit")
         \/ Goes(r, "reply") /\ UNCHANGED <<answered, dead, lost, faults>>
      /\ UNCHANGED dead
      /\ Fault \/ NoFault
  BY <1>1 DEF Processing, Answer, Loses, NoFault
<1>4. Flow'
  <2>1. CASE (Answer(u) \/ Loses(u)) /\ Goes(r, "commit")
    BY <1>1, <1>2, <2>1, Answers, StageFlow DEF IInv
  <2>2. CASE Goes(r, "reply") /\ UNCHANGED <<answered, dead, lost, faults>>
    <3>1. Settled' = Settled
      BY <2>2 DEF Settled
    <3>. QED
      BY <1>1, <1>2, <2>2, <3>1, StageFlow DEF IInv
  <2>. QED
    BY <1>3, <2>1, <2>2
<1>5. Counts'
  <2>1. dead' \subseteq Commands /\ dead' \ dead = {}
    BY <1>3 DEF IInv, Counts
  <2>. QED
    BY <1>1, <1>3, <2>1, ClearCounts
<1>. QED
  BY <1>1, <1>3, <1>4, <1>5, Faults DEF IInv

LEMMA ProcessFailsInv ==
    ASSUME IInv, NEW r \in Replicas, ProcessFails(r)
    PROVE  IInv'
<1>1. PICK u \in task[r] :
        /\ u.stage = "process"
        /\ failures' = [failures EXCEPT ![u.offset] = IF @ = 3 THEN 3 ELSE @ + 1]
        /\ failCounts' = [failCounts EXCEPT ![r][u.offset] = @ + 1]
        /\ \/ ~IsLast(r, u) /\ Processing(r, u, Ends(r))
           \/ /\ IsLast(r, u)
              /\ Goes(r, "dlq")
              /\ IF pbc = "notificacoes" THEN Answer(u) \/ Loses(u)
                 ELSE UNCHANGED <<answered, dead, lost, faults>>
        /\ UNCHANGED <<pbc, owner, position, committed>>
  BY DEF ProcessFails
<1>2. /\ u \in Task /\ task[r] = {u} /\ u.offset \in Offsets
      /\ Settled \subseteq Commands /\ Command(u) \in Commands
      /\ Flow /\ Counts
  BY TaskType DEF IInv, Flow, FlowTypes
<1>3. /\ \/ Answer(u) \/ Loses(u)
         \/ ~Ends(r) /\ UNCHANGED <<answered, dead, lost, faults>>
         \/ (Goes(r, "reply") \/ Goes(r, "dlq")) /\ UNCHANGED <<answered, dead, lost, faults>>
      /\ \/ ~IsLast(r, u) /\ Ends(r) /\ (Answer(u) \/ Loses(u))
         \/ ~IsLast(r, u) /\ Goes(r, "reply")
         \/ IsLast(r, u) /\ Goes(r, "dlq")
      /\ UNCHANGED dead
      /\ Fault \/ NoFault
  BY <1>1 DEF Processing, Answer, Loses, NoFault
<1>4. /\ \/ Settled' = Settled
         \/ Answer(u) \/ Loses(u)
      /\ Settled \subseteq Settled' /\ Settled' \subseteq Commands
  <2>1. UNCHANGED <<answered, dead, lost>> => Settled' = Settled
    BY DEF Settled
  <2>. QED
    BY <1>2, <1>3, <2>1, Answers
<1>5. Flow'
  <2>1. CASE Ends(r) /\ (Answer(u) \/ Loses(u))
    BY <1>1, <1>2, <2>1, Answers, StageFlow
  <2>2. CASE Goes(r, "reply") \/ Goes(r, "dlq")
    BY <1>1, <1>2, <1>4, <2>2, StageFlow
  <2>. QED
    BY <1>3, <2>1, <2>2
<1>6. PICK n : n = failCounts[r][u.offset]
  OBVIOUS
<1>7. PICK F : F = [failCounts[r] EXCEPT ![u.offset] = n + 1]
  OBVIOUS
<1>8. /\ failCounts[r] \in [Offsets -> 0 .. 3]
      /\ \A o \in Offsets : failCounts[r][o] <= failures[o]
      /\ \A o \in Offsets : failCounts[r][o] # 3
      /\ failures \in [Offsets -> 0 .. 3]
  BY <1>1, <1>2 DEF Counts, LastCounts, AtDLQ
<1>9. n \in 0 .. 2 /\ n <= failures[u.offset] /\ failures[u.offset] \in 0 .. 3
      /\ (IsLast(r, u) <=> n + 1 = 3)
  BY <1>2, <1>6, <1>8 DEF IsLast
<1>10. /\ F \in [Offsets -> 0 .. 3]
       /\ F[u.offset] = n + 1 /\ \A o \in Offsets \ {u.offset} : F[o] = failCounts[r][o]
       /\ failCounts' = [failCounts EXCEPT ![r] = F]
  <2>1. n + 1 \in 0 .. 3
    BY <1>9
  <2>. QED
    BY <1>1, <1>2, <1>6, <1>7, <1>8, <2>1 DEF Counts
<1>11. /\ failures'[u.offset] = IF failures[u.offset] = 3 THEN 3 ELSE failures[u.offset] + 1
       /\ \A o \in Offsets \ {u.offset} : failures'[o] = failures[o]
       /\ failures' \in [Offsets -> 0 .. 3]
  BY <1>1, <1>2, <1>8
<1>12. \A o \in Offsets : failures[o] <= failures'[o] /\ F[o] <= failures'[o]
  <2> SUFFICES ASSUME NEW o \in Offsets PROVE failures[o] <= failures'[o] /\ F[o] <= failures'[o]
    OBVIOUS
  <2>1. CASE o = u.offset
    BY <1>9, <1>10, <1>11, <2>1
  <2>2. CASE o # u.offset
    BY <1>8, <1>10, <1>11, <2>2
  <2>. QED
    BY <2>1, <2>2
<1>13. dead' \subseteq Commands /\ dead' \ dead = {}
  BY <1>2, <1>3 DEF Counts
<1>14. failCounts' = [failCounts EXCEPT ![r] = F] /\ F \in [Offsets -> 0 .. 3]
       /\ failures' \in [Offsets -> 0 .. 3] /\ dead' \subseteq Commands
       /\ \A c \in dead' \ dead : failures'[c[2]] = 3
  BY <1>10, <1>11, <1>13
<1>15. Counts'
  <2>1. CASE IsLast(r, u) /\ Goes(r, "dlq")
    <3>1. PICK T : task' = [task EXCEPT ![r] = T]
                   /\ \A o \in Offsets : AtDLQ(T, o) <=> o = u.offset
      BY <1>2, <2>1, StageTasks
    <3>2. \A o \in Offsets : F[o] = 3 <=> AtDLQ(T, o)
      BY <1>8, <1>9, <1>10, <2>1, <3>1
    <3>. QED
      BY <1>2, <1>12, <1>14, <3>1, <3>2, CountsStep
  <2>2. CASE ~IsLast(r, u) /\ (Ends(r) \/ Goes(r, "reply"))
    <3>1. PICK T : task' = [task EXCEPT ![r] = T] /\ \A o \in Offsets : ~AtDLQ(T, o)
      BY <1>2, <2>2, StageTasks
    <3>2. \A o \in Offsets : F[o] = 3 <=> AtDLQ(T, o)
      BY <1>8, <1>9, <1>10, <2>2, <3>1
    <3>. QED
      BY <1>2, <1>12, <1>14, <3>1, <3>2, CountsStep
  <2>. QED
    BY <1>3, <2>1, <2>2
<1>. QED
  BY <1>1, <1>3, <1>5, <1>15, Faults DEF IInv

(* The count of a command on its way to the dead letter queue is three, so   *)
(* that three calls failed at its offset.                                    *)
LEMMA SendToDLQInv ==
    ASSUME IInv, NEW r \in Replicas, SendToDLQ(r)
    PROVE  IInv'
<1>1. PICK u \in task[r] :
        /\ u.stage = "dlq"
        /\ \/ dead' = dead \cup {Command(u)} /\ UNCHANGED <<answered, lost>> /\ NoFault
           \/ Loses(u)
        /\ ClearCount(r, u)
        /\ Goes(r, "commit")
        /\ UNCHANGED <<pbc, owner, position, committed, failures>>
  BY DEF SendToDLQ
<1>2. /\ u \in Task /\ u.offset \in Offsets
      /\ Settled \subseteq Commands /\ Command(u) \in Commands /\ dead \subseteq Commands
  BY TaskType DEF IInv, Flow, FlowTypes, Counts
<1>3. Flow'
  BY <1>1, <1>2, Answers, StageFlow DEF IInv
<1>4. failures[u.offset] = 3
  <2>1. failCounts[r][u.offset] = 3
    BY <1>1, <1>2 DEF IInv, Counts, LastCounts, AtDLQ
  <2>2. failures[u.offset] \in 0 .. 3 /\ failCounts[r][u.offset] <= failures[u.offset]
    BY <1>2 DEF IInv, Counts
  <2>. QED
    BY <2>1, <2>2
<1>5. Counts'
  <2>1. Command(u)[2] = u.offset
    BY DEF Command
  <2>2. dead' \subseteq Commands /\ \A c \in dead' \ dead : failures[c[2]] = 3
    BY <1>1, <1>2, <1>4, <2>1 DEF Loses
  <2>. QED
    BY <1>1, <2>2, ClearCounts
<1>6. Fault \/ NoFault
  BY <1>1 DEF Loses
<1>. QED
  BY <1>1, <1>3, <1>5, <1>6, Faults DEF IInv

LEMMA PublishReplyInv ==
    ASSUME IInv, NEW r \in Replicas, PublishReply(r)
    PROVE  IInv'
<1>1. PICK u \in task[r] :
        /\ u.stage = "reply"
        /\ \/ Answer(u) /\ Goes(r, "commit")
           \/ Loses(u) /\ (Ends(r) \/ Goes(r, "commit"))
        /\ UNCHANGED <<pbc, owner, position, committed, failCounts, failures>>
  BY DEF PublishReply
<1>2. /\ u \in Task /\ task[r] = {u}
      /\ Settled \subseteq Commands /\ Command(u) \in Commands
  BY TaskType DEF IInv, Flow, FlowTypes
<1>3. Flow'
  BY <1>1, <1>2, Answers, StageFlow DEF IInv
<1>4. UNCHANGED dead /\ (Fault \/ NoFault)
  BY <1>1 DEF Answer, Loses
<1>5. Counts'
  <2>1. PICK T : task' = [task EXCEPT ![r] = T] /\ \A o \in Offsets : ~AtDLQ(T, o)
    BY <1>1, <1>2, StageTasks
  <2>2. \A o \in Offsets : ~AtDLQ(task[r], o)
    BY <1>1, <1>2 DEF AtDLQ
  <2>. QED
    BY <1>1, <1>4, <2>1, <2>2, CountsKept DEF IInv
<1>. QED
  BY <1>1, <1>3, <1>4, <1>5, Faults DEF IInv

LEMMA CommitMessageInv ==
    ASSUME IInv, NEW r \in Replicas, CommitMessage(r)
    PROVE  /\ IInv'
           /\ \A t \in AllTopics : committed'[t] >= committed[t]
<1>1. PICK u \in task[r] :
        /\ u.stage = "commit"
        /\ Ends(r)
        /\ \/ /\ owner = r
              /\ committed' = [committed EXCEPT ![u.topic] = u.offset + 1]
              /\ NoFault
           \/ owner # r /\ UNCHANGED committed /\ NoFault
           \/ UNCHANGED committed /\ Fault
        /\ UNCHANGED <<pbc, owner, position, failCounts, failures, answered, dead, lost>>
  BY DEF CommitMessage, history
<1>2. Settled' = Settled /\ Settled \subseteq Commands /\ Command(u) \in Settled
  BY <1>1 DEF Settled, IInv, Flow, FlowTypes, CommitsSettled
<1>3. task' = [task EXCEPT ![r] = {}]
  BY <1>1 DEF Ends
<1>4. Flow'
  BY <1>1, <1>2, <1>3, TaskStep DEF IInv
<1>5. Counts'
  <2>1. PICK T : T = {}
    OBVIOUS
  <2>2. task[r] = {u}
    BY DEF IInv, Flow, FlowTypes
  <2>3. \A o \in Offsets : ~AtDLQ(task[r], o) /\ ~AtDLQ(T, o)
    BY <1>1, <2>1, <2>2 DEF AtDLQ
  <2>. QED
    BY <1>1, <1>3, <2>1, <2>3, CountsKept DEF IInv
<1>6. \A t \in AllTopics : committed'[t] >= committed[t]
  <2>1. owner = r => u.offset \in Nat /\ committed[u.topic] <= u.offset
    BY TaskType DEF IInv, Flow, FlowTypes, OwnersTask
  <2>. QED
    BY <1>1, <2>1 DEF IInv, Flow, FlowTypes
<1>. QED
  BY <1>1, <1>4, <1>5, <1>6, Faults DEF IInv

LEMMA RebalanceInv ==
    ASSUME IInv, NEW r \in Replicas, Rebalance(r)
    PROVE  IInv'
<1>1. /\ task[r] = {} /\ owner' = r /\ position' = committed /\ Fault
      /\ UNCHANGED <<pbc, committed, task, failCounts, failures, answered, dead, lost>>
  BY DEF Rebalance, history
<1>2. task' = [task EXCEPT ![r] = {}]
  BY <1>1 DEF IInv, Flow, FlowTypes
<1>3. Flow'
  BY <1>1, <1>2, Repositioned DEF IInv
<1>4. Counts'
  BY <1>1 DEF IInv, Counts, LastCounts, AtDLQ, DeadLetterAtThree
<1>. QED
  BY <1>1, <1>3, <1>4, Faults DEF IInv

LEMMA RestartInv ==
    ASSUME IInv, NEW r \in Replicas, Restart(r)
    PROVE  IInv'
<1>1. /\ task' = [task EXCEPT ![r] = {}]
      /\ failCounts' = [failCounts EXCEPT ![r] = [o \in Offsets |-> 0]]
      /\ position' = IF owner = r THEN committed ELSE position
      /\ Fault
      /\ UNCHANGED <<pbc, owner, committed, failures, answered, dead, lost>>
  BY DEF Restart, Ends, history
<1>2. Flow'
  BY <1>1, Repositioned DEF IInv
<1>3. Counts'
  <2>1. PICK F : F = [o \in Offsets |-> 0]
    OBVIOUS
  <2>2. PICK T : T = {}
    OBVIOUS
  <2>3. F \in [Offsets -> 0 .. 3] /\ \A o \in Offsets : F[o] = 0
    BY <2>1
  <2>4. \A o \in Offsets : F[o] = 3 <=> AtDLQ(T, o)
    BY <2>2, <2>3 DEF AtDLQ
  <2>5. \A o \in Offsets : failures[o] \in 0 .. 3
    BY DEF IInv, Counts
  <2>6. \A o \in Offsets : failures[o] <= failures'[o] /\ F[o] <= failures'[o]
    BY <1>1, <2>3, <2>5
  <2>7. /\ failures' \in [Offsets -> 0 .. 3] /\ dead' \subseteq Commands
        /\ dead' \ dead = {}
    BY <1>1 DEF IInv, Counts
  <2>. QED
    BY <1>1, <2>1, <2>2, <2>3, <2>4, <2>6, <2>7, CountsStep DEF IInv
<1>. QED
  BY <1>1, <1>2, <1>3, Faults DEF IInv

-----------------------------------------------------------------------------
LEMMA StepInv ==
    ASSUME IInv, [Next]_vars
    PROVE  IInv' /\ \A t \in AllTopics : committed'[t] >= committed[t]
<1>1. ASSUME UNCHANGED committed PROVE \A t \in AllTopics : committed'[t] >= committed[t]
  BY <1>1 DEF IInv, Flow, FlowTypes
<1>2. CASE UNCHANGED vars
  <2>1. /\ UNCHANGED <<pbc, owner, position, committed, task, failCounts, failures, dead, faults>>
        /\ Settled' = Settled
    BY <1>2 DEF vars, Settled
  <2>. QED
    BY <1>1, <2>1 DEF IInv, Flow, FlowTypes, OwnersTask, Passed, CommitsSettled, Counts,
                      LastCounts, AtDLQ, DeadLetterAtThree
<1>3. ASSUME NEW r \in Replicas, LoopStep(r) \/ Rebalance(r) \/ Restart(r)
      PROVE  IInv' /\ \A t \in AllTopics : committed'[t] >= committed[t]
  <2>1. ASSUME NEW t \in AllTopics, ReadMessage(r, t) PROVE IInv' /\ UNCHANGED committed
    BY <2>1, ReadMessageInv DEF ReadMessage
  <2>2. CASE Process(r)
    BY <1>1, <2>2, ProcessInv DEF Process
  <2>3. CASE ProcessFails(r)
    BY <1>1, <2>3, ProcessFailsInv DEF ProcessFails
  <2>4. CASE PublishReply(r)
    BY <1>1, <2>4, PublishReplyInv DEF PublishReply
  <2>8. CASE SendToDLQ(r)
    BY <1>1, <2>8, SendToDLQInv DEF SendToDLQ
  <2>5. CASE CommitMessage(r)
    BY <2>5, CommitMessageInv
  <2>6. CASE Rebalance(r)
    BY <1>1, <2>6, RebalanceInv DEF Rebalance
  <2>7. CASE Restart(r)
    BY <1>1, <2>7, RestartInv DEF Restart
  <2>. QED
    BY <1>1, <1>3, <2>1, <2>2, <2>3, <2>4, <2>5, <2>6, <2>7, <2>8 DEF LoopStep
<1>. QED
  BY <1>2, <1>3 DEF Next

THEOREM Inductive == Spec => []IInv
<1>1. IInv /\ [Next]_vars => IInv'
  BY StepInv
<1>. QED
  BY InitInv, <1>1, PTL DEF Spec

(* The offsets stay in order: what is committed was read, and what was read  *)
(* is there; the counts of failures stay below three.                        *)
THEOREM TypeCorrect == Spec => []TypeOK
<1>1. IInv => TypeOK
  BY DEF IInv, Flow, FlowTypes, Settled, Counts, TypeOK
<1>. QED
  BY <1>1, Inductive, PTL

(* Whatever replicas die or lose the partitions in the loop of Run, below a  *)
(* committed offset there is no command that was neither answered nor put on *)
(* the dead letter queue, unless Kafka lost its reply or its dead letter.    *)
THEOREM CommitsAreSafe == Spec => []CommitsCoverAnswers
<1>1. IInv => CommitsCoverAnswers
  BY CommitsCover DEF IInv
<1>. QED
  BY <1>1, Inductive, PTL

(* A command goes to the dead letter queue after three failures at its       *)
(* offset.                                                                   *)
THEOREM DeadLettersFailed == Spec => []DeadLetterAtThree
<1>1. IInv => DeadLetterAtThree
  BY DEF IInv, Counts
<1>. QED
  BY <1>1, Inductive, PTL

(* CommitMessage never moves a topic's offset back: it commits the command   *)
(* the owner read last, and the group refuses former owners.                 *)
THEOREM OffsetsGoForward == Spec => CommittedNeverMovesBack
<1>1. IInv /\ [Next]_vars => [\A t \in AllTopics : committed'[t] >= committed[t]]_vars
  BY StepInv
<1>. QED
  BY <1>1, Inductive, PTL DEF Spec, CommittedNeverMovesBack
================================================================================
