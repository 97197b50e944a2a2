---------------------------- MODULE PedidosStoreProofs ----------------------------
(***************************************************************************)
(* Proofs about PedidosStore, for any orders, keys, tasks and bounds.      *)
(*                                                                         *)
(* AnsweredIsStored needs the same of orders that are saved and not        *)
(* answered yet (Stored).  RefusalsAreFounded needs that the breaker       *)
(* counts no failure that was none (Founded).                              *)
(*                                                                         *)
(* ListingIsSound: pages are read off the ranks of the orders, newest      *)
(* first.  The table is finite, as a call adds one order at most; with     *)
(* limits of 1 or more the cursors of a walk go back in time, so that a    *)
(* walk exists and, by induction over cursors, goes back in time and       *)
(* misses only ties.  Induction is over a set of naturals, of which the    *)
(* library's WFMin gives a first-order form.                               *)
(***************************************************************************)
EXTENDS PedidosStore, BreakerProofs, SequenceTheorems, FiniteSetTheorems

Fates == SUBSET {"answered", "deleted", "erased"}

Typed ==
    /\ rows \in [Orders -> Status \cup {"NONE"}]
    /\ idem \in [Keys -> SUBSET Orders]
    /\ tasks \in [Tasks -> SUBSET Task]
    /\ origin \in [Orders -> Keys \cup {"nothing", "saga"}]
    /\ fate \in [Orders -> Fates]
    /\ \A t \in Tasks : \A u \in tasks[t] : tasks[t] = {u}

Kept(o) == rows[o] = "NONE" => "deleted" \in fate[o]

Stored ==
    /\ \A o \in Orders : "answered" \in fate[o] => Kept(o)
    /\ \A t \in Tasks : \A u \in tasks[t] : u.stage \in {"del", "idem"} => Kept(u.o)

Flow == Typed /\ Stored

Founded ==
    /\ breaker.state = "closed" => breaker.failures <= failed
    /\ breaker.state # "closed" => failed = 3

Rest ==
    /\ cache \in [Orders -> SUBSET Status]
    /\ breaker \in Breakers(Tasks)
    /\ failed \in 0 .. 3
    /\ calls \in 0 .. MaxCalls
    /\ faults \in 0 .. MaxFaults
    /\ Founded

IInv == Flow /\ Rest

-----------------------------------------------------------------------------
(* A step keeps Flow if it deletes no row without saying so, and answers or  *)
(* goes on to answer no order but a stored one.                              *)
LEMMA FlowStep ==
    ASSUME Flow,
           rows' \in [Orders -> Status \cup {"NONE"}], idem' \in [Keys -> SUBSET Orders],
           origin' \in [Orders -> Keys \cup {"nothing", "saga"}], fate' \in [Orders -> Fates],
           \A o \in Orders :
              /\ rows'[o] = rows[o] \/ rows'[o] # "NONE" \/ "deleted" \in fate'[o]
              /\ "deleted" \in fate[o] => "deleted" \in fate'[o]
              /\ "answered" \in fate'[o] => "answered" \in fate[o] \/ Kept(o),
           \/ UNCHANGED tasks
           \/ \E t \in Tasks :
                 \/ tasks' = [tasks EXCEPT ![t] = {}]
                 \/ \E e \in Task :
                       /\ tasks' = [tasks EXCEPT ![t] = {e}]
                       /\ e.stage \in {"del", "idem"} => Kept(e.o) \/ rows'[e.o] # "NONE"
    PROVE  Flow'
<1>1. Typed /\ Stored
  BY DEF Flow
<1>2. \A o \in Orders : Kept(o) => Kept(o)'
  BY DEF Kept
<1>3. \A u \in Task : u.o \in Orders
  BY DEF Task
<1>4. Typed'
  BY <1>1 DEF Typed
<1>5. \A o \in Orders : "answered" \in fate'[o] => Kept(o)'
  BY <1>1, <1>2 DEF Stored
<1>6. ASSUME NEW t \in Tasks, NEW u \in tasks'[t], u.stage \in {"del", "idem"}
      PROVE  Kept(u.o)'
  <2>1. CASE u \in tasks[t]
    BY <1>1, <1>2, <1>3, <1>6, <2>1 DEF Stored, Typed
  <2>2. CASE u \notin tasks[t]
    <3>1. u \in Task /\ (Kept(u.o) \/ rows'[u.o] # "NONE")
      BY <1>1, <1>6, <2>2 DEF Typed
    <3>2. u.o \in Orders
      BY <1>3, <3>1
    <3>. QED
      BY <1>2, <3>1, <3>2 DEF Kept
  <2>. QED
    BY <2>1, <2>2
<1>. QED
  BY <1>4, <1>5, <1>6 DEF Flow, Stored

(* What a task in progress is.                                               *)
LEMMA TaskFacts ==
    ASSUME IInv, NEW t \in Tasks, NEW u \in tasks[t]
    PROVE  /\ u \in Task /\ tasks[t] = {u} /\ u.o \in Orders /\ u.status \in Status
           /\ u.attempt \in 1 .. Attempts
           /\ u.stage \in {"del", "idem"} => Kept(u.o)
<1>1. u \in Task /\ tasks[t] = {u} /\ (u.stage \in {"del", "idem"} => Kept(u.o))
  BY DEF IInv, Flow, Typed, Stored
<1>. QED
  BY <1>1 DEF Task

(* At first there is nothing.                                                *)
LEMMA InitInv == Init => IInv
<1>. SUFFICES ASSUME Init PROVE IInv
  OBVIOUS
<1>1. /\ NewBreaker("closed") \in Breakers(Tasks) /\ NewBreaker("closed").state = "closed"
      /\ NewBreaker("closed").failures = 0
  BY NewBreakerType
<1>2. Rest
  BY <1>1, PedidosAssumption DEF Init, Rest, Founded
<1>3. Flow
  BY DEF Init, Flow, Typed, Stored, Fates
<1>. QED
  BY <1>2, <1>3 DEF IInv

(* The breaker and the history of failures count the same reports.           *)
LEMMA ReportFounded ==
    ASSUME Rest, NEW t \in Tasks, Report(t, TRUE) \/ Report(t, FALSE)
    PROVE  breaker' \in Breakers(Tasks) /\ failed' \in 0 .. 3 /\ Founded'
<1>. DEFINE b == breaker
           l == Left(b, t)
<1>1. /\ b \in Breakers(Tasks) /\ failed \in 0 .. 3
      /\ b.state \in {"closed", "half-open", "open"} /\ b.failures \in 0 .. 2
      /\ b.state = "closed" => b.failures <= failed
      /\ b.state # "closed" => failed = 3
  BY DEF Rest, Founded, Breakers
<1>2. l \in Breakers(Tasks) /\ l.state = b.state /\ l.failures = b.failures
  BY <1>1, LeftType
<1>3. CASE Report(t, TRUE)
  <2>1. failed' = failed /\ (breaker' = b \/ breaker' = Succeeded(l))
    BY <1>3 DEF Report, Reported
  <2>2. NewBreaker("closed").state = "closed" /\ NewBreaker("closed").failures = 0
    BY NewBreakerType
  <2>3. /\ Succeeded(l) \in Breakers(Tasks) /\ Succeeded(l).failures \in 0 .. 2
        /\ \/ Succeeded(l).state = l.state /\ Succeeded(l).failures <= l.failures
           \/ Succeeded(l).state = "closed" /\ Succeeded(l).failures = 0
    BY <1>2, <2>2, SuccessType DEF Breakers
  <2>. HIDE DEF l
  <2>. QED
    BY <1>1, <1>2, <2>1, <2>3 DEF Founded
<1>4. CASE Report(t, FALSE)
  <2>1. /\ failed' = IF failed = 3 THEN failed ELSE failed + 1
        /\ breaker' = b \/ breaker' = Failed(l)
    BY <1>4 DEF Report, Reported
  <2>2. NewBreaker("open").state = "open"
    BY NewBreakerType
  <2>3. /\ Failed(l) \in Breakers(Tasks)
        /\ \/ l.state = "closed" /\ Failed(l).state = "closed" /\ Failed(l).failures = l.failures + 1
           \/ Failed(l).state = "open" /\ (l.state = "closed" => l.failures + 1 >= 3)
    BY <1>2, <2>2, FailureType
  <2>4. Failed(l).failures \in 0 .. 2
    BY <2>3 DEF Breakers
  <2>. HIDE DEF l
  <2>. QED
    BY <1>1, <1>2, <2>1, <2>3, <2>4 DEF Founded
<1>. QED
  BY <1>3, <1>4

(* A task that goes to another stage is the same otherwise.                 *)
LEMMA GoesType ==
    ASSUME NEW t, NEW u \in Task, tasks[t] = {u},
           NEW stage \in {"save", "saving", "del", "idem", "select", "selecting", "fill"},
           Goes(t, stage)
    PROVE  \E e \in Task : /\ tasks' = [tasks EXCEPT ![t] = {e}]
                           /\ e.op = u.op /\ e.o = u.o /\ e.stage = stage
<1>. DEFINE e == [u EXCEPT !.stage = stage]
<1>1. e \in Task /\ e.op = u.op /\ e.o = u.o /\ e.stage = stage
  BY DEF Task
<1>2. {[v EXCEPT !.stage = stage] : v \in tasks[t]} = {e}
  BY Zenon
<1>3. tasks' = [tasks EXCEPT ![t] = {e}]
  BY <1>2 DEF Goes
<1>. HIDE DEF e
<1>. QED
  BY <1>1, <1>3

(* After an attempt that failed the save is tried again, or given up.        *)
LEMMA FailedMove ==
    ASSUME NEW t, NEW u \in Task, tasks[t] = {u}, AttemptFailed(t, u)
    PROVE  \/ tasks' = [tasks EXCEPT ![t] = {}]
           \/ \E e \in Task : tasks' = [tasks EXCEPT ![t] = {e}] /\ e.stage = "save"
<1>1. CASE u.attempt < Attempts
  <2>. DEFINE e == [u EXCEPT !.stage = "save", !.attempt = u.attempt + 1]
  <2>1. u.attempt + 1 \in 1 .. Attempts
    BY <1>1 DEF Task, Attempts
  <2>2. e \in Task /\ e.stage = "save"
    BY <2>1 DEF Task
  <2>3. tasks' = [tasks EXCEPT ![t] = {e}]
    BY <1>1 DEF AttemptFailed, TriesAgain
  <2>. HIDE DEF e
  <2>. QED
    BY <2>2, <2>3
<1>2. CASE ~(u.attempt < Attempts)
  BY <1>2 DEF AttemptFailed, Ends
<1>. QED
  BY <1>1, <1>2

(* Calls and faults stay within their bounds.                                *)
LEMMA Bounds ==
    ASSUME Rest
    PROVE  /\ Call => calls' \in 0 .. MaxCalls
           /\ Fault => faults' \in 0 .. MaxFaults
BY PedidosAssumption DEF Rest, Call, Fault

LEMMA BeginTask ==
    ASSUME NEW op \in {"criar", "buscar", "cancelar"}, NEW o \in Orders,
           NEW stage \in {"save", "saving", "del", "idem", "select", "selecting", "fill"},
           NEW status \in Status, NEW t, Begins(t, op, o, stage, status)
    PROVE  /\ tasks[t] = {} /\ Call
           /\ \E e \in Task : /\ tasks' = [tasks EXCEPT ![t] = {e}]
                               /\ e.op = op /\ e.o = o /\ e.stage = stage
<1> DEFINE e == [op |-> op, o |-> o, stage |-> stage, status |-> status, attempt |-> 1]
<1>1. e \in Task /\ e.op = op /\ e.o = o /\ e.stage = stage
  BY DEF Task, Attempts
<1>2. tasks[t] = {} /\ Call /\ tasks' = [tasks EXCEPT ![t] = {e}]
  BY DEF Begins
<1> HIDE DEF e
<1>. QED
  BY <1>1, <1>2

-----------------------------------------------------------------------------
(* What requests and commands begin with *)

LEMMA NewPedidoInv ==
    ASSUME IInv, NEW t \in Tasks, NEW o \in Orders, NEW for \in Keys \cup {"saga"},
           NewPedido(t, o, for), Fault \/ UNCHANGED faults
    PROVE  IInv'
<1>1. /\ origin' = [origin EXCEPT ![o] = for]
      /\ Begins(t, "criar", o, "save", "PENDENTE")
      /\ UNCHANGED <<rows, cache, idem, breaker, fate, failed>>
  BY DEF NewPedido
<1>2. Call /\ \E e \in Task : tasks' = [tasks EXCEPT ![t] = {e}] /\ e.stage = "save"
  BY <1>1, BeginTask DEF Status
<1>3. Flow'
  BY <1>1, <1>2, FlowStep DEF IInv, Flow, Typed
<1>4. Rest'
  BY <1>1, <1>2, Bounds DEF IInv, Rest, Founded
<1>. QED
  BY <1>3, <1>4 DEF IInv

(* So do the requests and commands about an order that is there.             *)
LEMMA RequestInv ==
    ASSUME IInv, NEW t \in Tasks, NEW o \in Orders,
           \/ \E k \in Keys : CriarPedido(t, o, k)
           \/ CmdCriarPedido(t, o)
           \/ BuscarPedido(t, o)
           \/ CmdCancelarPedido(t, o)
    PROVE  IInv'
<1>1. CASE (\E k \in Keys : CriarPedido(t, o, k)) \/ CmdCriarPedido(t, o)
  <2>1. /\ \E for \in Keys \cup {"saga"} : NewPedido(t, o, for)
        /\ Fault \/ UNCHANGED faults
    BY <1>1 DEF CriarPedido, CmdCriarPedido, Misses
  <2>. QED
    BY <2>1, NewPedidoInv
<1>2. CASE BuscarPedido(t, o) \/ CmdCancelarPedido(t, o)
  <2>1. /\ \/ Begins(t, "buscar", o, "select", "PENDENTE")
           \/ Begins(t, "cancelar", o, "select", "CANCELADO")
           \/ Begins(t, "cancelar", o, "save", "CANCELADO")
        /\ Fault \/ UNCHANGED faults
        /\ UNCHANGED <<rows, cache, idem, breaker, origin, fate, failed>>
    BY <1>2 DEF BuscarPedido, CmdCancelarPedido, Misses, history
  <2>2. /\ Call
        /\ \E e \in Task : tasks' = [tasks EXCEPT ![t] = {e}] /\ e.stage \in {"save", "select"}
    BY <2>1, BeginTask DEF Status
  <2>3. Flow'
    BY <2>1, <2>2, FlowStep DEF IInv, Flow, Typed
  <2>4. Rest'
    BY <2>1, <2>2, Bounds DEF IInv, Rest, Founded
  <2>. QED
    BY <2>3, <2>4 DEF IInv
<1>. QED
  BY <1>1, <1>2

-----------------------------------------------------------------------------
(* Database calls *)

LEMMA ExecuteInv ==
    ASSUME IInv, NEW t \in Tasks, Execute(t)
    PROVE  IInv'
<1>1. PICK u \in tasks[t] :
        /\ \/ /\ Admits(breaker)
              /\ breaker' = Entered(breaker, t)
              /\ Goes(t, IF u.stage = "save" THEN "saving" ELSE "selecting")
           \/ /\ IF u.stage = "save" THEN AttemptFailed(t, u) ELSE Ends(t)
              /\ UNCHANGED breaker
        /\ UNCHANGED <<rows, cache, idem, origin, fate, failed, calls, faults>>
  BY DEF Execute, history
<1>2. u \in Task /\ tasks[t] = {u}
  BY TaskFacts
<1>3. Rest'
  <2>1. CASE Admits(breaker) /\ breaker' = Entered(breaker, t)
    <3>1. /\ breaker' \in Breakers(Tasks) /\ breaker'.state = breaker.state
          /\ breaker'.failures = breaker.failures
      BY <2>1, EnteredType DEF IInv, Rest
    <3>. QED
      BY <1>1, <3>1 DEF IInv, Rest, Founded
  <2>2. CASE UNCHANGED breaker
    BY <1>1, <2>2 DEF IInv, Rest, Founded
  <2>. QED
    BY <1>1, <2>1, <2>2
<1>4. \/ tasks' = [tasks EXCEPT ![t] = {}]
      \/ \E e \in Task : /\ tasks' = [tasks EXCEPT ![t] = {e}]
                          /\ e.stage \in {"save", "saving", "selecting"}
  <2>1. CASE Goes(t, "saving") \/ Goes(t, "selecting")
    BY <1>2, <2>1, GoesType
  <2>2. CASE AttemptFailed(t, u)
    BY <1>2, <2>2, FailedMove
  <2>3. CASE Ends(t)
    BY <2>3 DEF Ends
  <2>. QED
    BY <1>1, <2>1, <2>2, <2>3
<1>5. Flow'
  BY <1>1, <1>4, FlowStep DEF IInv, Flow, Typed
<1>. QED
  BY <1>3, <1>5 DEF IInv

LEMMA ContextDoneInv ==
    ASSUME IInv, NEW t \in Tasks, ContextDone(t)
    PROVE  IInv'
<1>1. /\ tasks' = [tasks EXCEPT ![t] = {}]
      /\ UNCHANGED <<rows, cache, idem, breaker, origin, fate, failed, calls, faults>>
  BY DEF ContextDone, Ends, history
<1>2. Flow'
  BY <1>1, FlowStep DEF IInv, Flow, Typed
<1>3. Rest'
  BY <1>1 DEF IInv, Rest, Founded
<1>. QED
  BY <1>2, <1>3 DEF IInv

LEMMA SalvarInv ==
    ASSUME IInv, NEW t \in Tasks, Salvar(t)
    PROVE  IInv'
<1>1. PICK u \in tasks[t] :
        /\ \/ Upsert(u) /\ Goes(t, "del") /\ Report(t, TRUE) /\ UNCHANGED faults
           \/ /\ Upsert(u) \/ UNCHANGED rows
              /\ AttemptFailed(t, u)
              /\ Report(t, FALSE)
              /\ Fault
        /\ UNCHANGED <<cache, idem, origin, fate, calls>>
  BY DEF Salvar
<1>2. /\ u \in Task /\ tasks[t] = {u} /\ u.o \in Orders /\ u.status \in Status
      /\ rows \in [Orders -> Status \cup {"NONE"}]
  BY TaskFacts DEF IInv, Flow, Typed
<1>3. Rest'
  <2>1. Rest /\ (Report(t, TRUE) \/ Report(t, FALSE)) /\ (Fault \/ UNCHANGED faults)
    BY <1>1 DEF IInv
  <2>2. breaker' \in Breakers(Tasks) /\ failed' \in 0 .. 3 /\ Founded'
    BY <2>1, ReportFounded
  <2>3. faults' \in 0 .. MaxFaults
    BY <2>1, Bounds DEF Rest
  <2>. QED
    BY <1>1, <2>1, <2>2, <2>3 DEF Rest
<1>4. /\ rows' \in [Orders -> Status \cup {"NONE"}]
      /\ \A o \in Orders : rows'[o] = rows[o] \/ rows'[o] # "NONE"
      /\ Upsert(u) => rows'[u.o] # "NONE"
  BY <1>1, <1>2 DEF Upsert, Status
<1>5. \/ tasks' = [tasks EXCEPT ![t] = {}]
      \/ \E e \in Task : /\ tasks' = [tasks EXCEPT ![t] = {e}]
                          /\ (e.stage \in {"del", "idem"} => rows'[e.o] # "NONE")
  <2>1. CASE Upsert(u) /\ Goes(t, "del")
    <3>1. \E e \in Task : tasks' = [tasks EXCEPT ![t] = {e}] /\ e.o = u.o
      BY <1>2, <2>1, GoesType
    <3>. QED
      BY <1>4, <2>1, <3>1
  <2>2. CASE AttemptFailed(t, u)
    BY <1>2, <2>2, FailedMove
  <2>. QED
    BY <1>1, <2>1, <2>2
<1>6. /\ Flow /\ UNCHANGED <<idem, origin, fate>>
      /\ idem \in [Keys -> SUBSET Orders] /\ fate \in [Orders -> Fates]
      /\ origin \in [Orders -> Keys \cup {"nothing", "saga"}]
  BY <1>1 DEF IInv, Flow, Typed
<1>7. ASSUME NEW e \in Task, e.stage \in {"del", "idem"} => rows'[e.o] # "NONE"
      PROVE  e.stage \in {"del", "idem"} => (Kept(e.o) \/ rows'[e.o] # "NONE")
  BY <1>7
<1>8. Flow'
  BY <1>4, <1>5, <1>6, <1>7, FlowStep
<1>. QED
  BY <1>3, <1>8 DEF IInv

LEMMA BuscarPorIDInv ==
    ASSUME IInv, NEW t \in Tasks, BuscarPorID(t)
    PROVE  IInv'
<1>1. PICK u \in tasks[t] :
        /\ \/ /\ rows[u.o] # "NONE"
              /\ tasks' = [tasks EXCEPT ![t] =
                    {[u EXCEPT !.stage = "fill", !.status = rows[u.o]]}]
              /\ Report(t, TRUE)
              /\ UNCHANGED faults
           \/ Ends(t) /\ Report(t, FALSE) /\ (Fault \/ UNCHANGED faults)
        /\ UNCHANGED <<rows, cache, idem, origin, fate, calls>>
  BY DEF BuscarPorID
<1>2. /\ u \in Task /\ u.o \in Orders
      /\ rows[u.o] # "NONE" => rows[u.o] \in Status
  BY TaskFacts DEF IInv, Flow, Typed
<1>3. Rest'
  <2>1. Rest /\ (Report(t, TRUE) \/ Report(t, FALSE)) /\ (Fault \/ UNCHANGED faults)
    BY <1>1 DEF IInv
  <2>2. breaker' \in Breakers(Tasks) /\ failed' \in 0 .. 3 /\ Founded'
    BY <2>1, ReportFounded
  <2>3. faults' \in 0 .. MaxFaults
    BY <2>1, Bounds DEF Rest
  <2>. QED
    BY <1>1, <2>1, <2>2, <2>3 DEF Rest
<1>4. \/ tasks' = [tasks EXCEPT ![t] = {}]
      \/ \E e \in Task : tasks' = [tasks EXCEPT ![t] = {e}] /\ e.stage = "fill"
  <2>1. CASE Ends(t)
    BY <2>1 DEF Ends
  <2>2. CASE /\ rows[u.o] # "NONE"
             /\ tasks' = [tasks EXCEPT ![t] =
                   {[u EXCEPT !.stage = "fill", !.status = rows[u.o]]}]
    <3>. DEFINE e == [u EXCEPT !.stage = "fill", !.status = rows[u.o]]
    <3>1. e \in Task /\ e.stage = "fill"
      BY <1>2, <2>2 DEF Task
    <3>. HIDE DEF e
    <3>. QED
      BY <2>2, <3>1 DEF e
  <2>. QED
    BY <1>1, <2>1, <2>2
<1>5. Flow'
  BY <1>1, <1>4, FlowStep DEF IInv, Flow, Typed
<1>. QED
  BY <1>3, <1>5 DEF IInv

-----------------------------------------------------------------------------
(* Cache calls *)

LEMMA FillInv ==
    ASSUME IInv, NEW t \in Tasks, Fill(t)
    PROVE  IInv'
<1>1. PICK u \in tasks[t] :
        /\ IF u.op = "buscar" THEN Ends(t)
           ELSE tasks' = [tasks EXCEPT ![t] =
                    {[u EXCEPT !.stage = "save", !.status = "CANCELADO"]}]
        /\ CacheSet(u.o, {u.status})
        /\ UNCHANGED <<rows, idem, breaker, origin, fate, failed, calls>>
  BY DEF Fill, history
<1>2. u \in Task /\ u.o \in Orders /\ u.status \in Status
  BY TaskFacts
<1>3. Rest'
  BY <1>1, <1>2, Bounds DEF IInv, Rest, Founded, CacheSet
<1>4. \/ tasks' = [tasks EXCEPT ![t] = {}]
      \/ \E e \in Task : tasks' = [tasks EXCEPT ![t] = {e}] /\ e.stage = "save"
  <2>. DEFINE e == [u EXCEPT !.stage = "save", !.status = "CANCELADO"]
  <2>1. e \in Task /\ e.stage = "save"
    BY <1>2 DEF Task, Status
  <2>2. Ends(t) \/ tasks' = [tasks EXCEPT ![t] = {e}]
    BY <1>1
  <2>. HIDE DEF e
  <2>. QED
    BY <2>1, <2>2 DEF Ends
<1>5. Flow'
  BY <1>1, <1>4, FlowStep DEF IInv, Flow, Typed
<1>. QED
  BY <1>3, <1>5 DEF IInv

LEMMA DelInv ==
    ASSUME IInv, NEW t \in Tasks, Del(t)
    PROVE  IInv'
<1>1. PICK u \in tasks[t] :
        /\ u.stage = "del"
        /\ CacheSet(u.o, {})
        /\ \/ Goes(t, "idem") /\ UNCHANGED fate
           \/ Ends(t) /\ Happens(u.o, "answered")
        /\ UNCHANGED <<rows, idem, breaker, origin, failed, calls>>
  BY DEF Del
<1>2. u \in Task /\ tasks[t] = {u} /\ u.o \in Orders /\ Kept(u.o)
  BY <1>1, TaskFacts
<1>3. Rest'
  BY <1>1, <1>2, Bounds DEF IInv, Rest, Founded, CacheSet
<1>4. Typed
  BY DEF IInv, Flow
<1>5. CASE Goes(t, "idem") /\ UNCHANGED fate
  <2>1. \E e \in Task : tasks' = [tasks EXCEPT ![t] = {e}] /\ e.o = u.o
    BY <1>2, <1>5, GoesType
  <2>2. Flow'
    BY <1>1, <1>2, <1>4, <1>5, <2>1, FlowStep DEF IInv, Typed
  <2>. QED
    BY <1>3, <2>2 DEF IInv
<1>6. CASE Ends(t) /\ Happens(u.o, "answered")
  <2>1. /\ tasks' = [tasks EXCEPT ![t] = {}]
        /\ fate' \in [Orders -> Fates]
        /\ \A o \in Orders : fate'[o] = IF o = u.o THEN fate[o] \cup {"answered"} ELSE fate[o]
    BY <1>2, <1>4, <1>6 DEF Ends, Happens, Typed, Fates
  <2>2. Flow'
    BY <1>1, <1>2, <1>4, <2>1, FlowStep DEF IInv, Typed
  <2>. QED
    BY <1>3, <2>2 DEF IInv
<1>. QED
  BY <1>1, <1>5, <1>6

LEMMA StoreIdempotencyInv ==
    ASSUME IInv, NEW t \in Tasks, StoreIdempotency(t)
    PROVE  IInv'
<1>1. PICK u \in tasks[t] :
        /\ u.stage = "idem"
        /\ \/ idem' = [idem EXCEPT ![origin[u.o]] = {u.o}] /\ UNCHANGED faults
           \/ UNCHANGED idem /\ Fault
        /\ Ends(t)
        /\ Happens(u.o, "answered")
        /\ UNCHANGED <<rows, cache, breaker, origin, failed, calls>>
  BY DEF StoreIdempotency
<1>2. u \in Task /\ u.o \in Orders /\ Kept(u.o) /\ Typed
  BY <1>1, TaskFacts DEF IInv, Flow
<1>3. Rest'
  BY <1>1, Bounds DEF IInv, Rest, Founded
<1>4. idem' \in [Keys -> SUBSET Orders]
  BY <1>1, <1>2 DEF Typed
<1>5. /\ tasks' = [tasks EXCEPT ![t] = {}]
      /\ fate' \in [Orders -> Fates]
      /\ \A o \in Orders : fate'[o] = IF o = u.o THEN fate[o] \cup {"answered"} ELSE fate[o]
  BY <1>1, <1>2 DEF Ends, Happens, Typed, Fates
<1>6. Flow'
  BY <1>1, <1>2, <1>4, <1>5, FlowStep DEF IInv, Typed
<1>. QED
  BY <1>3, <1>6 DEF IInv

(* What expires is forgotten by Redis alone.                                 *)
LEMMA ExpireInv ==
    ASSUME IInv,
           (\E o \in Orders : Expire(o)) \/ (\E k \in Keys : ExpireKey(k))
    PROVE  IInv'
<1>1. /\ cache' \in [Orders -> SUBSET Status]
      /\ idem' \in [Keys -> SUBSET Orders]
      /\ UNCHANGED <<rows, breaker, tasks, origin, fate, failed, calls, faults>>
  BY DEF Expire, ExpireKey, history, IInv, Rest, Flow, Typed
<1>2. Rest'
  BY <1>1 DEF IInv, Rest, Founded
<1>3. Flow'
  BY <1>1, FlowStep DEF IInv, Flow, Typed
<1>. QED
  BY <1>2, <1>3 DEF IInv

-----------------------------------------------------------------------------
LEMMA DeletarPorClienteInv ==
    ASSUME IInv, NEW c \in Clientes, DeletarPorCliente(c)
    PROVE  IInv'
<1>. DEFINE gone == {o \in Orders : Cliente[o] = c /\ rows[o] # "NONE"}
<1>1. /\ rows' = [o \in Orders |-> IF o \in gone THEN "NONE" ELSE rows[o]]
      /\ fate' = [o \in Orders |->
            IF o \notin gone THEN fate[o]
            ELSE fate[o] \cup {"deleted"} \cup
                 (IF "answered" \in fate[o] THEN {"erased"} ELSE {})]
      /\ Call
      /\ UNCHANGED <<cache, idem, breaker, tasks, origin, failed, faults>>
  BY DEF DeletarPorCliente
<1>2. Rest'
  BY <1>1, Bounds DEF IInv, Rest, Founded
<1>. HIDE DEF gone
<1>3. Flow /\ Typed
  BY DEF IInv, Flow
<1>4. rows' \in [Orders -> Status \cup {"NONE"}]
  BY <1>1, <1>3 DEF Typed
<1>5. /\ fate' \in [Orders -> Fates]
      /\ \A o \in Orders :
            /\ "answered" \in fate'[o] <=> "answered" \in fate[o]
            /\ "deleted" \in fate[o] => "deleted" \in fate'[o]
            /\ rows'[o] = rows[o] \/ "deleted" \in fate'[o]
  BY <1>1, <1>3 DEF Typed, Fates
<1>6. Flow'
  BY <1>1, <1>3, <1>4, <1>5, FlowStep DEF Typed
<1>. QED
  BY <1>2, <1>6 DEF IInv

LEMMA BreakerElapsesInv ==
    ASSUME IInv, BreakerElapses
    PROVE  IInv'
<1>1. /\ MayElapse(breaker) /\ breaker' = Elapsed(breaker)
      /\ UNCHANGED <<rows, cache, idem, tasks, origin, fate, failed, calls, faults>>
  BY DEF BreakerElapses, history
<1>2. Rest'
  <2>1. /\ breaker \in Breakers(Tasks) /\ Founded
        /\ breaker.state \in {"closed", "half-open", "open"}
    BY DEF IInv, Rest, Breakers
  <2>2. CASE breaker' = NewBreaker("closed") /\ breaker.state = "closed"
    <3>1. NewBreaker("closed").state = "closed" /\ NewBreaker("closed").failures = 0
      BY NewBreakerType
    <3>2. NewBreaker("closed") \in Breakers(Tasks)
      BY NewBreakerType
    <3>. QED
      BY <1>1, <2>2, <3>1, <3>2 DEF IInv, Rest, Founded
  <2>3. CASE breaker' = NewBreaker("half-open") /\ breaker.state = "open"
    <3>1. NewBreaker("half-open").state = "half-open"
      BY NewBreakerType
    <3>2. NewBreaker("half-open") \in Breakers(Tasks)
      BY NewBreakerType
    <3>. QED
      BY <1>1, <2>3, <3>1, <3>2 DEF IInv, Rest, Founded
  <2>. QED
    BY <1>1, <2>1, <2>2, <2>3, ElapsedType
<1>3. Flow'
  BY <1>1, FlowStep DEF IInv, Flow, Typed
<1>. QED
  BY <1>2, <1>3 DEF IInv

(* No step of PedidosStore leaves the invariant.                             *)
THEOREM Inductive == IInv /\ [Next]_vars => IInv'
<1>. SUFFICES ASSUME IInv, [Next]_vars PROVE IInv'
  OBVIOUS
<1>1. CASE UNCHANGED vars
  <2>1. UNCHANGED <<rows, cache, idem, breaker, tasks, origin, fate, failed, calls, faults>>
    BY <1>1 DEF vars
  <2>2. Flow'
    BY <2>1, FlowStep DEF IInv, Flow, Typed
  <2>. QED
    BY <2>1, <2>2 DEF IInv, Rest, Founded
<1>2. ASSUME NEW t \in Tasks, NEW o \in Orders,
             \/ \E k \in Keys : CriarPedido(t, o, k)
             \/ CmdCriarPedido(t, o)
             \/ BuscarPedido(t, o)
             \/ CmdCancelarPedido(t, o)
      PROVE  IInv'
  BY <1>2, RequestInv
<1>3. ASSUME NEW t \in Tasks, TaskStep(t) PROVE IInv'
  BY <1>3, ExecuteInv, ContextDoneInv, SalvarInv, BuscarPorIDInv, FillInv, DelInv,
     StoreIdempotencyInv DEF TaskStep
<1>4. ASSUME NEW c \in Clientes, DeletarPorCliente(c) PROVE IInv'
  BY <1>4, DeletarPorClienteInv
<1>5. CASE (\E o \in Orders : Expire(o)) \/ (\E k \in Keys : ExpireKey(k))
  BY <1>5, ExpireInv
<1>6. CASE BreakerElapses
  BY <1>6, BreakerElapsesInv
<1>. QED
  BY <1>1, <1>2, <1>3, <1>4, <1>5, <1>6 DEF Next

(* IInv is an invariant of the store.                                        *)
LEMMA AlwaysIInv == Spec => []IInv
  BY InitInv, Inductive, PTL DEF Spec

(* The types of the store: for any tasks, no more than three attempts at a   *)
(* save, and no failure count beyond the breaker's.                          *)
THEOREM TypeCorrect == Spec => []TypeOK
<1>1. IInv => TypeOK
  BY DEF IInv, Flow, Typed, Fates, Rest, TypeOK
<1>. QED
  BY <1>1, AlwaysIInv, PTL

(* What was answered is in the table, unless deleted with its client.        *)
THEOREM AnsweredAreStored == Spec => []AnsweredIsStored
<1>1. IInv => AnsweredIsStored
  BY DEF IInv, Flow, Stored, Kept, AnsweredIsStored
<1>. QED
  BY <1>1, AlwaysIInv, PTL

(* The breaker refuses calls only after three failed.                        *)
THEOREM RefusalsFounded == Spec => []RefusalsAreFounded
<1>1. IInv => RefusalsAreFounded
  BY DEF IInv, Rest, Founded, RefusalsAreFounded
<1>. QED
  BY <1>1, AlwaysIInv, PTL

-----------------------------------------------------------------------------
(* The pages of GET /v1/pedidos *)

(* A set of natural numbers has a least element.                             *)
LEMMA LeastNat ==
    ASSUME NEW T, T \subseteq Nat, T # {}
    PROVE  \E n \in T : \A m \in T : n <= m
<1>1. PICK n \in T : \A m \in T : ~ (<<m, n>> \in OpToRel(<, Nat))
  BY WFMin, NatLessThanWellFounded
<1>2. ASSUME NEW m \in T PROVE n <= m
  <2>1. <<m, n>> \notin OpToRel(<, Nat)
    BY <1>1
  <2>2. ~(m < n)
    BY <2>1 DEF OpToRel
  <2>. QED
    BY <2>2
<1>. QED
  BY <1>2

(* Orders, their creation times and a bound on these.                        *)
Created(S, criado, B) ==
    /\ IsFiniteSet(S) /\ S \subseteq Nat
    /\ B \in Nat
    /\ criado \in [S -> 0 .. B]

(* The orders that may be listed after a cursor; of them, those before       *)
(* order o in the list, and how many these are.                              *)
Older(S, criado, after) == {o \in S : criado[o] < after}

Before(S, criado, after, o) == {p \in Older(S, criado, after) : Precedes(criado, p, o)}

Rank(S, criado, after, o) == Cardinality(Before(S, criado, after, o))

(* A page holds the orders of the first ranks.                               *)
LEMMA PageByRank ==
    ASSUME NEW S, NEW criado, NEW after, NEW limit
    PROVE  Page(S, criado, after, limit) =
              {o \in Older(S, criado, after) : Rank(S, criado, after, o) < Capped(limit)}
  BY DEF Page, Older, Rank, Before

(* The orders before a cursor are finitely many.                             *)
LEMMA OlderType ==
    ASSUME NEW S, NEW criado, NEW B, Created(S, criado, B), NEW after
    PROVE  LET T == Older(S, criado, after)
           IN  IsFiniteSet(T) /\ T \subseteq Nat /\ \A p \in T : criado[p] \in Nat
<1>. DEFINE T == Older(S, criado, after)
<1>1. T \subseteq S
  BY DEF Older
<1>2. \A p \in S : criado[p] \in Nat
  BY DEF Created
<1>3. IsFiniteSet(T)
  BY <1>1, FS_Subset DEF Created
<1>. QED
  BY <1>1, <1>2, <1>3 DEF Created

(* An order listed earlier has fewer before it.                              *)
LEMMA RankOrders ==
    ASSUME NEW S, NEW criado, NEW B, Created(S, criado, B), NEW after \in Nat,
           NEW o \in Older(S, criado, after), NEW q \in Older(S, criado, after),
           Precedes(criado, o, q)
    PROVE  /\ Rank(S, criado, after, o) \in Nat
           /\ Rank(S, criado, after, q) \in Nat
           /\ Rank(S, criado, after, o) < Rank(S, criado, after, q)
<1>. DEFINE X == Before(S, criado, after, o)
            Y == Before(S, criado, after, q)
            T == Older(S, criado, after)
<1>1. IsFiniteSet(T) /\ T \subseteq Nat /\ \A p \in T : criado[p] \in Nat
  BY OlderType
<1>2. X \subseteq T /\ Y \subseteq T /\ o \in T /\ q \in T
  BY DEF Before
<1>3. IsFiniteSet(X) /\ IsFiniteSet(Y)
  BY <1>1, <1>2, FS_Subset
<1>4. o \in Y /\ o \notin X
  BY <1>1, <1>2 DEF Before, Precedes
<1>5. X \subseteq Y
  <2>. SUFFICES ASSUME NEW p \in X PROVE p \in Y
    OBVIOUS
  <2>1. p \in T /\ Precedes(criado, p, o)
    BY DEF Before
  <2>2. p \in Nat /\ o \in Nat /\ q \in Nat
        /\ criado[p] \in Nat /\ criado[o] \in Nat /\ criado[q] \in Nat
    BY <1>1, <1>2, <2>1
  <2>3. Precedes(criado, p, q)
    BY <2>1, <2>2 DEF Precedes
  <2>. QED
    BY <2>1, <2>3 DEF Before
<1>6. Cardinality(X) <= Cardinality(Y) /\ Cardinality(X) # Cardinality(Y)
  BY <1>3, <1>4, <1>5, FS_Subset
<1>7. Cardinality(X) \in Nat /\ Cardinality(Y) \in Nat
  BY <1>3, FS_CardinalityType
<1>. QED
  BY <1>6, <1>7 DEF Rank

(* The ranks of the older orders are the numbers up to their number.         *)
LEMMA RankBijection ==
    ASSUME NEW S, NEW criado, NEW B, Created(S, criado, B), NEW after \in Nat
    PROVE  LET T == Older(S, criado, after)
           IN  /\ Cardinality(T) \in Nat
               /\ \A o \in T : Rank(S, criado, after, o) \in 0 .. Cardinality(T) - 1
               /\ \A o, q \in T :
                     Rank(S, criado, after, o) = Rank(S, criado, after, q) => o = q
               /\ \A n \in 0 .. Cardinality(T) - 1 :
                     \E o \in T : Rank(S, criado, after, o) = n
<1>. DEFINE T == Older(S, criado, after)
            N == Cardinality(T)
            f == [o \in T |-> Rank(S, criado, after, o)]
<1>1. IsFiniteSet(T) /\ T \subseteq Nat /\ \A p \in T : criado[p] \in Nat
  BY OlderType
<1>2. N \in Nat
  BY <1>1, FS_CardinalityType
<1>3. ASSUME NEW o \in T PROVE Rank(S, criado, after, o) \in 0 .. N - 1
  <2>. DEFINE X == Before(S, criado, after, o)
  <2>1. X \subseteq T /\ o \notin X
    BY <1>1 DEF Before, Precedes
  <2>2. IsFiniteSet(X) /\ Cardinality(X) <= N /\ Cardinality(X) # N
    BY <1>1, <2>1, FS_Subset
  <2>3. Cardinality(X) \in Nat
    BY <2>2, FS_CardinalityType
  <2>. QED
    BY <1>2, <2>2, <2>3 DEF Rank
<1>4. ASSUME NEW o \in T, NEW q \in T,
             Rank(S, criado, after, o) = Rank(S, criado, after, q)
      PROVE  o = q
  <2>. SUFFICES ASSUME o # q PROVE FALSE
    OBVIOUS
  <2>1. Precedes(criado, o, q) \/ Precedes(criado, q, o)
    BY <1>1 DEF Precedes
  <2>2. CASE Precedes(criado, o, q)
    <3>1. Rank(S, criado, after, o) < Rank(S, criado, after, q)
          /\ Rank(S, criado, after, o) \in Nat
      BY <2>2, RankOrders
    <3>. QED
      BY <1>4, <3>1
  <2>3. CASE Precedes(criado, q, o)
    <3>1. Rank(S, criado, after, q) < Rank(S, criado, after, o)
          /\ Rank(S, criado, after, q) \in Nat
      BY <2>3, RankOrders
    <3>. QED
      BY <1>4, <3>1
  <2>. QED
    BY <2>1, <2>2, <2>3
<1>. HIDE DEF T, N
<1>5. f \in Injection(T, 0 .. N - 1)
  BY <1>3, <1>4 DEF Injection, IsInjective
<1>6. IsFiniteSet(0 .. N - 1) /\ Cardinality(0 .. N - 1) = N
  BY <1>2, FS_Interval
<1>7. f \in Surjection(T, 0 .. N - 1)
  BY <1>5, <1>6, FS_Injection DEF N
<1>8. \A n \in 0 .. N - 1 : \E o \in T : Rank(S, criado, after, o) = n
  BY <1>7 DEF Surjection
<1>. QED
  BY <1>2, <1>3, <1>4, <1>8 DEF T, N

(* A page has at most as many orders as it may, and just as many if it       *)
(* leaves an order out.                                                      *)
LEMMA PageSize ==
    ASSUME NEW S, NEW criado, NEW B, Created(S, criado, B), NEW after \in Nat,
           NEW limit \in Nat \ {0}
    PROVE  LET page == Page(S, criado, after, limit)
           IN  /\ page \subseteq Older(S, criado, after)
               /\ IsFiniteSet(page)
               /\ Cardinality(page) \in Nat
               /\ Cardinality(page) <= Capped(limit)
               /\ \A o \in Older(S, criado, after) \ page :
                     Cardinality(page) = Capped(limit)
<1>. DEFINE T == Older(S, criado, after)
            page == Page(S, criado, after, limit)
            n == Capped(limit)
            f == [o \in page |-> Rank(S, criado, after, o)]
<1>1. n \in Nat \ {0}
  BY ListingAssumption DEF Capped
<1>2. page = {o \in T : Rank(S, criado, after, o) < n}
  BY PageByRank
<1>3. IsFiniteSet(T)
  BY OlderType
<1>4. IsFiniteSet(page) /\ Cardinality(page) \in Nat
  BY <1>2, <1>3, FS_Subset, FS_CardinalityType
<1>5. /\ Cardinality(T) \in Nat
      /\ \A o \in T : Rank(S, criado, after, o) \in 0 .. Cardinality(T) - 1
      /\ \A o, q \in T : Rank(S, criado, after, o) = Rank(S, criado, after, q) => o = q
      /\ \A k \in 0 .. Cardinality(T) - 1 : \E o \in T : Rank(S, criado, after, o) = k
  BY RankBijection
<1>. HIDE DEF page, T, n
<1>6. f \in Injection(page, 0 .. n - 1)
  BY <1>1, <1>2, <1>5 DEF Injection, IsInjective
<1>7. IsFiniteSet(0 .. n - 1) /\ Cardinality(0 .. n - 1) = n
  BY <1>1, FS_Interval
<1>8. Cardinality(page) <= n
      /\ (f \in Surjection(page, 0 .. n - 1) => Cardinality(page) = n)
  BY <1>6, <1>7, FS_Injection
<1>9. ASSUME NEW o \in T \ page PROVE f \in Surjection(page, 0 .. n - 1)
  <2>1. Rank(S, criado, after, o) >= n /\ Rank(S, criado, after, o) <= Cardinality(T) - 1
    BY <1>1, <1>2, <1>5
  <2>2. ASSUME NEW k \in 0 .. n - 1 PROVE \E q \in page : f[q] = k
    <3>1. k \in 0 .. Cardinality(T) - 1 /\ k < n
      BY <1>1, <1>5, <2>1
    <3>2. PICK q \in T : Rank(S, criado, after, q) = k
      BY <1>5, <3>1
    <3>. QED
      BY <1>2, <3>1, <3>2
  <2>. QED
    BY <1>6, <2>2 DEF Surjection, Injection
<1>. QED
  BY <1>2, <1>4, <1>8, <1>9 DEF page, T, n

(* Induction over the natural numbers, with a set for the induction          *)
(* hypothesis.                                                               *)
LEMMA NatSetInduction ==
    ASSUME NEW S, 0 \in S, \A n \in Nat : n \in S => n + 1 \in S
    PROVE  Nat \subseteq S
<1>. SUFFICES ASSUME Nat \ S # {} PROVE FALSE
  OBVIOUS
<1>1. PICK n \in Nat \ S : \A m \in Nat \ S : n <= m
  BY LeastNat
<1>2. n # 0
  OBVIOUS
<1>3. n - 1 \in Nat /\ ~(n <= n - 1)
  BY <1>2
<1>4. n - 1 \in S
  BY <1>1, <1>3
<1>. QED
  BY <1>3, <1>4

(* The equation that Walk solves, for the cursors up to k.                   *)
IsWalk(From, S, criado, limit, k) ==
    From = [after \in 0 .. k |->
              LET page == Page(S, criado, after, limit)
              IN  IF HasCursor(page, limit)
                  THEN <<page>> \o From[NextCursor(page, criado)]
                  ELSE <<page>>]

(* The cursor of a full page is the creation time of its last order, earlier *)
(* than the cursor the page was asked with.                                  *)
LEMMA NextCursorType ==
    ASSUME NEW S, NEW criado, NEW B, Created(S, criado, B), NEW after \in Nat,
           NEW limit \in Nat \ {0}, Cardinality(Page(S, criado, after, limit)) = limit
    PROVE  LET page == Page(S, criado, after, limit)
               next == NextCursor(page, criado)
           IN  /\ next \in Nat /\ next < after
               /\ \E m \in page : criado[m] = next
               /\ \A m \in page : next <= criado[m]
<1>. DEFINE page == Page(S, criado, after, limit)
            C == {criado[o] : o \in page}
<1>1. page \subseteq Older(S, criado, after) /\ page # {}
  BY PageSize, FS_EmptySet
<1>2. \A o \in page : criado[o] \in Nat /\ criado[o] < after
  BY <1>1, OlderType DEF Older
<1>. HIDE DEF page
<1>3. C \subseteq Nat /\ C # {}
  BY <1>1, <1>2
<1>4. \E c \in C : \A d \in C : c <= d
  BY <1>3, LeastNat
<1>5. NextCursor(page, criado) \in C /\ \A d \in C : NextCursor(page, criado) <= d
  BY <1>4 DEF NextCursor, Min
<1>. QED
  BY <1>2, <1>5 DEF page

(* The equation of the walk has a solution, by induction over the cursors:   *)
(* each page is followed by one with an earlier cursor.                      *)
LEMMA WalkExists ==
    ASSUME NEW S, NEW criado, NEW B, Created(S, criado, B), NEW limit \in Nat \ {0},
           NEW k \in Nat
    PROVE  \E From : IsWalk(From, S, criado, limit, k)
<1>. DEFINE P(a) == Page(S, criado, a, limit)
            K == {j \in Nat : \E From : IsWalk(From, S, criado, limit, j)}
            Full(a) == HasCursor(P(a), limit)
            Follow(a) == NextCursor(P(a), criado)
            Step(F, a) == IF Full(a) THEN <<P(a)>> \o F[Follow(a)] ELSE <<P(a)>>
<1>1. \A a \in Nat : Full(a) => Follow(a) \in Nat /\ Follow(a) < a
  BY NextCursorType DEF HasCursor
<1>2. \A F, j : IsWalk(F, S, criado, limit, j) <=> F = [a \in 0 .. j |-> Step(F, a)]
  BY DEF IsWalk
<1>3. ASSUME NEW F, NEW G, NEW a, Full(a) => F[Follow(a)] = G[Follow(a)]
      PROVE  Step(F, a) = Step(G, a)
  BY <1>3
<1>4. ASSUME NEW F, NEW a, ~Full(a) PROVE Step(F, a) = <<P(a)>>
  BY <1>4
<1>. HIDE DEF Step, P, Full, Follow
<1>5. 0 \in K
  <2>. DEFINE F == [a \in 0 .. 0 |-> <<P(a)>>]
  <2>1. \A a \in 0 .. 0 : ~Full(a)
    BY <1>1
  <2>2. \A a \in 0 .. 0 : Step(F, a) = <<P(a)>>
    BY <1>4, <2>1
  <2>3. F = [a \in 0 .. 0 |-> Step(F, a)]
    BY <2>2
  <2>. QED
    BY <1>2, <2>3
<1>6. ASSUME NEW j \in Nat, j \in K PROVE j + 1 \in K
  <2>1. PICK h : h = [a \in 0 .. j |-> Step(h, a)]
    BY <1>2, <1>6
  <2>. DEFINE F == [a \in 0 .. j + 1 |-> Step(h, a)]
  <2>2. ASSUME NEW a \in 0 .. j + 1 PROVE F[a] = Step(F, a)
    <3>1. ASSUME Full(a) PROVE h[Follow(a)] = F[Follow(a)]
      <4>1. Follow(a) \in 0 .. j /\ Follow(a) \in 0 .. j + 1
        BY <1>1, <3>1
      <4>2. h[Follow(a)] = Step(h, Follow(a))
        BY <2>1, <4>1
      <4>. QED
        BY <4>1, <4>2
    <3>2. Step(h, a) = Step(F, a)
      BY <1>3, <3>1
    <3>. QED
      BY <3>2
  <2>3. F = [a \in 0 .. j + 1 |-> F[a]]
    OBVIOUS
  <2>. HIDE DEF F
  <2>4. F = [a \in 0 .. j + 1 |-> Step(F, a)]
    BY <2>2, <2>3
  <2>. QED
    BY <1>2, <2>4
<1>. HIDE DEF K
<1>7. Nat \subseteq K
  BY <1>5, <1>6, NatSetInduction
<1>. QED
  BY <1>7 DEF K

(* An element put before a sequence.                                         *)
LEMMA Prepended ==
    ASSUME NEW A, NEW x \in A, NEW s \in Seq(A)
    PROVE  LET t == <<x>> \o s
           IN  /\ t \in Seq(A)
               /\ DOMAIN t = 1 .. Len(s) + 1
               /\ DOMAIN s = 1 .. Len(s) /\ Len(s) \in Nat
               /\ t[1] = x
               /\ \A i \in 1 .. Len(s) : t[i + 1] = s[i]
<1>1. <<x>> \in Seq(A) /\ Len(<<x>>) = 1 /\ <<x>>[1] = x
  OBVIOUS
<1>2. Len(s) \in Nat /\ DOMAIN s = 1 .. Len(s)
  OBVIOUS
<1>. DEFINE t == <<x>> \o s
<1>3. /\ t \in Seq(A)
      /\ Len(t) = Len(s) + 1
      /\ \A i \in 1 .. Len(s) + 1 : t[i] = IF i <= 1 THEN <<x>>[i] ELSE s[i - 1]
  BY <1>1, <1>2, ConcatProperties
<1>. HIDE DEF t
<1>4. DOMAIN t = 1 .. Len(s) + 1
  BY <1>3, LenProperties
<1>5. t[1] = x
  BY <1>1, <1>2, <1>3
<1>6. ASSUME NEW i \in 1 .. Len(s) PROVE t[i + 1] = s[i]
  BY <1>2, <1>3
<1>. QED
  BY <1>2, <1>3, <1>4, <1>5, <1>6 DEF t

Alone(S, criado, o) == \A p \in S \ {o} : criado[p] # criado[o]

(* Pages that go back in time from a cursor, and answer every order before   *)
(* it that shares its creation time with none.                               *)
Good(pages, S, criado, after) ==
    /\ pages \in Seq(SUBSET Older(S, criado, after))
    /\ \A i, j \in DOMAIN pages :
          i < j => \A p \in pages[i], q \in pages[j] : criado[q] < criado[p]
    /\ \A o \in Older(S, criado, after) :
          Alone(S, criado, o) => \E i \in DOMAIN pages : o \in pages[i]

(* A page without a cursor holds all that is left.                           *)
LEMMA LastPage ==
    ASSUME NEW S, NEW criado, NEW B, Created(S, criado, B), NEW limit \in 1 .. MaxLimit,
           NEW after \in Nat, ~HasCursor(Page(S, criado, after, limit), limit)
    PROVE  Good(<<Page(S, criado, after, limit)>>, S, criado, after)
<1>1. limit \in Nat \ {0} /\ Capped(limit) = limit
  BY ListingAssumption DEF Capped
<1>2. PICK page : page = Page(S, criado, after, limit)
  OBVIOUS
<1>3. page = Older(S, criado, after)
  BY <1>1, <1>2, PageSize DEF HasCursor
<1>4. <<page>> \in Seq(SUBSET Older(S, criado, after)) /\ DOMAIN <<page>> = 1 .. 1
      /\ <<page>>[1] = page
  BY <1>3
<1>5. \A i, j \in 1 .. 1 : ~(i < j)
  OBVIOUS
<1>. QED
  BY <1>2, <1>3, <1>4, <1>5 DEF Good

(* A page before good ones that were asked with its cursor.                  *)
LEMMA PageBefore ==
    ASSUME NEW S, NEW criado, NEW B, Created(S, criado, B), NEW limit \in 1 .. MaxLimit,
           NEW after \in Nat, HasCursor(Page(S, criado, after, limit), limit), NEW rest,
           Good(rest, S, criado, NextCursor(Page(S, criado, after, limit), criado))
    PROVE  Good(<<Page(S, criado, after, limit)>> \o rest, S, criado, after)
<1>1. limit \in Nat \ {0} /\ Capped(limit) = limit
  BY ListingAssumption DEF Capped
<1>2. PICK page : page = Page(S, criado, after, limit)
  OBVIOUS
<1>3. PICK c : c = NextCursor(page, criado)
  OBVIOUS
<1>4. /\ c \in Nat /\ c < after
      /\ \E m \in page : criado[m] = c
      /\ \A m \in page : c <= criado[m]
  BY <1>1, <1>2, <1>3, NextCursorType DEF HasCursor
<1>5. PICK T : T = Older(S, criado, after)
  OBVIOUS
<1>6. T \subseteq S /\ \A o \in T : criado[o] \in Nat
  BY <1>5, OlderType DEF Older
<1>7. page \subseteq T
  BY <1>1, <1>2, <1>5, PageSize
<1>8. PICK U : U = Older(S, criado, c)
  OBVIOUS
<1>9. \A o \in T : o \in U <=> criado[o] < c
  BY <1>6, <1>8 DEF Older
<1>10. U \subseteq T
  <2>1. ASSUME NEW o \in U PROVE o \in T
    <3>1. o \in S /\ criado[o] < c /\ criado[o] \in Nat
      BY <1>4, <1>8, OlderType DEF Older
    <3>2. criado[o] < after
      BY <1>4, <3>1
    <3>. QED
      BY <1>5, <3>1, <3>2 DEF Older
  <2>. QED
    BY <2>1
<1>11. /\ rest \in Seq(SUBSET U)
       /\ \A i, j \in DOMAIN rest :
             i < j => \A p \in rest[i], q \in rest[j] : criado[q] < criado[p]
       /\ \A o \in U : Alone(S, criado, o) => \E i \in DOMAIN rest : o \in rest[i]
  BY <1>2, <1>3, <1>8 DEF Good
<1>12. page \in SUBSET T /\ rest \in Seq(SUBSET T)
  BY <1>7, <1>10, <1>11
<1>13. PICK pages : pages = <<page>> \o rest
  OBVIOUS
<1>14. PICK n : n = Len(rest)
  OBVIOUS
<1>15. /\ pages \in Seq(SUBSET T) /\ n \in Nat
       /\ DOMAIN pages = 1 .. n + 1 /\ DOMAIN rest = 1 .. n
       /\ pages[1] = page /\ \A i \in 1 .. n : pages[i + 1] = rest[i]
  BY <1>12, <1>13, <1>14, Prepended
<1>16. \A i \in 1 .. n : rest[i] \subseteq U
  BY <1>11, <1>15
<1>17. ASSUME NEW i \in 1 .. n + 1, NEW j \in 1 .. n + 1, i < j,
              NEW p \in pages[i], NEW q \in pages[j]
       PROVE  criado[q] < criado[p]
  <2>1. j - 1 \in 1 .. n /\ j = (j - 1) + 1
    BY <1>15, <1>17
  <2>2. pages[j] = rest[j - 1] /\ q \in U
    BY <1>15, <1>16, <1>17, <2>1
  <2>3. CASE i = 1
    <3>1. p \in page /\ criado[p] \in Nat /\ c <= criado[p]
      BY <1>4, <1>6, <1>7, <1>15, <1>17, <2>3
    <3>2. q \in T /\ criado[q] < c /\ criado[q] \in Nat
      BY <1>6, <1>9, <1>10, <2>2
    <3>. QED
      BY <1>4, <3>1, <3>2
  <2>4. CASE i # 1
    <3>1. i - 1 \in 1 .. n /\ i = (i - 1) + 1 /\ i - 1 < j - 1
      BY <1>15, <1>17, <2>4
    <3>2. pages[i] = rest[i - 1]
      BY <1>15, <3>1
    <3>. QED
      BY <1>11, <1>15, <1>17, <2>1, <2>2, <3>1, <3>2
  <2>. QED
    BY <2>3, <2>4
<1>18. ASSUME NEW o \in T, Alone(S, criado, o)
       PROVE  \E i \in 1 .. n + 1 : o \in pages[i]
  <2>1. 1 \in 1 .. n + 1 /\ \A i \in 1 .. n : i + 1 \in 1 .. n + 1
    BY <1>15
  <2>2. CASE o \in page
    BY <1>15, <2>1, <2>2
  <2>3. CASE criado[o] < c
    <3>1. PICK i \in 1 .. n : o \in rest[i]
      BY <1>9, <1>11, <1>15, <1>18, <2>3
    <3>. QED
      BY <1>15, <2>1, <3>1
  <2>4. CASE ~(criado[o] < c) /\ o \notin page
    <3>1. PICK m \in page : criado[m] = c
      BY <1>4
    <3>2. m # o /\ m \in T /\ m \in S
      BY <1>6, <1>7, <2>4
    <3>3. criado[m] # criado[o]
      BY <1>18, <3>2 DEF Alone
    <3>4. criado[o] > criado[m]
      BY <1>4, <1>6, <2>4, <3>1, <3>3
    <3>5. Precedes(criado, o, m)
      BY <3>4 DEF Precedes
    <3>6. /\ Rank(S, criado, after, o) \in Nat /\ Rank(S, criado, after, m) \in Nat
          /\ Rank(S, criado, after, o) < Rank(S, criado, after, m)
      BY <1>5, <3>2, <3>5, RankOrders
    <3>7. /\ Rank(S, criado, after, m) < limit
          /\ ~(Rank(S, criado, after, o) < limit)
      BY <1>1, <1>2, <1>5, <2>4, PageByRank
    <3>. QED
      BY <3>6, <3>7
  <2>. QED
    BY <2>2, <2>3, <2>4
<1>19. Good(pages, S, criado, after)
  BY <1>5, <1>15, <1>17, <1>18 DEF Good
<1>. QED
  BY <1>2, <1>13, <1>19

(* A walk is good from every cursor, by infinite descent over the cursors.   *)
LEMMA WalkIsGood ==
    ASSUME NEW S, NEW criado, NEW B, Created(S, criado, B), NEW limit \in 1 .. MaxLimit,
           NEW k \in Nat, NEW From, IsWalk(From, S, criado, limit, k)
    PROVE  \A after \in 0 .. k : Good(From[after], S, criado, after)
<1>. DEFINE Bad == {a \in 0 .. k : ~Good(From[a], S, criado, a)}
<1>. SUFFICES ASSUME Bad # {} PROVE FALSE
  OBVIOUS
<1>1. PICK after \in Bad : \A a \in Bad : after <= a
  <2>1. Bad \subseteq Nat
    OBVIOUS
  <2>. HIDE DEF Bad
  <2>. QED
    BY <2>1, LeastNat
<1>2. /\ after \in Nat /\ after \in 0 .. k /\ ~Good(From[after], S, criado, after)
      /\ limit \in Nat \ {0}
  BY ListingAssumption
<1>3. PICK page : page = Page(S, criado, after, limit)
  OBVIOUS
<1>4. From[after] = IF HasCursor(page, limit)
                    THEN <<page>> \o From[NextCursor(page, criado)] ELSE <<page>>
  BY <1>2, <1>3 DEF IsWalk
<1>5. CASE ~HasCursor(page, limit)
  BY <1>2, <1>3, <1>4, <1>5, LastPage
<1>6. CASE HasCursor(page, limit)
  <2>1. NextCursor(page, criado) \in Nat /\ NextCursor(page, criado) < after
    BY <1>2, <1>3, <1>6, NextCursorType DEF HasCursor
  <2>2. PICK c : c = NextCursor(page, criado)
    OBVIOUS
  <2>3. c \in 0 .. k /\ ~(after <= c)
    BY <1>2, <2>1, <2>2
  <2>4. c \notin Bad
    BY <1>1, <2>3
  <2>5. Good(From[c], S, criado, c)
    BY <2>3, <2>4
  <2>. HIDE DEF Bad
  <2>. QED
    BY <1>2, <1>3, <1>4, <1>6, <2>2, <2>5, PageBefore
<1>. QED
  BY <1>5, <1>6

(* However many orders there are, whenever they were created, and with       *)
(* whatever limit up to the maximum: what a client reads page by page goes   *)
(* from newer orders to older ones, so that no order comes twice, and        *)
(* leaves out only orders created at the very moment of another.             *)
THEOREM WalkSound ==
    ASSUME NEW S, NEW criado, NEW B, Created(S, criado, B), NEW limit \in 1 .. MaxLimit
    PROVE  WalkIsSound(S, criado, limit)
<1>. DEFINE C == {criado[o] : o \in S} \cup {0}
            M == Max(C) + 1
            From == CHOOSE From : IsWalk(From, S, criado, limit, M)
<1>1. C \subseteq 0 .. B /\ C # {}
  BY DEF Created
<1>2. Max(C) \in C /\ \A c \in C : Max(C) >= c
  <2>. DEFINE T == {B - c : c \in C}
  <2>1. \A c \in C : c \in Nat /\ B - c \in Nat
    BY <1>1 DEF Created
  <2>2. T \subseteq Nat /\ T # {}
    BY <1>1, <2>1
  <2>. HIDE DEF T
  <2>3. PICK n \in T : \A j \in T : n <= j
    BY <2>2, LeastNat
  <2>. HIDE DEF C
  <2>4. PICK c \in C : n = B - c
    BY DEF T
  <2>5. ASSUME NEW d \in C PROVE c >= d
    <3>1. B - d \in T
      BY DEF T
    <3>2. B - c <= B - d
      BY <2>3, <2>4, <3>1
    <3>3. c \in Nat /\ d \in Nat /\ B \in Nat
      BY <2>1 DEF Created
    <3>. QED
      BY <3>2, <3>3
  <2>. QED
    BY <2>5 DEF Max
<1>3. M \in Nat
  BY <1>1, <1>2
<1>4. Walk(S, criado, limit) = From[M]
  BY Zenon DEF Walk, IsWalk
<1>5. limit \in Nat \ {0}
  BY ListingAssumption
<1>6. IsWalk(From, S, criado, limit, M)
  BY <1>3, <1>5, WalkExists
<1>. HIDE DEF From
<1>7. Older(S, criado, M) = S
  <2>. SUFFICES ASSUME NEW o \in S PROVE criado[o] < M
    BY DEF Older
  <2>1. criado[o] \in C /\ criado[o] \in Nat
    BY DEF Created
  <2>2. C \subseteq Nat
    BY <1>1, <2>1
  <2>. HIDE DEF C
  <2>3. Max(C) >= criado[o] /\ Max(C) \in Nat
    BY <1>2, <2>1, <2>2
  <2>. QED
    BY <2>1, <2>3
<1>8. M \in 0 .. M
  BY <1>3
<1>. HIDE DEF M, C
<1>9. Good(From[M], S, criado, M)
  BY <1>3, <1>6, <1>8, WalkIsGood
<1>10. PICK pages : pages = From[M]
  OBVIOUS
<1>11. /\ \A i, j \in DOMAIN pages :
             i < j => \A p \in pages[i], q \in pages[j] : criado[q] < criado[p]
       /\ \A o \in S : Alone(S, criado, o) => \E i \in DOMAIN pages : o \in pages[i]
  BY <1>7, <1>9, <1>10 DEF Good
<1>12. Walk(S, criado, limit) = pages
  BY <1>4, <1>10
<1>. QED
  BY <1>11, <1>12, Zenon DEF WalkIsSound, Alone

(* The table starts empty, and a step adds at most one order to it.          *)
LEMMA TableFinite == Spec => []IsFiniteSet(Listed)
<1>1. Init => IsFiniteSet(Listed)
  <2>1. Init => Listed = {}
    BY DEF Init, Listed
  <2>. QED
    BY <2>1, FS_EmptySet
<1>2. IInv /\ IsFiniteSet(Listed) /\ [Next]_vars => IsFiniteSet(Listed)'
  <2>. SUFFICES ASSUME IInv, IsFiniteSet(Listed), [Next]_vars PROVE IsFiniteSet(Listed')
    OBVIOUS
  <2>1. CASE UNCHANGED rows
    BY <2>1 DEF Listed
  <2>2. ASSUME NEW t \in Tasks, Salvar(t) PROVE IsFiniteSet(Listed')
    <3>1. PICK u \in tasks[t] : UNCHANGED rows \/ rows' = [rows EXCEPT ![u.o] = u.status]
      BY <2>2 DEF Salvar, Upsert
    <3>2. Listed' \subseteq Listed \cup {u.o}
      BY <3>1 DEF Listed, IInv, Flow, Typed
    <3>. QED
      BY <3>2, FS_AddElement, FS_Subset
  <2>3. ASSUME NEW c \in Clientes, DeletarPorCliente(c) PROVE IsFiniteSet(Listed')
    <3>1. Listed' \subseteq Listed
      BY <2>3 DEF DeletarPorCliente, Listed
    <3>. QED
      BY <3>1, FS_Subset
  <2>4. UNCHANGED rows \/ (\E t \in Tasks : Salvar(t))
        \/ \E c \in Clientes : DeletarPorCliente(c)
    BY DEF Next, vars, TaskStep, CriarPedido, NewPedido, CmdCriarPedido, BuscarPedido,
           CmdCancelarPedido, Execute, ContextDone, BuscarPorID, Fill, Del,
           StoreIdempotency, Expire, ExpireKey, BreakerElapses
  <2>. QED
    BY <2>1, <2>2, <2>3, <2>4
<1>. QED
  BY <1>1, <1>2, AlwaysIInv, PTL DEF Spec

(* Whatever requests, commands and deletions have left in the table, and     *)
(* however the creation times fell, the walk over the pages is sound for     *)
(* every limit up to the maximum.                                            *)
THEOREM ListingSound == Spec => []ListingIsSound
<1>1. IsFiniteSet(Listed) => ListingIsSound
  <2>. SUFFICES ASSUME IsFiniteSet(Listed),
                       NEW criado \in [Listed -> 1 .. 3], NEW limit \in 1 .. MaxLimit
                PROVE  WalkIsSound(Listed, criado, limit)
    BY DEF ListingIsSound
  <2>1. PICK S : S = Listed
    OBVIOUS
  <2>2. S \subseteq Nat
    BY <2>1, PedidosAssumption DEF Listed
  <2>3. Created(S, criado, 3)
    BY <2>1, <2>2 DEF Created
  <2>. QED
    BY <2>1, <2>3, WalkSound
<1>. QED
  BY <1>1, TableFinite, PTL
================================================================================
