--------------------------- MODULE StartupProofs ---------------------------
(***************************************************************************)
(* Proofs about what threads set up while others run.  As long as no two   *)
(* of them find an instance missing at once, one instance is made, by one  *)
(* thread, and every operation works on it (OneInv).  What was attached to *)
(* it or bound in it is then what it has, and what a thread carries from   *)
(* one of its accesses to the next still holds, or the history says that   *)
(* somebody came in between.                                               *)
(***************************************************************************)
EXTENDS Startup, FiniteSetTheorems, SequenceTheorems, TLAPS

\* The threads that are about to look for an instance.
Looking == {t \in Threads : pc[t] = "look"}

\* Each operation looks once, so there are at most as many instances.
CountInv ==
  /\ IsFiniteSet(Looking)
  /\ created["board"] + created["delegate"] + Cardinality(Looking) =< begun

\* A thread is inside an operation, and uses an instance that was made.
ThreadAt(t) ==
  /\ pc[t] # "idle" => todo[t] \in Operations
  /\ pc[t] = "told" => todo[t].op = "setInHostMode_"
  /\ pc[t] = "half" => todo[t].op \in {"bind", "connect"}
  /\ pc[t] = "read" => todo[t].op = "connect"
  /\ pc[t] = "fetch" => instance[todo[t].on] \in Instances
  /\ pc[t] \in {"create", "use", "told", "half", "read"} => self[t] \in Instances
ThreadsInv == \A t \in Threads : ThreadAt(t)
ReaderInv == reader # "idle" => reading \in Instances

TypeInv == TypeOK /\ CountInv /\ ThreadsInv /\ ReaderInv

-----------------------------------------------------------------------------
\* What an operation is on, and what it has.
LEMMA OperationFields ==
  ASSUME NEW o \in Operations
  PROVE  /\ o.on \in Singletons
         /\ o.op = "attachCanvas" => o.on = "board" /\ o.arg \in Canvases
         /\ o.op = "attachOpeartionQueue" => o.on = "board" /\ o.arg \in Queues
         /\ o.op = "setInHostMode_" => o.on = "board" /\ o.arg \in BOOLEAN
         /\ o.op = "trigerReadOperationQueue" => o.on = "board"
         /\ o.op = "bind" => o.on = "delegate" /\ o.server \in Servers /\ o.arg \in Endpoints
         /\ o.op = "connect" => o.on = "delegate" /\ o.server \in Servers
<1> USE DEF Singletons
<1>1. CASE \E c \in Canvases : o = AttachCanvas(c)
  BY <1>1 DEF AttachCanvas
<1>2. CASE \E q \in Queues : o = AttachQueue(q)
  BY <1>2 DEF AttachQueue
<1>3. CASE \E b \in BOOLEAN : o = SetMode(b)
  BY <1>3 DEF SetMode
<1>4. CASE o = Trigger
  BY <1>4 DEF Trigger
<1>5. CASE \E s \in Servers, e \in Endpoints : o = Bind(s, e)
  BY <1>5 DEF Bind
<1>6. CASE \E s \in Servers : o = Connect(s)
  BY <1>6 DEF Connect
<1> QED
  BY <1>1, <1>2, <1>3, <1>4, <1>5, <1>6 DEF Operations

LEMMA TypeInvInit == Init => TypeInv
<1> SUFFICES ASSUME Init PROVE TypeInv
  OBVIOUS
<1> USE DEF Init
<1>1. SingletonTypes /\ ThreadTypes
  BY StartupAssumption DEF SingletonTypes, ThreadTypes, Singletons, Places
<1>2. BoardTypes
  <2>1. <<>> \in Seq(1 .. MaskBits \cup {Refused})
    OBVIOUS
  <2>2. contextRid_ \in [Instances -> Seq(1 .. MaskBits \cup {Refused})]
    BY <2>1
  <2> QED
    BY <2>2, StartupAssumption DEF BoardTypes
<1>3. DelegateTypes
  <2>1. <<>> \in Seq(Endpoints \cup {Nil})
    OBVIOUS
  <2>2. got \in [Threads -> Seq(Endpoints \cup {Nil})]
    BY <2>1
  <2> QED
    BY <2>2 DEF DelegateTypes
<1>4. MainTypes
  <2>1. mainQueue \in Seq(Instances)
    OBVIOUS
  <2> QED
    BY <2>1 DEF MainTypes, ReaderPlaces
<1>5. CountInv
  <2>1. Looking = {}
    BY DEF Looking
  <2>2. IsFiniteSet(Looking) /\ Cardinality(Looking) = 0
    BY <2>1, FS_EmptySet
  <2> QED
    BY <2>2 DEF CountInv, Singletons
<1>6. ThreadsInv /\ ReaderInv
  BY DEF ThreadsInv, ThreadAt, ReaderInv
<1> QED
  BY <1>1, <1>2, <1>3, <1>4, <1>5, <1>6 DEF TypeInv, TypeOK

\* What a step leaves alone keeps its type.
LEMMA TypeFrames ==
  /\ SingletonTypes /\ UNCHANGED singletons => SingletonTypes'
  /\ ThreadTypes /\ UNCHANGED threads => ThreadTypes'
  /\ BoardTypes /\ UNCHANGED boards => BoardTypes'
  /\ DelegateTypes /\ UNCHANGED delegates => DelegateTypes'
  /\ MainTypes /\ UNCHANGED main => MainTypes'
<1>1. SingletonTypes /\ UNCHANGED singletons => SingletonTypes'
  BY DEF SingletonTypes, singletons
<1>2. ThreadTypes /\ UNCHANGED threads => ThreadTypes'
  BY DEF ThreadTypes, threads
<1>3. BoardTypes /\ UNCHANGED boards => BoardTypes'
  BY DEF BoardTypes, boards
<1>4. DelegateTypes /\ UNCHANGED delegates => DelegateTypes'
  BY DEF DelegateTypes, delegates
<1>5. MainTypes /\ UNCHANGED main => MainTypes'
  BY DEF MainTypes, main
<1> QED
  BY <1>1, <1>2, <1>3, <1>4, <1>5

LEMMA CountFrame ==
  ASSUME CountInv, ThreadTypes, NEW t \in Threads, NEW p,
         pc[t] # "look", p # "look", pc' = [pc EXCEPT ![t] = p], UNCHANGED <<created, begun>>
  PROVE  CountInv'
<1>1. Looking' = Looking
  BY DEF Looking, ThreadTypes
<1> QED
  BY <1>1 DEF CountInv

\* A step of one thread leaves the others where they are.
Others(t) ==
  /\ \A u \in Threads : u # t => pc'[u] = pc[u] /\ todo'[u] = todo[u] /\ self'[u] = self[u]
  /\ \A s \in Singletons : instance[s] \in Instances => instance'[s] \in Instances

LEMMA ThreadFrame ==
  ASSUME ThreadsInv, NEW t \in Threads, Others(t), ThreadAt(t)'
  PROVE  ThreadsInv'
<1> SUFFICES ASSUME NEW u \in Threads, u # t PROVE ThreadAt(u)'
  BY DEF ThreadsInv
<1>1. pc'[u] = pc[u] /\ todo'[u] = todo[u] /\ self'[u] = self[u] /\ ThreadAt(u)
  BY DEF ThreadsInv, Others
<1>2. pc[u] = "fetch" => instance'[todo[u].on] \in Instances
  <2> SUFFICES ASSUME pc[u] = "fetch" PROVE instance'[todo[u].on] \in Instances
    OBVIOUS
  <2>1. todo[u] \in Operations /\ instance[todo[u].on] \in Instances
    BY <1>1 DEF ThreadAt
  <2>2. todo[u].on \in Singletons
    BY <2>1, OperationFields
  <2> QED
    BY <2>1, <2>2 DEF Others
<1> QED
  BY <1>1, <1>2 DEF ThreadAt

\* The end of an operation.
LEMMA EndThreads ==
  ASSUME TypeInv, NEW t \in Threads, pc[t] \in Places \ {"idle", "look"}, End(t),
         UNCHANGED singletons
  PROVE  ThreadTypes' /\ ThreadsInv' /\ CountInv'
<1> USE DEF TypeInv, TypeOK
<1>1. ThreadTypes'
  BY DEF End, Go, ThreadTypes, Places
<1>2. CountInv'
  BY CountFrame DEF End, Go, singletons
<1>3. ThreadsInv'
  <2>1. ThreadAt(t)'
    BY DEF End, Go, ThreadAt, ThreadTypes
  <2>2. Others(t)
    BY DEF End, Go, Others, ThreadTypes, singletons
  <2> QED
    BY <2>1, <2>2, ThreadFrame
<1> QED
  BY <1>1, <1>2, <1>3

\* From one place inside an operation to the next.
LEMMA GoThreads ==
  ASSUME TypeInv, NEW t \in Threads, NEW p \in {"told", "half", "read"},
         pc[t] \in {"use", "half"}, Go(t, p), UNCHANGED <<todo, self, begun, singletons>>,
         p = "told" => todo[t].op = "setInHostMode_",
         p = "half" => todo[t].op \in {"bind", "connect"},
         p = "read" => todo[t].op = "connect"
  PROVE  ThreadTypes' /\ ThreadsInv' /\ CountInv'
<1> USE DEF TypeInv, TypeOK
<1>1. ThreadTypes'
  BY DEF Go, ThreadTypes, Places
<1>2. CountInv'
  BY CountFrame DEF Go, singletons
<1>3. ThreadsInv'
  <2>1. ThreadAt(t)'
    BY DEF Go, ThreadAt, ThreadsInv, ThreadTypes
  <2>2. Others(t)
    BY DEF Go, Others, ThreadTypes, singletons
  <2> QED
    BY <2>1, <2>2, ThreadFrame
<1> QED
  BY <1>1, <1>2, <1>3

LEMMA BeginThreads ==
  ASSUME TypeInv, NEW t \in Threads, NEW o \in Operations, Begin(t, o)
  PROVE  ThreadTypes' /\ ThreadsInv' /\ CountInv'
<1> USE DEF TypeInv, TypeOK
<1>1. ThreadTypes'
  BY StartupAssumption DEF Begin, Go, ThreadTypes, Places
<1>2. ThreadsInv'
  <2>1. ThreadAt(t)'
    BY DEF Begin, Go, ThreadAt, ThreadTypes
  <2>2. Others(t)
    BY DEF Begin, Go, Others, ThreadTypes, singletons
  <2> QED
    BY <2>1, <2>2, ThreadFrame
<1>3. CountInv'
  <2>1. Looking' = Looking \cup {t} /\ t \notin Looking
    BY DEF Begin, Go, Looking, ThreadTypes
  <2>2. IsFiniteSet(Looking') /\ Cardinality(Looking') = Cardinality(Looking) + 1
    BY <2>1, FS_AddElement DEF CountInv
  <2>3. Cardinality(Looking) \in Nat
    BY FS_CardinalityType DEF CountInv
  <2>4. created["board"] \in Nat /\ created["delegate"] \in Nat /\ begun \in Nat
    BY DEF SingletonTypes, Singletons, ThreadTypes
  <2>5. created' = created /\ begun' = begun + 1
    BY DEF Begin, singletons
  <2> QED
    BY <2>2, <2>3, <2>4, <2>5 DEF CountInv
<1> QED
  BY <1>1, <1>2, <1>3

\* The thread that makes an instance has looked for it, so that there were
\* fewer instances than operations.
LEMMA LookThreads ==
  ASSUME TypeInv, NEW t \in Threads, Look(t)
  PROVE  SingletonTypes' /\ ThreadTypes' /\ ThreadsInv' /\ CountInv'
<1> USE DEF TypeInv, TypeOK
<1> DEFINE s == todo[t].on
<1>1. pc[t] = "look" /\ todo[t] \in Operations /\ s \in Singletons
  BY OperationFields DEF Look, ThreadsInv, ThreadAt
<1>2. /\ Looking \ {t} = {u \in Threads : u # t /\ pc[u] = "look"}
      /\ IsFiniteSet(Looking \ {t})
      /\ Cardinality(Looking \ {t}) = Cardinality(Looking) - 1
      /\ Cardinality(Looking) \in Nat /\ Cardinality(Looking \ {t}) \in Nat
  <2>1. t \in Looking
    BY <1>1 DEF Looking
  <2> QED
    BY <2>1, FS_RemoveElement, FS_CardinalityType DEF CountInv, Looking
<1>3. created["board"] \in Nat /\ created["delegate"] \in Nat /\ begun \in 0 .. MaxOperations
      /\ MaxOperations \in Nat
  BY StartupAssumption DEF SingletonTypes, Singletons, ThreadTypes
<1>4. created[s] + 1 \in Instances
  <2>1. created["board"] + created["delegate"] + 1 =< MaxOperations
    BY <1>2, <1>3 DEF CountInv
  <2>2. s = "board" \/ s = "delegate"
    BY <1>1 DEF Singletons
  <2> QED
    BY <1>3, <2>1, <2>2 DEF Instances
<1>5. Looking' = Looking \ {t}
  BY <1>2 DEF Look, Go, Looking, ThreadTypes
<1>6. CASE Missing(s)
  <2>1. /\ pc' = [pc EXCEPT ![t] = "create"] /\ created' = [created EXCEPT ![s] = @ + 1]
        /\ self' = [self EXCEPT ![t] = created[s] + 1] /\ UNCHANGED <<instance, todo, begun>>
        /\ overlapped' \in {overlapped, overlapped \cup {s}}
    BY <1>6 DEF Look, Go
  <2>2. SingletonTypes'
    BY <1>1, <2>1 DEF SingletonTypes
  <2>3. ThreadTypes'
    BY <1>4, <2>1 DEF ThreadTypes, Places
  <2>4. ThreadsInv'
    <3>1. ThreadAt(t)'
      BY <1>1, <1>4, <2>1 DEF ThreadAt, ThreadTypes
    <3>2. Others(t)
      BY <2>1 DEF Others, ThreadTypes
    <3> QED
      BY <3>1, <3>2, ThreadFrame
  <2>5. CountInv'
    <3>1. created'["board"] + created'["delegate"] = created["board"] + created["delegate"] + 1
      <4>1. CASE s = "board"
        BY <1>3, <2>1, <4>1 DEF SingletonTypes, Singletons
      <4>2. CASE s = "delegate"
        BY <1>3, <2>1, <4>2 DEF SingletonTypes, Singletons
      <4> QED
        BY <1>1, <4>1, <4>2 DEF Singletons
    <3>2. begun' = begun
      BY <2>1
    <3> QED
      BY <1>2, <1>3, <1>5, <3>1, <3>2 DEF CountInv
  <2> QED
    BY <2>2, <2>3, <2>4, <2>5
<1>7. CASE ~Missing(s)
  <2>1. pc' = [pc EXCEPT ![t] = "fetch"]
        /\ UNCHANGED <<created, self, overlapped, instance, todo, begun>>
    BY <1>7 DEF Look, Go
  <2>2. SingletonTypes'
    BY <2>1 DEF SingletonTypes
  <2>3. ThreadTypes'
    BY <2>1 DEF ThreadTypes, Places
  <2>4. ThreadsInv'
    <3>1. ThreadAt(t)'
      BY <1>1, <1>7, <2>1 DEF ThreadAt, ThreadTypes, Missing, SingletonTypes
    <3>2. Others(t)
      BY <2>1 DEF Others, ThreadTypes
    <3> QED
      BY <3>1, <3>2, ThreadFrame
  <2>5. CountInv'
    BY <1>2, <1>3, <1>5, <2>1 DEF CountInv
  <2> QED
    BY <2>2, <2>3, <2>4, <2>5
<1> QED
  BY <1>6, <1>7

LEMMA StoreThreads ==
  ASSUME TypeInv, NEW t \in Threads, Store(t)
  PROVE  SingletonTypes' /\ ThreadTypes' /\ ThreadsInv' /\ CountInv'
<1> USE DEF TypeInv, TypeOK
<1> DEFINE s == todo[t].on
<1>1. todo[t] \in Operations /\ s \in Singletons /\ self[t] \in Instances
  BY OperationFields DEF Store, ThreadsInv, ThreadAt
<1>2. /\ pc[t] = "create" /\ pc' = [pc EXCEPT ![t] = "fetch"]
      /\ instance' = [instance EXCEPT ![s] = self[t]]
      /\ UNCHANGED <<todo, self, begun, created, overlapped>>
  BY DEF Store, Go
<1>3. SingletonTypes'
  BY <1>1, <1>2 DEF SingletonTypes
<1>4. ThreadTypes'
  BY <1>2 DEF ThreadTypes, Places
<1>5. ThreadsInv'
  <2>1. ThreadAt(t)'
    BY <1>1, <1>2 DEF ThreadAt, ThreadTypes, SingletonTypes
  <2>2. Others(t)
    BY <1>1, <1>2 DEF Others, ThreadTypes, SingletonTypes
  <2> QED
    BY <2>1, <2>2, ThreadFrame
<1>6. CountInv'
  BY <1>2, CountFrame
<1> QED
  BY <1>3, <1>4, <1>5, <1>6

LEMMA FetchThreads ==
  ASSUME TypeInv, NEW t \in Threads, Fetch(t)
  PROVE  ThreadTypes' /\ ThreadsInv' /\ CountInv'
<1> USE DEF TypeInv, TypeOK
<1>1. todo[t] \in Operations /\ instance[todo[t].on] \in Instances
  BY DEF Fetch, ThreadsInv, ThreadAt
<1>2. /\ pc[t] = "fetch" /\ pc' = [pc EXCEPT ![t] = "use"]
      /\ self' = [self EXCEPT ![t] = instance[todo[t].on]]
      /\ UNCHANGED <<todo, begun, created, overlapped, instance>>
  BY DEF Fetch, Go, singletons
<1>3. ThreadTypes'
  BY <1>1, <1>2 DEF ThreadTypes, Places
<1>4. ThreadsInv'
  <2>1. ThreadAt(t)'
    BY <1>1, <1>2 DEF ThreadAt, ThreadTypes
  <2>2. Others(t)
    BY <1>2 DEF Others, ThreadTypes
  <2> QED
    BY <2>1, <2>2, ThreadFrame
<1>5. CountInv'
  BY <1>2, CountFrame
<1> QED
  BY <1>3, <1>4, <1>5

\* The steps that use an instance, and the fields they have.
LEMMA UserFields ==
  ASSUME TypeInv, NEW t \in Threads, pc[t] \in {"use", "told", "half", "read"}
  PROVE  /\ self[t] \in Instances /\ todo[t] \in Operations
         /\ todo[t].op = "attachCanvas" => todo[t].on = "board" /\ todo[t].arg \in Canvases
         /\ todo[t].op = "attachOpeartionQueue" => todo[t].on = "board" /\ todo[t].arg \in Queues
         /\ todo[t].op = "setInHostMode_" => todo[t].on = "board" /\ todo[t].arg \in BOOLEAN
         /\ todo[t].op = "trigerReadOperationQueue" => todo[t].on = "board"
         /\ todo[t].op = "bind" =>
              todo[t].on = "delegate" /\ todo[t].server \in Servers /\ todo[t].arg \in Endpoints
         /\ todo[t].op = "connect" => todo[t].on = "delegate" /\ todo[t].server \in Servers
<1>1. self[t] \in Instances /\ todo[t] \in Operations
  BY DEF TypeInv, ThreadsInv, ThreadAt
<1> QED
  BY <1>1, OperationFields

LEMMA RegisterTypes ==
  ASSUME TypeInv, NEW t \in Threads, Register(t)
  PROVE  TypeInv'
<1> USE DEF TypeInv, TypeOK
<1> DEFINE b == self[t]
           rid == IF slots < MaskBits THEN slots + 1 ELSE Refused
<1>1. /\ slots' = IF slots < MaskBits THEN slots + 1 ELSE slots
      /\ contextRid_' = [contextRid_ EXCEPT ![b] = Append(@, rid)]
      /\ UNCHANGED <<displayer_, operationQueue_, inHostMode_, isDrawable_, canvas, queue, mode>>
      /\ UNCHANGED <<threads, singletons, delegates, main, swapped>>
  BY DEF Register
<1>2. rid \in 1 .. MaskBits \cup {Refused} /\ slots' \in 0 .. MaskBits
  BY <1>1, StartupAssumption DEF BoardTypes
<1>3. contextRid_' \in [Instances -> Seq(1 .. MaskBits \cup {Refused})]
  <2> SUFFICES ASSUME b \in Instances
               PROVE  Append(contextRid_[b], rid) \in Seq(1 .. MaskBits \cup {Refused})
    BY <1>1 DEF BoardTypes
  <2> HIDE DEF rid
  <2>1. contextRid_[b] \in Seq(1 .. MaskBits \cup {Refused})
    BY DEF BoardTypes
  <2> QED
    BY <1>2, <2>1
<1>4. BoardTypes'
  BY <1>1, <1>2, <1>3 DEF BoardTypes
<1>5. ThreadsInv' /\ CountInv' /\ ReaderInv'
  BY <1>1 DEF ThreadsInv, ThreadAt, CountInv, Looking, ReaderInv, threads, singletons, main
<1> QED
  BY <1>1, <1>4, <1>5, TypeFrames

\* The steps on a board.
LEMMA BoardStepTypes ==
  ASSUME TypeInv, NEW t \in Threads,
         attachCanvas(t) \/ attachOpeartionQueue(t) \/ TellCanvas(t) \/ RememberMode(t)
  PROVE  TypeInv'
<1> TypeOK /\ ReaderInv /\ BoardTypes
  BY DEF TypeInv, TypeOK
<1>1. CASE attachCanvas(t)
  <2>1. todo[t].arg \in Canvases /\ pc[t] = "use"
    BY <1>1, UserFields DEF attachCanvas, At
  <2>2. BoardTypes'
    BY <1>1, <2>1 DEF attachCanvas, BoardTypes
  <2>3. ThreadTypes' /\ ThreadsInv' /\ CountInv'
    BY <1>1, <2>1, EndThreads DEF attachCanvas, Places
  <2> QED
    BY <1>1, <2>2, <2>3, TypeFrames DEF attachCanvas, TypeInv, TypeOK, ReaderInv, main
<1>2. CASE attachOpeartionQueue(t)
  <2>1. todo[t].arg \in Queues /\ pc[t] = "use"
    BY <1>2, UserFields DEF attachOpeartionQueue, At
  <2>2. BoardTypes'
    BY <1>2, <2>1 DEF attachOpeartionQueue, BoardTypes
  <2>3. ThreadTypes' /\ ThreadsInv' /\ CountInv'
    BY <1>2, <2>1, EndThreads DEF attachOpeartionQueue, Places
  <2>4. swapped' \in BOOLEAN
    BY <1>2 DEF attachOpeartionQueue, TypeOK
  <2> QED
    BY <1>2, <2>2, <2>3, <2>4, TypeFrames
       DEF attachOpeartionQueue, TypeInv, TypeOK, ReaderInv, main
<1>3. CASE TellCanvas(t)
  <2>1. todo[t].arg \in BOOLEAN /\ pc[t] = "use" /\ todo[t].op = "setInHostMode_"
        /\ self[t] \in Instances
    BY <1>3, UserFields DEF TellCanvas, At
  <2>2. BoardTypes'
    <3>1. isDrawable_' \in [Canvases -> BOOLEAN] /\ mode' \subseteq BOOLEAN
      BY <1>3, <2>1 DEF TellCanvas, BoardTypes
    <3> QED
      BY <1>3, <3>1 DEF TellCanvas, BoardTypes
  <2>3. ThreadTypes' /\ ThreadsInv' /\ CountInv'
    BY <1>3, <2>1, GoThreads DEF TellCanvas
  <2> QED
    BY <1>3, <2>2, <2>3, TypeFrames DEF TellCanvas, TypeInv, TypeOK, ReaderInv, main
<1>4. CASE RememberMode(t)
  <2>1. todo[t].arg \in BOOLEAN /\ pc[t] = "told"
    BY <1>4, UserFields DEF RememberMode, At
  <2>2. BoardTypes'
    BY <1>4, <2>1 DEF RememberMode, BoardTypes
  <2>3. ThreadTypes' /\ ThreadsInv' /\ CountInv'
    BY <1>4, <2>1, EndThreads DEF RememberMode, Places
  <2> QED
    BY <1>4, <2>2, <2>3, TypeFrames DEF RememberMode, TypeInv, TypeOK, ReaderInv, main
<1> QED
  BY <1>1, <1>2, <1>3, <1>4

LEMMA DisturbTypes ==
  ASSUME DelegateTypes, NEW t \in Threads, NEW own \in Endpoints \cup {Nil}
  PROVE  Disturb(t, own) \in [Threads -> Endpoints \cup {Nil}]
BY DEF Disturb, DelegateTypes

\* The steps on a delegate.
LEMMA DelegateStepTypes ==
  ASSUME TypeInv, NEW t \in Threads,
         BindIp(t) \/ BindPort(t) \/ ReadIp(t) \/ ReadPort(t) \/ Leave(t)
  PROVE  TypeInv'
<1> TypeOK /\ ReaderInv /\ DelegateTypes
  BY DEF TypeInv, TypeOK
<1>1. CASE BindIp(t)
  <2>1. todo[t].arg \in Endpoints /\ todo[t].server \in Servers /\ pc[t] = "use"
        /\ todo[t].op = "bind"
    BY <1>1, UserFields DEF BindIp, At
  <2>2. DelegateTypes'
    <3>1. ip' \in [Instances -> [Servers -> Endpoints \cup {Nil}]]
      BY <1>1, <2>1 DEF BindIp, DelegateTypes
    <3>2. expected' \in [Threads -> Endpoints \cup {Nil}]
      BY <1>1, <2>1, DisturbTypes DEF BindIp
    <3> QED
      BY <1>1, <3>1, <3>2 DEF BindIp, DelegateTypes
  <2>3. ThreadTypes' /\ ThreadsInv' /\ CountInv'
    BY <1>1, <2>1, GoThreads DEF BindIp
  <2> QED
    BY <1>1, <2>2, <2>3, TypeFrames DEF BindIp, TypeInv, TypeOK, ReaderInv, main
<1>2. CASE BindPort(t)
  <2>1. todo[t].arg \in Endpoints /\ todo[t].server \in Servers /\ pc[t] = "half"
    BY <1>2, UserFields DEF BindPort, At
  <2>2. DelegateTypes'
    <3>1. port' \in [Instances -> [Servers -> Endpoints \cup {Nil}]]
      BY <1>2, <2>1 DEF BindPort, DelegateTypes
    <3>2. expected' \in [Threads -> Endpoints \cup {Nil}]
      BY <1>2, <2>1, DisturbTypes DEF BindPort
    <3> QED
      BY <1>2, <3>1, <3>2 DEF BindPort, DelegateTypes
  <2>3. ThreadTypes' /\ ThreadsInv' /\ CountInv'
    BY <1>2, <2>1, EndThreads DEF BindPort, Places
  <2> QED
    BY <1>2, <2>2, <2>3, TypeFrames DEF BindPort, TypeInv, TypeOK, ReaderInv, main
<1>3. CASE ReadIp(t)
  <2>1. todo[t].server \in Servers /\ pc[t] = "use" /\ todo[t].op = "connect"
        /\ self[t] \in Instances
    BY <1>3, UserFields DEF ReadIp, At
  <2>2. DelegateTypes'
    <3>1. ip[self[t]][todo[t].server] \in Endpoints \cup {Nil}
      BY <2>1 DEF DelegateTypes
    <3>2. <<ip[self[t]][todo[t].server]>> \in Seq(Endpoints \cup {Nil})
      BY <3>1
    <3> QED
      BY <1>3, <2>1, <3>2 DEF ReadIp, DelegateTypes
  <2>3. ThreadTypes' /\ ThreadsInv' /\ CountInv'
    BY <1>3, <2>1, GoThreads DEF ReadIp
  <2> QED
    BY <1>3, <2>2, <2>3, TypeFrames DEF ReadIp, TypeInv, TypeOK, ReaderInv, main
<1>4. CASE ReadPort(t)
  <2>1. todo[t].server \in Servers /\ pc[t] = "half" /\ todo[t].op = "connect"
        /\ self[t] \in Instances
    BY <1>4, UserFields DEF ReadPort, At
  <2>2. DelegateTypes'
    <3>1. port[self[t]][PortOf(todo[t].server)] \in Endpoints \cup {Nil}
      BY <2>1 DEF DelegateTypes, PortOf
    <3>2. got[t] \in Seq(Endpoints \cup {Nil})
      BY DEF DelegateTypes
    <3>3. Append(got[t], port[self[t]][PortOf(todo[t].server)]) \in Seq(Endpoints \cup {Nil})
      BY <3>1, <3>2
    <3> QED
      BY <1>4, <3>3 DEF ReadPort, DelegateTypes
  <2>3. ThreadTypes' /\ ThreadsInv' /\ CountInv'
    BY <1>4, <2>1, GoThreads DEF ReadPort
  <2> QED
    BY <1>4, <2>2, <2>3, TypeFrames DEF ReadPort, TypeInv, TypeOK, ReaderInv, main
<1>5. CASE Leave(t)
  <2>1. pc[t] = "read" /\ <<>> \in Seq(Endpoints \cup {Nil})
    BY <1>5 DEF Leave, At
  <2>2. DelegateTypes'
    BY <1>5, <2>1 DEF Leave, DelegateTypes
  <2>3. ThreadTypes' /\ ThreadsInv' /\ CountInv'
    BY <1>5, <2>1, EndThreads DEF Leave, Places
  <2> QED
    BY <1>5, <2>2, <2>3, TypeFrames DEF Leave, TypeInv, TypeOK, ReaderInv, main
<1> QED
  BY <1>1, <1>2, <1>3, <1>4, <1>5

LEMMA TrigerTypes ==
  ASSUME TypeInv, NEW t \in Threads, trigerReadOperationQueue(t)
  PROVE  TypeInv'
<1> TypeOK /\ ReaderInv /\ MainTypes
  BY DEF TypeInv, TypeOK
<1>1. pc[t] = "use" /\ self[t] \in Instances
  BY UserFields DEF trigerReadOperationQueue, At
<1>2. MainTypes'
  BY <1>1 DEF trigerReadOperationQueue, MainTypes
<1>3. ThreadTypes' /\ ThreadsInv' /\ CountInv'
  BY <1>1, EndThreads DEF trigerReadOperationQueue, Places
<1> QED
  BY <1>2, <1>3, TypeFrames DEF trigerReadOperationQueue, TypeInv, TypeOK, ReaderInv

\* The steps of readOperationQueue, which take one operation at most of a
\* queue that is not empty.
LEMMA ReaderTypes ==
  ASSUME TypeInv, readOperationQueue
  PROVE  TypeInv'
<1> TypeOK /\ ReaderInv /\ MainTypes
  BY DEF TypeInv, TypeOK
<1>1. UNCHANGED <<singletons, threads, boards, delegates, swapped>>
  BY DEF readOperationQueue, ReaderGoes, StartReading, Lock, Check, UnLock, Take
<1>2. reader # "idle" => Queue \in Queues \cup {Nil}
  BY DEF Queue, ReaderInv, TypeOK, BoardTypes
<1>3. MainTypes' /\ ReaderInv'
  <2>1. CASE StartReading
    <3>1. Head(mainQueue) \in Instances /\ Tail(mainQueue) \in Seq(Instances)
      BY <2>1 DEF StartReading, MainTypes
    <3> QED
      BY <2>1, <3>1 DEF StartReading, ReaderGoes, MainTypes, ReaderPlaces, ReaderInv
  <2>2. CASE Lock
    <3>1. locked' \in [Queues -> Nat]
      <4>1. CASE Attached /\ Queue \in Queues
        BY <2>2, <4>1 DEF Lock, MainTypes
      <4>2. CASE ~Attached
        BY <2>2, <4>2 DEF Lock, MainTypes
      <4> QED
        BY <1>2, <2>2, <4>1, <4>2 DEF Lock, Attached
    <3> QED
      BY <2>2, <3>1 DEF Lock, ReaderGoes, MainTypes, ReaderPlaces, ReaderInv
  <2>3. CASE Check
    BY <2>3 DEF Check, ReaderGoes, MainTypes, ReaderPlaces, ReaderInv
  <2>4. CASE UnLock
    <3>1. locked' \in [Queues -> Nat]
      <4>1. CASE Attached /\ locked[Queue] > 0
        <5>1. Queue \in Queues
          BY <1>2, <2>4, <4>1 DEF UnLock, Attached
        <5>2. locked[Queue] - 1 \in Nat
          BY <4>1, <5>1 DEF MainTypes
        <5> QED
          BY <2>4, <4>1, <5>2 DEF UnLock, MainTypes
      <4>2. CASE ~(Attached /\ locked[Queue] > 0)
        BY <2>4, <4>2 DEF UnLock, MainTypes
      <4> QED
        BY <4>1, <4>2
    <3> QED
      BY <2>4, <3>1 DEF UnLock, ReaderGoes, MainTypes, ReaderPlaces, ReaderInv
  <2>5. CASE Take
    <3>1. items' \in [Queues -> 0 .. 1] /\ crashed' \in BOOLEAN
      <4>1. CASE isEmpty \/ ~Attached
        BY <2>5, <4>1 DEF Take, MainTypes
      <4>2. CASE ~isEmpty /\ Attached
        <5>1. Queue \in Queues /\ items[Queue] # 0
          BY <1>2, <2>5, <4>2 DEF Take, Attached, isEmpty
        <5>2. items[Queue] - 1 \in 0 .. 1
          BY <5>1 DEF MainTypes
        <5> QED
          BY <2>5, <4>2, <5>2 DEF Take, Removed, MainTypes
      <4> QED
        BY <4>1, <4>2
    <3> QED
      BY <2>5, <3>1 DEF Take, ReaderGoes, MainTypes, ReaderPlaces, ReaderInv
  <2> QED
    BY <2>1, <2>2, <2>3, <2>4, <2>5 DEF readOperationQueue
<1>4. ThreadsInv' /\ CountInv'
  BY <1>1 DEF TypeInv, ThreadsInv, ThreadAt, CountInv, Looking, threads, singletons
<1> QED
  BY <1>1, <1>3, <1>4, TypeFrames DEF TypeInv, TypeOK

LEMMA TypeInvNext == TypeInv /\ [Next]_vars => TypeInv'
<1> SUFFICES ASSUME TypeInv, [Next]_vars PROVE TypeInv'
  OBVIOUS
<1> TypeOK /\ ReaderInv
  BY DEF TypeInv
<1>1. ASSUME NEW t \in Threads, NEW o \in Operations, Begin(t, o) PROVE TypeInv'
  BY <1>1, BeginThreads, TypeFrames DEF Begin, TypeInv, TypeOK, ReaderInv, main
<1>2. ASSUME NEW t \in Threads, Step(t) PROVE TypeInv'
  <2>1. CASE Look(t)
    BY <2>1, LookThreads, TypeFrames DEF Look, TypeInv, TypeOK, ReaderInv, main
  <2>2. CASE Store(t)
    BY <2>2, StoreThreads, TypeFrames DEF Store, TypeInv, TypeOK, ReaderInv, main
  <2>3. CASE Fetch(t)
    BY <2>3, FetchThreads, TypeFrames DEF Fetch, TypeInv, TypeOK, ReaderInv, main
  <2> QED
    BY <1>2, <2>1, <2>2, <2>3, RegisterTypes, BoardStepTypes, DelegateStepTypes, TrigerTypes
       DEF Step
<1>3. CASE UNCHANGED vars
  BY <1>3, TypeFrames DEF vars, TypeInv, TypeOK, ThreadsInv, ThreadAt, CountInv, Looking,
     ReaderInv, singletons, threads, main
<1> QED
  BY <1>1, <1>2, <1>3, ReaderTypes DEF Next

\* Every variable stays in its range; there are never more instances than
\* operations were begun, and every operation works on one that was made.
THEOREM TypeCorrect == Spec => []TypeOK
<1>1. TypeInv => TypeOK
  BY DEF TypeInv
<1> QED
  BY <1>1, TypeInvInit, TypeInvNext, PTL DEF Spec

-----------------------------------------------------------------------------
Creating(t, s) == pc[t] = "create" /\ todo[t].on = s
Using(t, s) == pc[t] \in {"use", "told", "half", "read"} /\ todo[t].on = s

\* The one instance is 1: it is being made by one thread, or it was stored,
\* and whoever uses one uses it.
OneInstance(s) ==
  /\ created[s] \in {0, 1}
  /\ instance[s] # Nil => instance[s] = 1 /\ created[s] = 1
  /\ instance[s] = Nil /\ created[s] = 1 => \E t \in Threads : Creating(t, s)
  /\ \A t \in Threads :
       /\ Creating(t, s) => instance[s] = Nil /\ created[s] = 1 /\ self[t] = 1
       /\ Using(t, s) => self[t] = 1
  /\ \A t, u \in Threads : Creating(t, s) /\ Creating(u, s) => t = u
OneInv == \A s \in Singletons \ overlapped : OneInstance(s)

LEMMA OneInvInit == Init => OneInv
BY DEF Init, OneInv, OneInstance, Creating, Using

\* A step that neither looks for an instance nor stores one, and starts to use
\* none.
LEMMA OneFrame ==
  ASSUME OneInv, UNCHANGED singletons,
         \A u \in Threads, s \in Singletons :
           /\ Creating(u, s)' <=> Creating(u, s)
           /\ Using(u, s)' => Using(u, s)
           /\ Creating(u, s) \/ Using(u, s) => self'[u] = self[u]
  PROVE  OneInv'
<1> SUFFICES ASSUME NEW s \in Singletons \ overlapped PROVE OneInstance(s)'
  BY DEF OneInv, singletons
<1>1. OneInstance(s) /\ instance'[s] = instance[s] /\ created'[s] = created[s]
  BY DEF OneInv, singletons
<1>2. \A u \in Threads :
        /\ Creating(u, s)' <=> Creating(u, s)
        /\ Using(u, s)' => Using(u, s)
        /\ Creating(u, s) \/ Using(u, s) => self'[u] = self[u]
  OBVIOUS
<1> HIDE DEF Creating, Using
<1> QED
  BY <1>1, <1>2 DEF OneInstance

LEMMA OneInvLook ==
  ASSUME TypeInv, OneInv, NEW t \in Threads, Look(t)
  PROVE  OneInv'
<1> TypeOK
  BY DEF TypeInv
<1> DEFINE s == todo[t].on
<1>1. pc[t] = "look" /\ s \in Singletons
  BY OperationFields DEF Look, TypeInv, ThreadsInv, ThreadAt
<1>2. CASE ~Missing(s)
  <2>1. pc' = [pc EXCEPT ![t] = "fetch"] /\ UNCHANGED <<self, todo, singletons>>
    BY <1>2 DEF Look, Go, singletons
  <2>2. \A u \in Threads, x \in Singletons :
          /\ Creating(u, x)' <=> Creating(u, x)
          /\ Using(u, x)' => Using(u, x)
          /\ self'[u] = self[u]
    BY <1>1, <2>1 DEF Creating, Using, TypeOK, ThreadTypes
  <2> QED
    BY <2>1, <2>2, OneFrame
<1>3. CASE Missing(s)
  <2>1. /\ pc' = [pc EXCEPT ![t] = "create"] /\ created' = [created EXCEPT ![s] = @ + 1]
        /\ self' = [self EXCEPT ![t] = created[s] + 1] /\ UNCHANGED <<instance, todo>>
        /\ overlapped \subseteq overlapped'
        /\ s \notin overlapped' => s \notin overlapped /\ \A u \in Threads : ~Creating(u, s)
        /\ instance[s] = Nil
    BY <1>3 DEF Look, Go, Missing, Creating
  <2> SUFFICES ASSUME NEW x \in Singletons \ overlapped' PROVE OneInstance(x)'
    BY DEF OneInv
  <2>2. OneInstance(x)
    BY <2>1 DEF OneInv
  <2>3. \A u \in Threads :
          /\ u # t => (Creating(u, x)' <=> Creating(u, x)) /\ (Using(u, x)' <=> Using(u, x))
          /\ u # t => self'[u] = self[u]
          /\ ~Creating(t, x) /\ ~Using(t, x) /\ ~Using(t, x)'
          /\ Creating(t, x)' <=> x = s
    BY <1>1, <2>1 DEF Creating, Using, TypeOK, ThreadTypes
  <2> HIDE DEF Creating, Using
  <2>4. CASE x # s
    <3>1. instance'[x] = instance[x] /\ created'[x] = created[x]
      BY <2>1, <2>4 DEF TypeOK, SingletonTypes
    <3> QED
      BY <2>2, <2>3, <2>4, <3>1 DEF OneInstance
  <2>5. CASE x = s
    <3>1. \A u \in Threads : ~Creating(u, s)
      BY <2>1, <2>5
    <3>2. created[s] = 0
      BY <2>1, <2>2, <2>5, <3>1 DEF OneInstance
    <3>3. created'[s] = 1 /\ self'[t] = 1 /\ instance'[s] = Nil
      BY <1>1, <2>1, <3>2 DEF TypeOK, SingletonTypes, ThreadTypes
    <3> QED
      BY <2>2, <2>3, <2>5, <3>1, <3>3 DEF OneInstance
  <2> QED
    BY <2>4, <2>5
<1> QED
  BY <1>2, <1>3

LEMMA OneInvStore ==
  ASSUME TypeInv, OneInv, NEW t \in Threads, Store(t)
  PROVE  OneInv'
<1> TypeOK
  BY DEF TypeInv
<1> DEFINE s == todo[t].on
<1>1. /\ pc[t] = "create" /\ pc' = [pc EXCEPT ![t] = "fetch"]
      /\ instance' = [instance EXCEPT ![s] = self[t]]
      /\ UNCHANGED <<todo, self, created, overlapped>>
  BY DEF Store, Go
<1>2. s \in Singletons
  BY <1>1, OperationFields DEF TypeInv, ThreadsInv, ThreadAt
<1> SUFFICES ASSUME NEW x \in Singletons \ overlapped PROVE OneInstance(x)'
  BY <1>1 DEF OneInv
<1>3. OneInstance(x)
  BY DEF OneInv
<1>4. \A u \in Threads :
        /\ u # t => (Creating(u, x)' <=> Creating(u, x))
        /\ Using(u, x)' <=> Using(u, x)
        /\ ~Creating(t, x)' /\ (Creating(t, x) <=> x = s)
  BY <1>1 DEF Creating, Using, TypeOK, ThreadTypes
<1> HIDE DEF Creating, Using
<1>5. CASE x # s
  <2>1. instance'[x] = instance[x]
    BY <1>1, <1>5 DEF TypeOK, SingletonTypes
  <2> QED
    BY <1>1, <1>3, <1>4, <1>5, <2>1 DEF OneInstance
<1>6. CASE x = s
  <2>1. created[s] = 1 /\ self[t] = 1
    BY <1>3, <1>4, <1>6 DEF OneInstance
  <2>2. instance'[s] = 1
    BY <1>1, <1>2, <2>1 DEF TypeOK, SingletonTypes
  <2>3. \A u \in Threads : ~Creating(u, x)'
    <3> SUFFICES ASSUME NEW u \in Threads, Creating(u, x)' PROVE FALSE
      OBVIOUS
    <3>1. u # t
      BY <1>4
    <3>2. Creating(u, x) /\ Creating(t, x)
      BY <1>4, <1>6, <3>1
    <3> QED
      BY <1>3, <3>1, <3>2 DEF OneInstance
  <2> QED
    BY <1>1, <1>3, <1>4, <1>6, <2>1, <2>2, <2>3 DEF OneInstance, Nil
<1> QED
  BY <1>5, <1>6

LEMMA OneInvFetch ==
  ASSUME TypeInv, OneInv, NEW t \in Threads, Fetch(t)
  PROVE  OneInv'
<1> TypeOK
  BY DEF TypeInv
<1> DEFINE s == todo[t].on
<1>1. /\ pc[t] = "fetch" /\ pc' = [pc EXCEPT ![t] = "use"]
      /\ self' = [self EXCEPT ![t] = instance[s]]
      /\ UNCHANGED <<todo, created, overlapped, instance>>
  BY DEF Fetch, Go, singletons
<1>2. instance[s] # Nil
  BY <1>1 DEF TypeInv, ThreadsInv, ThreadAt, Instances, Nil
<1> SUFFICES ASSUME NEW x \in Singletons \ overlapped PROVE OneInstance(x)'
  BY <1>1 DEF OneInv
<1>3. OneInstance(x)
  BY DEF OneInv
<1>4. \A u \in Threads :
        /\ Creating(u, x)' <=> Creating(u, x)
        /\ u # t => (Using(u, x)' <=> Using(u, x)) /\ self'[u] = self[u]
        /\ ~Creating(t, x) /\ (Using(t, x)' => x = s)
  BY <1>1 DEF Creating, Using, TypeOK, ThreadTypes
<1>5. Using(t, x)' => self'[t] = 1
  <2> SUFFICES ASSUME x = s PROVE self'[t] = 1
    BY <1>4
  <2> QED
    BY <1>1, <1>2, <1>3 DEF OneInstance, TypeOK, ThreadTypes
<1> HIDE DEF Creating, Using
<1> QED
  BY <1>1, <1>3, <1>4, <1>5 DEF OneInstance

\* Where the users of an instance go.
LEMMA OneInvUse ==
  ASSUME TypeInv, OneInv, NEW t \in Threads, pc[t] \in {"use", "told", "half", "read"},
         NEW p \in {"idle", "told", "half", "read"}, pc' = [pc EXCEPT ![t] = p],
         p # "idle" => todo' = todo, p = "idle" => todo' = [todo EXCEPT ![t] = None],
         self' = self, UNCHANGED singletons
  PROVE  OneInv'
<1>1. \A u \in Threads, s \in Singletons :
        (Creating(u, s)' <=> Creating(u, s)) /\ (Using(u, s)' => Using(u, s))
  BY DEF Creating, Using, TypeInv, TypeOK, ThreadTypes
<1> QED
  BY <1>1, OneFrame

LEMMA OneInvNext == TypeInv /\ OneInv /\ [Next]_vars => OneInv'
<1> SUFFICES ASSUME TypeInv, OneInv, [Next]_vars PROVE OneInv'
  OBVIOUS
<1>1. ASSUME NEW t \in Threads, NEW o \in Operations, Begin(t, o) PROVE OneInv'
  <2>1. \A u \in Threads, s \in Singletons :
          (Creating(u, s)' <=> Creating(u, s)) /\ (Using(u, s)' => Using(u, s))
    BY <1>1 DEF Begin, Go, Creating, Using, TypeInv, TypeOK, ThreadTypes
  <2> QED
    BY <1>1, <2>1, OneFrame DEF Begin
<1>2. CASE UNCHANGED <<threads, singletons>>
  <2>1. \A u \in Threads, s \in Singletons :
          (Creating(u, s)' <=> Creating(u, s)) /\ (Using(u, s)' => Using(u, s))
    BY <1>2 DEF Creating, Using, threads
  <2> QED
    BY <1>2, <2>1, OneFrame DEF threads
<1>3. ASSUME NEW t \in Threads, Step(t) PROVE OneInv'
  <2>1. CASE attachCanvas(t) \/ attachOpeartionQueue(t) \/ RememberMode(t) \/ BindPort(t)
             \/ Leave(t) \/ trigerReadOperationQueue(t)
    BY <2>1, OneInvUse DEF attachCanvas, attachOpeartionQueue, RememberMode, BindPort, Leave,
       trigerReadOperationQueue, At, End, Go
  <2>2. CASE TellCanvas(t) \/ BindIp(t) \/ ReadIp(t) \/ ReadPort(t)
    BY <2>2, OneInvUse DEF TellCanvas, BindIp, ReadIp, ReadPort, At, Go
  <2>3. CASE Register(t)
    BY <1>2, <2>3 DEF Register
  <2> QED
    BY <1>3, <2>1, <2>2, <2>3, OneInvLook, OneInvStore, OneInvFetch DEF Step
<1>4. readOperationQueue \/ UNCHANGED vars => UNCHANGED <<threads, singletons>>
  BY DEF readOperationQueue, ReaderGoes, StartReading, Lock, Check, UnLock, Take, vars
<1> QED
  BY <1>1, <1>2, <1>3, <1>4 DEF Next

LEMMA OneInvHolds == Spec => [](TypeInv /\ OneInv)
BY TypeInvInit, TypeInvNext, OneInvInit, OneInvNext, PTL DEF Spec

-----------------------------------------------------------------------------
\* The slots go to the contexts of the one board, in their order.
SlotsInv ==
  /\ slots =< BOARD_NUM
  /\ instance["board"] = 1 => slots = BOARD_NUM
  /\ 1 \in Instances =>
       Len(contextRid_[1]) = slots /\ \A k \in 1 .. slots : contextRid_[1][k] = k

AttachedInv == 1 \in Instances => displayer_[1] = canvas /\ operationQueue_[1] = queue

\* While the history has a mode, the canvas is in it; so is the board, or the
\* only thread that is between the two is about to set it.
Told(t) == At(t, "setInHostMode_", "told")
ModeInv ==
  \A b \in mode :
    /\ mode = {b} /\ 1 \in Instances /\ canvas # Nil /\ isDrawable_[canvas] = b
    /\ \A t, u \in Threads : Told(t) /\ Told(u) => t = u
    /\ \A t \in Threads : Told(t) => todo[t].arg = b
    /\ (\A t \in Threads : ~Told(t)) => inHostMode_[1] = b

BoardInv == "board" \notin overlapped => SlotsInv /\ AttachedInv /\ ModeInv

LEMMA BoardInvInit == Init => BoardInv
<1> SUFFICES ASSUME Init PROVE SlotsInv /\ AttachedInv /\ ModeInv
  BY DEF BoardInv
<1>1. SlotsInv
  BY StartupAssumption DEF Init, SlotsInv, Singletons, Nil
<1>2. AttachedInv /\ ModeInv
  BY DEF Init, AttachedInv, ModeInv
<1> QED
  BY <1>1, <1>2

\* Whoever uses the board, or the delegate, uses the one there is.
LEMMA UsesTheOne ==
  ASSUME TypeInv, OneInv, NEW t \in Threads, NEW s \in Singletons \ overlapped,
         Creating(t, s) \/ Using(t, s)
  PROVE  self[t] = 1 /\ 1 \in Instances /\ (Creating(t, s) => instance[s] = Nil)
<1>1. OneInstance(s)
  BY DEF OneInv
<1>2. self[t] = 1 /\ (Creating(t, s) => instance[s] = Nil)
  BY <1>1 DEF OneInstance
<1>3. self[t] \in Instances
  BY DEF TypeInv, ThreadsInv, ThreadAt, Creating, Using
<1> QED
  BY <1>2, <1>3

LEMMA SlotsStep ==
  ASSUME TypeInv, OneInv, "board" \notin overlapped, SlotsInv, NEW t \in Threads,
         Register(t) \/ Store(t)
  PROVE  SlotsInv'
<1> TypeOK
  BY DEF TypeInv
<1>1. CASE Register(t)
  <2>1. Creating(t, "board")
    BY <1>1 DEF Register, Creating
  <2>2. self[t] = 1 /\ 1 \in Instances /\ instance["board"] = Nil
    BY <2>1, UsesTheOne DEF Singletons
  <2>3. /\ Len(contextRid_[1]) < BOARD_NUM /\ instance' = instance
        /\ slots' = IF slots < MaskBits THEN slots + 1 ELSE slots
        /\ contextRid_' = [contextRid_ EXCEPT ![1] =
             Append(@, IF slots < MaskBits THEN slots + 1 ELSE Refused)]
    BY <1>1, <2>2 DEF Register, singletons
  <2>4. /\ slots \in Nat /\ slots < BOARD_NUM /\ BOARD_NUM \in Nat /\ slots < MaskBits
        /\ Len(contextRid_[1]) = slots /\ \A k \in 1 .. slots : contextRid_[1][k] = k
    BY <2>2, <2>3, StartupAssumption DEF SlotsInv, TypeOK, BoardTypes
  <2>5. slots' = slots + 1 /\ slots' =< BOARD_NUM
    BY <2>3, <2>4
  <2>6. contextRid_'[1] = Append(contextRid_[1], slots + 1)
    BY <2>2, <2>3, <2>4 DEF TypeOK, BoardTypes
  <2>7. contextRid_[1] \in Seq(1 .. MaskBits \cup {Refused})
    BY <2>2 DEF TypeOK, BoardTypes
  <2>8. Len(contextRid_'[1]) = slots + 1 /\ \A k \in 1 .. slots + 1 : contextRid_'[1][k] = k
    BY <2>4, <2>6, <2>7
  <2> QED
    BY <2>2, <2>3, <2>5, <2>8 DEF SlotsInv, Nil
<1>2. CASE Store(t)
  <2>1. UNCHANGED <<slots, contextRid_>>
    BY <1>2 DEF Store, boards
  <2>2. CASE todo[t].on = "board"
    <3>1. Creating(t, "board")
      BY <1>2, <2>2 DEF Store, Creating
    <3>2. self[t] = 1 /\ 1 \in Instances
      BY <3>1, UsesTheOne DEF Singletons
    <3>3. slots = BOARD_NUM
      BY <1>2, <2>2, <3>2 DEF Store, SlotsInv
    <3> QED
      BY <2>1, <3>3 DEF SlotsInv
  <2>3. CASE todo[t].on # "board"
    <3>1. instance'["board"] = instance["board"]
      BY <1>2, <2>3 DEF Store, TypeOK, SingletonTypes, Singletons
    <3> QED
      BY <2>1, <3>1 DEF SlotsInv
  <2> QED
    BY <2>2, <2>3
<1> QED
  BY <1>1, <1>2

LEMMA AttachStep ==
  ASSUME TypeInv, OneInv, "board" \notin overlapped, AttachedInv, NEW t \in Threads,
         attachCanvas(t) \/ attachOpeartionQueue(t)
  PROVE  AttachedInv'
<1> TypeOK
  BY DEF TypeInv
<1>1. Using(t, "board")
  <2>1. pc[t] = "use" /\ todo[t].op \in {"attachCanvas", "attachOpeartionQueue"}
    BY DEF attachCanvas, attachOpeartionQueue, At
  <2> QED
    BY <2>1, UserFields DEF Using
<1>2. self[t] = 1
  BY <1>1, UsesTheOne DEF Singletons
<1>3. CASE attachCanvas(t)
  BY <1>2, <1>3 DEF attachCanvas, AttachedInv, TypeOK, BoardTypes
<1>4. CASE attachOpeartionQueue(t)
  BY <1>2, <1>4 DEF attachOpeartionQueue, AttachedInv, TypeOK, BoardTypes
<1> QED
  BY <1>3, <1>4

LEMMA ModeFrame ==
  ASSUME ModeInv, UNCHANGED <<mode, canvas, isDrawable_, inHostMode_>>,
         \A u \in Threads : (Told(u)' <=> Told(u)) /\ (Told(u) => todo'[u] = todo[u])
  PROVE  ModeInv'
<1> HIDE DEF Told
<1> QED
  BY DEF ModeInv

LEMMA ModeStep ==
  ASSUME TypeInv, OneInv, "board" \notin overlapped, AttachedInv, ModeInv, NEW t \in Threads,
         attachCanvas(t) \/ TellCanvas(t) \/ RememberMode(t)
  PROVE  ModeInv'
<1> TypeOK
  BY DEF TypeInv
<1>1. Using(t, "board") /\ (todo[t].op = "setInHostMode_" => todo[t].arg \in BOOLEAN)
  <2>1. pc[t] \in {"use", "told"} /\ todo[t].op \in {"attachCanvas", "setInHostMode_"}
    BY DEF attachCanvas, TellCanvas, RememberMode, At
  <2> QED
    BY <2>1, UserFields DEF Using
<1>2. self[t] = 1 /\ 1 \in Instances
  BY <1>1, UsesTheOne DEF Singletons
<1>3. CASE attachCanvas(t)
  BY <1>3 DEF attachCanvas, ModeInv
<1>4. CASE TellCanvas(t)
  <2>1. CASE mode' = {}
    BY <2>1 DEF ModeInv
  <2>2. CASE mode' # {}
    <3>1. /\ displayer_[1] # Nil /\ \A u \in Threads : ~Told(u)
          /\ mode' = {todo[t].arg} /\ isDrawable_' = [isDrawable_ EXCEPT ![canvas] = todo[t].arg]
          /\ displayer_[1] = canvas /\ pc' = [pc EXCEPT ![t] = "told"]
          /\ todo' = todo /\ canvas' = canvas
      BY <1>2, <1>4, <2>2 DEF TellCanvas, AttachedInv, Told, Go
    <3>2. \A u \in Threads : Told(u)' <=> u = t
      BY <1>4, <3>1 DEF TellCanvas, Told, At, TypeOK, ThreadTypes
    <3>3. canvas \in Canvases
      BY <3>1 DEF TypeOK, BoardTypes
    <3>4. isDrawable_'[canvas] = todo[t].arg
      BY <3>1, <3>3 DEF TypeOK, BoardTypes
    <3> HIDE DEF Told
    <3> QED
      BY <1>2, <3>1, <3>2, <3>4 DEF ModeInv
  <2> QED
    BY <2>1, <2>2
<1>5. CASE RememberMode(t)
  <2>1. CASE mode' = {}
    BY <2>1 DEF ModeInv
  <2>2. CASE mode' # {}
    <3>1. /\ mode' = mode /\ inHostMode_' = [inHostMode_ EXCEPT ![1] = todo[t].arg]
          /\ isDrawable_' = isDrawable_ /\ canvas' = canvas /\ Told(t)
          /\ pc' = [pc EXCEPT ![t] = "idle"]
          /\ \A u \in Threads \ {t} : ~Told(u)
      BY <1>2, <1>5, <2>2 DEF RememberMode, End, Go, Told
    <3>2. \A u \in Threads : ~Told(u)'
      BY <1>5, <3>1 DEF RememberMode, End, Go, Told, At, TypeOK, ThreadTypes
    <3>3. inHostMode_'[1] = todo[t].arg
      BY <1>2, <3>1 DEF TypeOK, BoardTypes
    <3> HIDE DEF Told
    <3> QED
      BY <1>2, <3>1, <3>2, <3>3 DEF ModeInv
  <2> QED
    BY <2>1, <2>2
<1> QED
  BY <1>3, <1>4, <1>5

\* The steps that neither begin nor end a call of setInHostMode_:.
LEMMA ToldKept ==
  ASSUME TypeInv, NEW t \in Threads,
         Step(t) \/ \E o \in Operations : Begin(t, o),
         ~attachCanvas(t), ~TellCanvas(t), ~RememberMode(t)
  PROVE  /\ UNCHANGED <<mode, canvas, isDrawable_, inHostMode_>>
         /\ \A u \in Threads : (Told(u)' <=> Told(u)) /\ (Told(u) => todo'[u] = todo[u])
<1> USE DEF Told, At, Go, TypeInv, TypeOK, ThreadTypes, boards
<1>1. CASE \E o \in Operations : Begin(t, o)
  BY <1>1 DEF Begin
<1>2. CASE Look(t)
  BY <1>2 DEF Look
<1>3. CASE Register(t)
  BY <1>3 DEF Register, threads
<1>4. CASE Store(t) \/ Fetch(t)
  BY <1>4 DEF Store, Fetch
<1>5. CASE attachOpeartionQueue(t) \/ trigerReadOperationQueue(t)
  BY <1>5 DEF attachOpeartionQueue, trigerReadOperationQueue, End
<1>6. CASE BindIp(t) \/ ReadIp(t) \/ ReadPort(t)
  BY <1>6 DEF BindIp, ReadIp, ReadPort
<1>7. CASE BindPort(t) \/ Leave(t)
  BY <1>7 DEF BindPort, Leave, End
<1> QED
  BY <1>1, <1>2, <1>3, <1>4, <1>5, <1>6, <1>7 DEF Step

LEMMA BoardInvNext == TypeInv /\ OneInv /\ BoardInv /\ [Next]_vars => BoardInv'
<1> SUFFICES ASSUME TypeInv, OneInv, BoardInv, [Next]_vars, "board" \notin overlapped'
             PROVE  SlotsInv' /\ AttachedInv' /\ ModeInv'
  BY DEF BoardInv
<1>1. ASSUME NEW t \in Threads, Step(t) \/ \E o \in Operations : Begin(t, o)
      PROVE  SlotsInv' /\ AttachedInv' /\ ModeInv'
  <2>1. overlapped \subseteq overlapped'
    BY <1>1 DEF Step, Begin, Look, Register, Store, Fetch, attachCanvas, attachOpeartionQueue,
       TellCanvas, RememberMode, BindIp, BindPort, ReadIp, ReadPort, Leave,
       trigerReadOperationQueue, singletons
  <2>2. "board" \notin overlapped /\ SlotsInv /\ AttachedInv /\ ModeInv
    BY <2>1 DEF BoardInv
  <2>3. Register(t) \/ Store(t) \/ UNCHANGED <<slots, contextRid_, instance>>
    BY <1>1 DEF Step, Begin, Look, Fetch, attachCanvas, attachOpeartionQueue,
       TellCanvas, RememberMode, BindIp, BindPort, ReadIp, ReadPort, Leave,
       trigerReadOperationQueue, singletons, boards
  <2>4. SlotsInv'
    BY <2>2, <2>3, SlotsStep DEF SlotsInv
  <2>5. \/ attachCanvas(t) \/ attachOpeartionQueue(t)
        \/ UNCHANGED <<displayer_, operationQueue_, canvas, queue>>
    BY <1>1 DEF Step, Begin, Look, Register, Store, Fetch,
       TellCanvas, RememberMode, BindIp, BindPort, ReadIp, ReadPort, Leave,
       trigerReadOperationQueue, boards
  <2>6. AttachedInv'
    BY <2>2, <2>5, AttachStep DEF AttachedInv
  <2>7. ModeInv'
    <3>1. CASE attachCanvas(t) \/ TellCanvas(t) \/ RememberMode(t)
      BY <2>2, <3>1, ModeStep
    <3>2. CASE ~(attachCanvas(t) \/ TellCanvas(t) \/ RememberMode(t))
      BY <1>1, <2>2, <3>2, ToldKept, ModeFrame
    <3> QED
      BY <3>1, <3>2
  <2> QED
    BY <2>4, <2>6, <2>7
<1>2. CASE readOperationQueue \/ UNCHANGED vars
  <2>1. UNCHANGED <<singletons, threads, boards>>
    BY <1>2 DEF readOperationQueue, ReaderGoes, StartReading, Lock, Check, UnLock, Take, vars
  <2>2. SlotsInv /\ AttachedInv /\ ModeInv
    BY <2>1 DEF BoardInv, singletons
  <2>3. ModeInv'
    BY <2>1, <2>2, ModeFrame DEF boards, threads, Told, At
  <2> QED
    BY <2>1, <2>2, <2>3 DEF singletons, boards, SlotsInv, AttachedInv
<1> QED
  BY <1>1, <1>2 DEF Next

\* As long as no two threads found the board missing at once, it has a slot
\* for every context, the canvas and the queue attached last, and it and its
\* canvas are in the mode that was set.
THEOREM BoardIsWhole == Spec => []BoardWhole
<1>1. TypeInv /\ OneInv /\ BoardInv => BoardWhole
  <2> SUFFICES ASSUME TypeInv, OneInv, BoardInv, "board" \notin overlapped,
                      instance["board"] # Nil
               PROVE  Slots /\ Attachments /\ Mode
    BY DEF BoardWhole
  <2>1. instance["board"] = 1 /\ 1 \in Instances
    <3>1. OneInstance("board")
      BY DEF OneInv, Singletons
    <3>2. instance["board"] \in Instances
      BY DEF TypeInv, TypeOK, SingletonTypes, Singletons
    <3> QED
      BY <3>1, <3>2 DEF OneInstance
  <2>2. SlotsInv /\ AttachedInv /\ ModeInv
    BY DEF BoardInv
  <2>3. Slots
    <3> SUFFICES ASSUME NEW k \in 1 .. BOARD_NUM PROVE contextRid_[1][k] # Refused
      BY <2>1 DEF Slots
    <3>1. contextRid_[1][k] = k
      BY <2>1, <2>2 DEF SlotsInv
    <3> QED
      BY <3>1 DEF Refused
  <2>4. Attachments
    BY <2>1, <2>2 DEF Attachments, AttachedInv
  <2>5. Mode
    BY <2>1, <2>2 DEF Mode, ModeInv, Told
  <2> QED
    BY <2>3, <2>4, <2>5
<1> QED
  BY <1>1, OneInvHolds, BoardInvInit, BoardInvNext, PTL DEF Spec

-----------------------------------------------------------------------------
\* An address the history has as bound is whole.
BoundInv ==
  \A s \in Servers : bound[s] # Nil =>
    1 \in Instances /\ ip[1][s] = bound[s] /\ port[1][s] = bound[s]

\* A thread nobody came in upon finds the half it has still to read, or its
\* own half still there.
ExpectAt(t) ==
  expected[t] # Nil =>
    /\ At(t, "bind", "half") =>
         expected[t] = todo[t].arg /\ ip[1][todo[t].server] = todo[t].arg
    /\ At(t, "connect", "half") =>
         got[t] = <<expected[t]>> /\ port[1][todo[t].server] = expected[t]
    /\ pc[t] = "read" => got[t] = <<expected[t], expected[t]>>
ExpectInv == \A t \in Threads : ExpectAt(t)

AddressInv == "delegate" \notin overlapped => BoundInv /\ ExpectInv

LEMMA AddressInvInit == Init => AddressInv
BY DEF Init, AddressInv, BoundInv, ExpectInv, ExpectAt

\* A thread that uses the delegate, and its server.
LEMMA DelegateUser ==
  ASSUME TypeInv, OneInv, "delegate" \notin overlapped, NEW t \in Threads,
         pc[t] \in {"use", "half", "read"}, todo[t].op \in {"bind", "connect"}
  PROVE  self[t] = 1 /\ 1 \in Instances /\ todo[t].server \in Servers
<1>1. todo[t].on = "delegate" /\ todo[t].server \in Servers
  BY UserFields
<1>2. Using(t, "delegate")
  BY <1>1 DEF Using
<1> QED
  BY <1>1, <1>2, UsesTheOne DEF Singletons

LEMMA BindIpStep ==
  ASSUME TypeInv, OneInv, "delegate" \notin overlapped, BoundInv, ExpectInv,
         NEW t \in Threads, BindIp(t)
  PROVE  BoundInv' /\ ExpectInv'
<1> DEFINE s == todo[t].server
<1> TypeOK /\ DelegateTypes /\ ThreadTypes
  BY DEF TypeInv, TypeOK
<1>1. /\ todo[t].op = "bind" /\ pc[t] = "use" /\ self[t] = 1 /\ 1 \in Instances /\ s \in Servers
      /\ ip' = [ip EXCEPT ![1][s] = todo[t].arg] /\ bound' = [bound EXCEPT ![s] = Nil]
      /\ expected'[t] \in {Nil, todo[t].arg}
      /\ \A u \in Threads \ {t} : expected'[u] =
           IF pc[u] = "half" /\ todo[u].server = s THEN Nil ELSE expected[u]
      /\ pc' = [pc EXCEPT ![t] = "half"] /\ UNCHANGED <<port, got, todo>>
  BY DelegateUser DEF BindIp, At, Disturb, Go
<1>2. ip'[1][s] = todo[t].arg /\ \A x \in Servers \ {s} : ip'[1][x] = ip[1][x]
  BY <1>1 DEF DelegateTypes
<1>3. BoundInv'
  <2> SUFFICES ASSUME NEW x \in Servers, bound'[x] # Nil
               PROVE  1 \in Instances /\ ip'[1][x] = bound'[x] /\ port'[1][x] = bound'[x]
    BY DEF BoundInv
  <2>1. x # s /\ bound'[x] = bound[x]
    BY <1>1 DEF DelegateTypes
  <2> QED
    BY <1>1, <1>2, <2>1 DEF BoundInv
<1>4. ExpectAt(t)'
  BY <1>1, <1>2 DEF ExpectAt, At, ThreadTypes
<1>5. ASSUME NEW u \in Threads \ {t} PROVE ExpectAt(u)'
  <2> SUFFICES ASSUME expected'[u] # Nil PROVE ExpectAt(u)'
    BY DEF ExpectAt
  <2>1. /\ expected'[u] = expected[u] /\ pc'[u] = pc[u]
        /\ ~(pc[u] = "half" /\ todo[u].server = s)
    BY <1>1 DEF ThreadTypes
  <2>2. At(u, "bind", "half") => ip'[1][todo[u].server] = ip[1][todo[u].server]
    <3> SUFFICES ASSUME At(u, "bind", "half")
                 PROVE  ip'[1][todo[u].server] = ip[1][todo[u].server]
      OBVIOUS
    <3>1. todo[u].server \in Servers
      BY DelegateUser DEF At
    <3> QED
      BY <1>2, <2>1, <3>1 DEF At
  <2>3. ExpectAt(u)
    BY DEF ExpectInv
  <2> QED
    BY <1>1, <2>1, <2>2, <2>3 DEF ExpectAt, At
<1> QED
  BY <1>3, <1>4, <1>5 DEF ExpectInv

LEMMA BindPortStep ==
  ASSUME TypeInv, OneInv, "delegate" \notin overlapped, BoundInv, ExpectInv,
         NEW t \in Threads, BindPort(t)
  PROVE  BoundInv' /\ ExpectInv'
<1> DEFINE s == todo[t].server
<1> TypeOK /\ DelegateTypes /\ ThreadTypes
  BY DEF TypeInv, TypeOK
<1>1. /\ At(t, "bind", "half") /\ self[t] = 1 /\ 1 \in Instances /\ s \in Servers
      /\ port' = [port EXCEPT ![1][s] = todo[t].arg]
      /\ bound' = [bound EXCEPT ![s] = expected[t]]
      /\ \A u \in Threads \ {t} : expected'[u] =
           IF pc[u] = "half" /\ todo[u].server = s THEN Nil ELSE expected[u]
      /\ pc' = [pc EXCEPT ![t] = "idle"] /\ todo' = [todo EXCEPT ![t] = None]
      /\ UNCHANGED <<ip, got>>
  BY DelegateUser DEF BindPort, At, Disturb, Go, End, PortOf
<1>2. port'[1][s] = todo[t].arg /\ \A x \in Servers \ {s} : port'[1][x] = port[1][x]
  BY <1>1 DEF DelegateTypes
<1>3. BoundInv'
  <2> SUFFICES ASSUME NEW x \in Servers, bound'[x] # Nil
               PROVE  1 \in Instances /\ ip'[1][x] = bound'[x] /\ port'[1][x] = bound'[x]
    BY DEF BoundInv
  <2>1. CASE x # s
    <3>1. bound'[x] = bound[x]
      BY <1>1, <2>1 DEF DelegateTypes
    <3> QED
      BY <1>1, <1>2, <2>1, <3>1 DEF BoundInv
  <2>2. CASE x = s
    <3>1. bound'[s] = expected[t]
      BY <1>1 DEF DelegateTypes
    <3>2. expected[t] = todo[t].arg /\ ip[1][s] = todo[t].arg
      BY <1>1, <2>2, <3>1 DEF ExpectInv, ExpectAt
    <3> QED
      BY <1>1, <1>2, <2>2, <3>1, <3>2
  <2> QED
    BY <2>1, <2>2
<1>4. ExpectAt(t)'
  BY <1>1 DEF ExpectAt, At, ThreadTypes
<1>5. ASSUME NEW u \in Threads \ {t} PROVE ExpectAt(u)'
  <2> SUFFICES ASSUME expected'[u] # Nil PROVE ExpectAt(u)'
    BY DEF ExpectAt
  <2>1. /\ expected'[u] = expected[u] /\ pc'[u] = pc[u] /\ todo'[u] = todo[u]
        /\ ~(pc[u] = "half" /\ todo[u].server = s)
    BY <1>1 DEF ThreadTypes
  <2>2. At(u, "connect", "half") => port'[1][todo[u].server] = port[1][todo[u].server]
    <3> SUFFICES ASSUME At(u, "connect", "half")
                 PROVE  port'[1][todo[u].server] = port[1][todo[u].server]
      OBVIOUS
    <3>1. todo[u].server \in Servers
      BY DelegateUser DEF At
    <3> QED
      BY <1>2, <2>1, <3>1 DEF At
  <2>3. ExpectAt(u)
    BY DEF ExpectInv
  <2> QED
    BY <1>1, <2>1, <2>2, <2>3 DEF ExpectAt, At
<1> QED
  BY <1>3, <1>4, <1>5 DEF ExpectInv

\* A step of a call that connects, which changes no address.
LEMMA ReadStep ==
  ASSUME TypeInv, OneInv, "delegate" \notin overlapped, BoundInv, ExpectInv,
         NEW t \in Threads, ReadIp(t) \/ ReadPort(t) \/ Leave(t)
  PROVE  BoundInv' /\ ExpectInv'
<1> DEFINE s == todo[t].server
<1> TypeOK /\ DelegateTypes /\ ThreadTypes
  BY DEF TypeInv, TypeOK
<1>1. BoundInv'
  BY DEF ReadIp, ReadPort, Leave, BoundInv
<1>2. self[t] = 1 /\ 1 \in Instances /\ s \in Servers
  BY DelegateUser DEF ReadIp, ReadPort, Leave, At
<1>3. ExpectAt(t)'
  <2>1. CASE ReadIp(t)
    <3>1. /\ expected'[t] = bound[s] /\ got'[t] = <<ip[1][s]>>
          /\ pc'[t] = "half" /\ todo'[t].op = "connect"
          /\ UNCHANGED <<ip, port, todo>>
      BY <1>2, <2>1 DEF ReadIp, At, Go, DelegateTypes, ThreadTypes
    <3>2. bound[s] # Nil => ip[1][s] = bound[s] /\ port[1][s] = bound[s]
      BY <1>2 DEF BoundInv
    <3> QED
      BY <3>1, <3>2 DEF ExpectAt, At
  <2>2. CASE ReadPort(t)
    <3>1. /\ expected'[t] = expected[t] /\ got'[t] = Append(got[t], port[1][s])
          /\ pc'[t] = "read" /\ At(t, "connect", "half")
      BY <1>2, <2>2 DEF ReadPort, At, Go, DelegateTypes, ThreadTypes, PortOf
    <3>2. expected[t] # Nil => got[t] = <<expected[t]>> /\ port[1][s] = expected[t]
      BY <3>1 DEF ExpectInv, ExpectAt
    <3>3. expected[t] # Nil => got'[t] = <<expected[t], expected[t]>>
      <4>1. ASSUME NEW e \in Endpoints \cup {Nil} PROVE Append(<<e>>, e) = <<e, e>>
        <5> DEFINE a == Append(<<e>>, e)
                   b == <<e, e>>
        <5>1. a \in Seq(Endpoints \cup {Nil}) /\ Len(a) = 2 /\ a[1] = e /\ a[2] = e
          OBVIOUS
        <5>2. b \in Seq(Endpoints \cup {Nil}) /\ Len(b) = 2 /\ b[1] = e /\ b[2] = e
          OBVIOUS
        <5> HIDE DEF a, b
        <5>3. Len(a) = Len(b) /\ \A i \in 1 .. Len(a) : a[i] = b[i]
          BY <5>1, <5>2
        <5>4. a = b
          BY <5>1, <5>2, <5>3, SeqEqual
        <5> QED
          BY <5>4 DEF a, b
      <4>2. expected[t] \in Endpoints \cup {Nil}
        BY DEF DelegateTypes
      <4>3. expected[t] # Nil => got'[t] = Append(<<expected[t]>>, expected[t])
        BY <3>1, <3>2
      <4> QED
        BY <4>1, <4>2, <4>3
    <3> QED
      BY <3>1, <3>3 DEF ExpectAt, At
  <2>3. CASE Leave(t)
    BY <2>3 DEF Leave, ExpectAt, DelegateTypes
  <2> QED
    BY <2>1, <2>2, <2>3
<1>4. ASSUME NEW u \in Threads \ {t} PROVE ExpectAt(u)'
  <2>1. /\ expected'[u] = expected[u] /\ pc'[u] = pc[u] /\ todo'[u] = todo[u]
        /\ got'[u] = got[u] /\ UNCHANGED <<ip, port>>
    BY DEF ReadIp, ReadPort, Leave, Go, End, DelegateTypes, ThreadTypes
  <2>2. ExpectAt(u)
    BY DEF ExpectInv
  <2> QED
    BY <2>1, <2>2 DEF ExpectAt, At
<1> QED
  BY <1>1, <1>3, <1>4 DEF ExpectInv

\* Nothing else changes an address or a thread that works on one.
LEMMA AddressFrame ==
  ASSUME BoundInv, ExpectInv, UNCHANGED delegates,
         \A u \in Threads : pc'[u] \in {"half", "read"} => pc[u] = pc'[u] /\ todo'[u] = todo[u]
  PROVE  BoundInv' /\ ExpectInv'
<1>1. BoundInv'
  BY DEF delegates, BoundInv
<1>2. ASSUME NEW u \in Threads PROVE ExpectAt(u)'
  <2> SUFFICES ASSUME pc'[u] \in {"half", "read"} PROVE ExpectAt(u)'
    BY DEF ExpectAt, At
  <2>1. pc[u] = pc'[u] /\ todo'[u] = todo[u] /\ ExpectAt(u)
    BY DEF ExpectInv
  <2> QED
    BY <2>1 DEF ExpectAt, At, delegates
<1> QED
  BY <1>1, <1>2 DEF ExpectInv

LEMMA HalvesKept ==
  ASSUME TypeInv, NEW t \in Threads,
         Step(t) \/ \E o \in Operations : Begin(t, o),
         ~BindIp(t), ~BindPort(t), ~ReadIp(t), ~ReadPort(t), ~Leave(t)
  PROVE  /\ UNCHANGED delegates
         /\ \A u \in Threads :
              pc'[u] \in {"half", "read"} => pc[u] = pc'[u] /\ todo'[u] = todo[u]
<1> USE DEF Go, TypeInv, TypeOK, ThreadTypes
<1>1. CASE \E o \in Operations : Begin(t, o)
  BY <1>1 DEF Begin
<1>2. CASE Look(t)
  BY <1>2 DEF Look
<1>3. CASE Register(t)
  BY <1>3 DEF Register, threads
<1>4. CASE Store(t) \/ Fetch(t)
  BY <1>4 DEF Store, Fetch
<1>5. CASE attachCanvas(t) \/ attachOpeartionQueue(t) \/ trigerReadOperationQueue(t)
  BY <1>5 DEF attachCanvas, attachOpeartionQueue, trigerReadOperationQueue, End
<1>6. CASE TellCanvas(t)
  BY <1>6 DEF TellCanvas
<1>7. CASE RememberMode(t)
  BY <1>7 DEF RememberMode, End
<1> QED
  BY <1>1, <1>2, <1>3, <1>4, <1>5, <1>6, <1>7 DEF Step

LEMMA AddressInvNext == TypeInv /\ OneInv /\ AddressInv /\ [Next]_vars => AddressInv'
<1> SUFFICES ASSUME TypeInv, OneInv, AddressInv, [Next]_vars, "delegate" \notin overlapped'
             PROVE  BoundInv' /\ ExpectInv'
  BY DEF AddressInv
<1>1. ASSUME NEW t \in Threads, Step(t) \/ \E o \in Operations : Begin(t, o)
      PROVE  BoundInv' /\ ExpectInv'
  <2>1. overlapped \subseteq overlapped'
    BY <1>1 DEF Step, Begin, Look, Register, Store, Fetch, attachCanvas, attachOpeartionQueue,
       TellCanvas, RememberMode, BindIp, BindPort, ReadIp, ReadPort, Leave,
       trigerReadOperationQueue, singletons
  <2>2. "delegate" \notin overlapped /\ BoundInv /\ ExpectInv
    BY <2>1 DEF AddressInv
  <2>3. CASE BindIp(t) \/ BindPort(t) \/ ReadIp(t) \/ ReadPort(t) \/ Leave(t)
    BY <2>2, <2>3, BindIpStep, BindPortStep, ReadStep
  <2>4. CASE ~(BindIp(t) \/ BindPort(t) \/ ReadIp(t) \/ ReadPort(t) \/ Leave(t))
    BY <1>1, <2>2, <2>4, HalvesKept, AddressFrame
  <2> QED
    BY <2>3, <2>4
<1>2. CASE readOperationQueue \/ UNCHANGED vars
  <2>1. UNCHANGED <<singletons, threads, delegates>>
    BY <1>2 DEF readOperationQueue, ReaderGoes, StartReading, Lock, Check, UnLock, Take, vars
  <2>2. BoundInv /\ ExpectInv
    BY <2>1 DEF AddressInv, singletons
  <2> QED
    BY <2>1, <2>2, AddressFrame DEF threads
<1> QED
  BY <1>1, <1>2 DEF Next

\* As long as no two threads found the delegate missing at once, a call that no
\* bind came into has read the ip and the port that were bound together last.
THEOREM EndpointsAreWhole == Spec => []EndpointWhole
<1>1. AddressInv => EndpointWhole
  BY DEF AddressInv, ExpectInv, ExpectAt, EndpointWhole
<1> QED
  BY <1>1, OneInvHolds, AddressInvInit, AddressInvNext, PTL DEF Spec

-----------------------------------------------------------------------------
\* What main has locked between two steps of readOperationQueue, as long as no
\* queue was attached while it ran.
LockedBy(q) == IF q = Queue THEN 1 ELSE 0
ReaderHas ==
  /\ ~crashed
  /\ reader \in {"idle", "lock", "take"} => \A q \in Queues : locked[q] = 0
  /\ reader \in {"check", "return", "unlock"} => \A q \in Queues : locked[q] = LockedBy(q)
  /\ reader \in {"unlock", "take"} => ~isEmpty
GivenBackInv == ~swapped => ReaderHas

LEMMA GivenBackInit == Init => GivenBackInv
BY DEF Init, GivenBackInv, ReaderHas

LEMMA ReaderStep ==
  ASSUME TypeInv, ReaderHas, readOperationQueue
  PROVE  ReaderHas'
<1> MainTypes /\ (reader # "idle" => Queue \in Queues \cup {Nil}) /\ Nil \notin Queues
  BY StartupAssumption
     DEF TypeInv, TypeOK, MainTypes, BoardTypes, ReaderInv, Queue
<1>1. UNCHANGED boards
  BY DEF readOperationQueue, ReaderGoes, StartReading, Lock, Check, UnLock, Take
<1>2. CASE StartReading
  BY <1>2 DEF StartReading, ReaderGoes, ReaderHas
<1>3. reader # "idle" => reading' = reading /\ Queue' = Queue
  BY <1>1 DEF readOperationQueue, StartReading, Lock, Check, UnLock, Take, Queue, boards
<1>4. CASE Lock
  <2>1. reader = "lock" /\ reader' = "check" /\ Queue' = Queue /\ crashed' = crashed
    BY <1>3, <1>4 DEF Lock, ReaderGoes
  <2>2. \A q \in Queues : locked'[q] = LockedBy(q)
    <3>1. CASE Attached
      BY <1>4, <2>1, <3>1 DEF Lock, ReaderHas, LockedBy, MainTypes
    <3>2. CASE ~Attached
      BY <1>4, <2>1, <3>2 DEF Lock, ReaderHas, LockedBy, MainTypes, Attached
    <3> QED
      BY <3>1, <3>2
  <2> QED
    BY <2>1, <2>2 DEF ReaderHas, LockedBy
<1>5. CASE Check
  <2>1. /\ reader = "check" /\ reader' = IF isEmpty THEN "return" ELSE "unlock"
        /\ Queue' = Queue /\ UNCHANGED <<crashed, locked, items>>
    BY <1>3, <1>5 DEF Check, ReaderGoes
  <2>2. isEmpty' = isEmpty
    BY <2>1 DEF isEmpty, Attached
  <2>3. \A q \in Queues : locked'[q] = LockedBy(q)'
    BY <2>1 DEF ReaderHas, LockedBy
  <2> QED
    BY <2>1, <2>2, <2>3 DEF ReaderHas
<1>6. CASE UnLock
  <2>1. /\ reader \in {"return", "unlock"} /\ UNCHANGED <<crashed, items>> /\ Queue' = Queue
        /\ reader' = IF reader = "return" THEN "idle" ELSE "take"
    BY <1>3, <1>6 DEF UnLock, ReaderGoes
  <2>2. \A q \in Queues : locked'[q] = 0
    <3>1. \A q \in Queues : locked[q] = LockedBy(q)
      BY <2>1 DEF ReaderHas
    <3>2. CASE Attached
      <4>1. Queue \in Queues /\ locked[Queue] = 1
        BY <2>1, <3>1, <3>2 DEF Attached, LockedBy
      <4>2. locked' = [locked EXCEPT ![Queue] = @ - 1]
        BY <1>6, <3>2, <4>1 DEF UnLock
      <4> QED
        BY <3>1, <4>1, <4>2 DEF MainTypes, LockedBy
    <3>3. CASE ~Attached
      <4>1. locked' = locked /\ Queue \notin Queues
        BY <1>6, <3>3 DEF UnLock, Attached
      <4> QED
        BY <3>1, <4>1 DEF LockedBy
    <3> QED
      BY <3>2, <3>3
  <2>3. isEmpty' = isEmpty
    BY <2>1 DEF isEmpty, Attached
  <2> QED
    BY <2>1, <2>2, <2>3 DEF ReaderHas
<1>7. CASE Take
  <2>1. ~isEmpty /\ crashed' = crashed /\ locked' = locked /\ reader = "take"
        /\ reader' = "lock"
    BY <1>7 DEF Take, ReaderGoes, ReaderHas
  <2> QED
    BY <2>1 DEF ReaderHas
<1> QED
  BY <1>2, <1>4, <1>5, <1>6, <1>7 DEF readOperationQueue

LEMMA GivenBackNext == TypeInv /\ GivenBackInv /\ [Next]_vars => GivenBackInv'
<1> SUFFICES ASSUME TypeInv, GivenBackInv, [Next]_vars, ~swapped' PROVE ReaderHas'
  BY DEF GivenBackInv
<1>1. CASE readOperationQueue
  <2>1. swapped' = swapped
    BY <1>1 DEF readOperationQueue, ReaderGoes, StartReading, Lock, Check, UnLock, Take
  <2> QED
    BY <1>1, <2>1, ReaderStep DEF GivenBackInv
<1>2. ASSUME NEW t \in Threads, attachOpeartionQueue(t) PROVE ReaderHas'
  <2>1. reader = "idle" /\ ~swapped /\ UNCHANGED main
    BY <1>2 DEF attachOpeartionQueue
  <2> QED
    BY <2>1 DEF GivenBackInv, ReaderHas, main
<1>3. CASE UNCHANGED <<operationQueue_, reader, reading, items, locked, crashed, swapped>>
  BY <1>3 DEF GivenBackInv, ReaderHas, LockedBy, isEmpty, Attached, Queue
<1>4. ASSUME NEW t \in Threads, Step(t) \/ \E o \in Operations : Begin(t, o),
             ~attachOpeartionQueue(t)
      PROVE  UNCHANGED <<operationQueue_, reader, reading, items, locked, crashed, swapped>>
  BY <1>4 DEF Step, Begin, Look, Register, Store, Fetch, attachCanvas,
     TellCanvas, RememberMode, BindIp, BindPort, ReadIp, ReadPort, Leave,
     trigerReadOperationQueue, boards, main
<1> QED
  BY <1>1, <1>2, <1>3, <1>4 DEF Next, vars, boards, main

\* readOperationQueue gives back every lock it took and never takes from an
\* empty queue, unless a queue was attached while it ran.
THEOREM ReaderGivesBack == Spec => []LocksGivenBack
<1>1. GivenBackInv => LocksGivenBack
  BY DEF GivenBackInv, ReaderHas, LocksGivenBack
<1> QED
  BY <1>1, OneInvHolds, GivenBackInit, GivenBackNext, PTL DEF Spec

-----------------------------------------------------------------------------
(***************************************************************************)
(* What ReaderEnds rests on.  Attached to a queue, readOperationQueue has  *)
(* at most ReadsLeft steps to go: four for each operation, and the rest of *)
(* the round it is in.                                                     *)
(***************************************************************************)
RoundLeft ==
  CASE reader = "lock" -> 3 [] reader = "check" -> 2
    [] reader \in {"return", "unlock"} -> 1 [] OTHER -> 0
ReadsLeft == IF reader = "idle" THEN 0 ELSE 4 * items[Queue] + RoundLeft

\* While a queue is attached each step of readOperationQueue brings it nearer to
\* its end, or crashes; and what other threads do meanwhile does not put the end
\* off, unless they attach a queue.
NearerItsReturn ==
  [][reader # "idle" /\ Attached =>
       /\ readOperationQueue => crashed' \/ ReadsLeft' \in 0 .. ReadsLeft - 1
       /\ readOperationQueue \/ ReadsLeft' = ReadsLeft \/ operationQueue_' # operationQueue_]_vars

LEMMA ReaderComesNearer ==
  ASSUME TypeInv, readOperationQueue, reader # "idle", Attached
  PROVE  crashed' \/ ReadsLeft' \in 0 .. ReadsLeft - 1
<1>1. /\ Queue \in Queues /\ items \in [Queues -> 0 .. 1] /\ items[Queue] \in 0 .. 1
  BY StartupAssumption
     DEF TypeInv, TypeOK, MainTypes, BoardTypes, ReaderInv, Queue, Attached
<1>2. Queue' = Queue
  BY DEF readOperationQueue, ReaderGoes, StartReading, Lock, Check, UnLock, Take, Queue, boards
<1>3. CASE Lock
  <2>1. reader = "lock" /\ reader' = "check" /\ items' = items
    BY <1>3 DEF Lock, ReaderGoes
  <2> QED
    BY <1>1, <1>2, <2>1 DEF ReadsLeft, RoundLeft
<1>4. CASE Check
  <2>1. reader = "check" /\ reader' \in {"return", "unlock"} /\ items' = items
    BY <1>4 DEF Check, ReaderGoes
  <2> QED
    BY <1>1, <1>2, <2>1 DEF ReadsLeft, RoundLeft
<1>5. CASE UnLock
  <2>1. reader \in {"return", "unlock"} /\ reader' \in {"idle", "take"} /\ items' = items
    BY <1>5 DEF UnLock, ReaderGoes
  <2> QED
    BY <1>1, <1>2, <2>1 DEF ReadsLeft, RoundLeft
<1>6. CASE Take
  <2>1. SUFFICES ASSUME ~isEmpty PROVE ReadsLeft' \in 0 .. ReadsLeft - 1
    BY <1>6 DEF Take
  <2>2. reader = "take" /\ reader' = "lock" /\ items' = Removed(Queue)
    BY <1>6, <2>1 DEF Take, ReaderGoes
  <2>3. items[Queue] = 1 /\ items'[Queue] = 0
    BY <1>1, <2>1, <2>2 DEF isEmpty, Removed
  <2> QED
    BY <1>2, <2>2, <2>3 DEF ReadsLeft, RoundLeft
<1> QED
  BY <1>3, <1>4, <1>5, <1>6 DEF readOperationQueue, StartReading

\* readOperationQueue cannot go on for ever once a queue is attached: the number
\* of its steps is bounded by what is in the queue.
THEOREM ReaderRunsDown == Spec => NearerItsReturn
<1>1. ASSUME TypeInv, [Next]_vars, reader # "idle", Attached
      PROVE  /\ readOperationQueue => crashed' \/ ReadsLeft' \in 0 .. ReadsLeft - 1
             /\ \/ readOperationQueue \/ ReadsLeft' = ReadsLeft
                \/ operationQueue_' # operationQueue_
  <2>1. ASSUME NEW t \in Threads, Step(t) \/ \E o \in Operations : Begin(t, o)
        PROVE  UNCHANGED <<reader, reading, items>>
    BY <2>1 DEF Step, Begin, Look, Register, Store, Fetch, attachCanvas, attachOpeartionQueue,
       TellCanvas, RememberMode, BindIp, BindPort, ReadIp, ReadPort, Leave,
       trigerReadOperationQueue, main
  <2>2. readOperationQueue \/ UNCHANGED <<reader, reading, items>>
    BY <1>1, <2>1 DEF Next, vars, main
  <2>3. UNCHANGED <<reader, reading, items, operationQueue_>> => ReadsLeft' = ReadsLeft
    BY DEF ReadsLeft, RoundLeft, Queue
  <2> QED
    BY <1>1, <2>2, <2>3, ReaderComesNearer
<1> QED
  BY <1>1, OneInvHolds, PTL DEF Spec, NearerItsReturn
=============================================================================
