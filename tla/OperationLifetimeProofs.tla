---------------------- MODULE OperationLifetimeProofs -----------------------
(***************************************************************************)
(* Proofs about the life of the operations, for any number of boards, of   *)
(* objects and drawings, and any memory.                                   *)
(*                                                                         *)
(* InMemory needs the retain counts themselves: an operation a queue was   *)
(* given has one count for every place in an array, one if the application *)
(* holds it, and one more that nobody ever gives back.  MessagesIntact     *)
(* needs what is in the memory: a living operation is the last one         *)
(* allocated in its place, and what a dealloc finds in its own is either   *)
(* still that or an operation allocated meanwhile.                         *)
(***************************************************************************)
EXTENDS OperationLifetime, FiniteSetTheorems, SequenceTheorems, TLAPS

\* How often an operation is in an array.
LEMMA OccurrencesType ==
  ASSUME NEW S, NEW q \in Seq(S), NEW o
  PROVE  Occurrences(q, o) \in Nat /\ IsFiniteSet({k \in 1 .. Len(q) : q[k] = o})
<1>1. IsFiniteSet(1 .. Len(q))
  BY FS_Interval
<1>2. IsFiniteSet({k \in 1 .. Len(q) : q[k] = o})
  BY <1>1, FS_Subset
<1> QED
  BY <1>2, FS_CardinalityType DEF Occurrences

LEMMA OccurrencesNil == ASSUME NEW o PROVE Occurrences(<<>>, o) = 0
<1>1. {k \in 1 .. Len(<<>>) : <<>>[k] = o} = {}
  OBVIOUS
<1> QED
  BY <1>1, FS_EmptySet DEF Occurrences

LEMMA OccurrencesAppend ==
  ASSUME NEW S, NEW q \in Seq(S), NEW x \in S, NEW o
  PROVE  Occurrences(Append(q, x), o) = Occurrences(q, o) + (IF x = o THEN 1 ELSE 0)
<1> DEFINE K == {k \in 1 .. Len(q) : q[k] = o}
           L == {k \in 1 .. Len(Append(q, x)) : Append(q, x)[k] = o}
<1>1. IsFiniteSet(K) /\ Cardinality(K) \in Nat
  BY OccurrencesType DEF Occurrences
<1>2. Len(Append(q, x)) = Len(q) + 1 /\ Append(q, x)[Len(q) + 1] = x /\ Len(q) \in Nat
      /\ \A k \in 1 .. Len(q) : Append(q, x)[k] = q[k]
  OBVIOUS
<1>3. L = IF x = o THEN K \cup {Len(q) + 1} ELSE K
  BY <1>2
<1>4. Len(q) + 1 \notin K
  BY <1>2
<1>5. Cardinality(L) = Cardinality(K) + (IF x = o THEN 1 ELSE 0)
  <2>1. CASE x = o
    <3> HIDE DEF K, L
    <3>1. Cardinality(K \cup {Len(q) + 1}) = Cardinality(K) + 1
      BY <1>1, <1>4, FS_AddElement
    <3> QED
      BY <1>3, <2>1, <3>1
  <2>2. CASE x # o
    <3> HIDE DEF K, L
    <3> QED
      BY <1>1, <1>3, <2>2
  <2> QED
    BY <2>1, <2>2
<1> QED
  BY <1>5 DEF Occurrences

LEMMA OccurrencesTail ==
  ASSUME NEW S, NEW q \in Seq(S), q # <<>>, NEW o
  PROVE  Occurrences(q, o) = Occurrences(Tail(q), o) + (IF Head(q) = o THEN 1 ELSE 0)
<1> DEFINE K == {k \in 1 .. Len(q) : q[k] = o}
           L == {k \in 1 .. Len(Tail(q)) : Tail(q)[k] = o}
           f == [k \in L |-> k + 1]
<1>1. IsFiniteSet(K) /\ IsFiniteSet(L) /\ Cardinality(K) \in Nat
  <2>1. Tail(q) \in Seq(S)
    OBVIOUS
  <2>2. IsFiniteSet(L)
    BY <2>1, OccurrencesType
  <2> QED
    BY <2>2, OccurrencesType DEF Occurrences
<1>2. Len(Tail(q)) = Len(q) - 1 /\ Head(q) = q[1] /\ Len(q) \in Nat /\ Len(q) >= 1
      /\ \A k \in 1 .. Len(q) - 1 : Tail(q)[k] = q[k + 1]
  OBVIOUS
<1>3. f \in Bijection(L, K \ {1})
  <2>1. \A k \in L : f[k] \in K \ {1}
    BY <1>2
  <2>2. \A k, l \in L : f[k] = f[l] => k = l
    BY <1>2
  <2>3. ASSUME NEW k \in K \ {1} PROVE k - 1 \in L /\ f[k - 1] = k
    BY <1>2
  <2> QED
    BY <2>1, <2>2, <2>3 DEF Bijection, Injection, Surjection, IsInjective
<1>4. Cardinality(K \ {1}) = Cardinality(L)
  <2>1. ExistsBijection(L, K \ {1})
    BY <1>3 DEF ExistsBijection
  <2> HIDE DEF K, L
  <2> QED
    BY <1>1, <2>1, FS_Bijection
<1>5. 1 \in K <=> Head(q) = o
  BY <1>2
<1>6. Cardinality(K) = Cardinality(L) + (IF Head(q) = o THEN 1 ELSE 0)
  <2> HIDE DEF K, L
  <2>1. CASE Head(q) = o
    <3>1. Cardinality(K \ {1}) = Cardinality(K) - 1
      BY <1>1, <1>5, <2>1, FS_RemoveElement
    <3> QED
      BY <1>1, <1>4, <2>1, <3>1
  <2>2. CASE Head(q) # o
    <3>1. K \ {1} = K
      BY <1>5, <2>2
    <3>2. Cardinality(K) = Cardinality(L) /\ Cardinality(L) \in Nat
      BY <1>1, <1>4, <3>1
    <3> QED
      BY <2>2, <3>2
  <2> QED
    BY <2>1, <2>2
<1> QED
  BY <1>6 DEF Occurrences

-----------------------------------------------------------------------------
\* What is where in the memory.
MemTypes ==
  /\ allocated \in 0 .. MaxObjects
  /\ place \in [Objects -> Memory \cup {Nil}] /\ message \in [Objects -> Objects \cup {Nil}]
  /\ content \in [Memory -> 0 .. allocated]
  /\ retainCount \in [Objects -> Int] /\ deletions \in [Objects -> Nat]
  /\ dealloc \in [Threads -> SUBSET Allocated]
  /\ misplaced \subseteq Allocated

Placed == \A o \in Allocated : place[o] \in Memory /\ message[o] = o
LiveThere == \A o \in Allocated : Live(o) => content[place[o]] = o
DeadThere ==
  \A t \in Threads : \A o \in dealloc[t] :
    ~Live(o) /\ (content[place[o]] = o \/ content[place[o]] \in misplaced)
OneDealloc == \A t, u \in Threads : t # u => dealloc[t] \cap dealloc[u] = {}
DeletedOnce ==
  \A o \in Objects \ misplaced :
    /\ deletions[o] =< 1
    /\ o \notin Allocated \/ Live(o) \/ (\E t \in Threads : o \in dealloc[t]) => deletions[o] = 0

MemInv == MemTypes /\ Placed /\ LiveThere /\ DeadThere /\ OneDealloc /\ DeletedOnce

LEMMA MemSuffices == MemInv => MessagesIntact
<1> SUFFICES ASSUME MemInv, NEW o \in Allocated \ misplaced
             PROVE  deletions[message[o]] =< IF Live(o) THEN 0 ELSE 1
  BY DEF MessagesIntact
<1>1. o \in Objects /\ message[o] = o
  BY LifetimeAssumption DEF MemInv, MemTypes, Placed, Allocated, Objects
<1> QED
  BY <1>1 DEF MemInv, DeletedOnce

\* A new operation in a free place.
LEMMA AllocMem ==
  ASSUME MemInv, NEW m \in Memory, NEW count \in Nat \ {0}, Alloc(m, New, count)
  PROVE  MemInv'
<1> USE DEF MemInv
<1>1. /\ allocated \in 0 .. MaxObjects /\ MaxObjects \in Nat /\ allocated < MaxObjects
      /\ allocated' = allocated + 1
  BY LifetimeAssumption DEF MemTypes, Alloc
<1> DEFINE n == allocated + 1
<1>2. n \in Objects /\ n \notin Allocated /\ Allocated' = Allocated \cup {n} /\ n \in 0 .. allocated'
      /\ Allocated \subseteq Objects /\ 0 .. allocated \subseteq 0 .. allocated'
  BY <1>1 DEF Objects, Allocated
<1>3. /\ place' = [place EXCEPT ![n] = m] /\ message' = [message EXCEPT ![n] = n]
      /\ content' = [content EXCEPT ![m] = n] /\ retainCount' = [retainCount EXCEPT ![n] = count]
      /\ misplaced' = IF \E t \in Threads : \E o \in dealloc[t] : place[o] = m
                      THEN misplaced \cup {n} ELSE misplaced
      /\ UNCHANGED <<deletions, dealloc>>
  BY DEF Alloc, New
<1> HIDE DEF n
<1>4. \A o \in Allocated : o # n /\ place'[o] = place[o] /\ message'[o] = message[o]
                           /\ retainCount'[o] = retainCount[o]
  BY <1>2, <1>3 DEF MemTypes
<1>5. place'[n] = m /\ message'[n] = n /\ retainCount'[n] = count /\ content'[m] = n
      /\ \A l \in Memory : l # m => content'[l] = content[l]
  BY <1>2, <1>3 DEF MemTypes
<1>6. MemTypes'
  <2>1. place' \in [Objects -> Memory \cup {Nil}] /\ message' \in [Objects -> Objects \cup {Nil}]
        /\ content' \in [Memory -> 0 .. allocated'] /\ retainCount' \in [Objects -> Int]
    BY <1>2, <1>3 DEF MemTypes
  <2>2. allocated' \in 0 .. MaxObjects
    BY <1>1
  <2>3. dealloc' \in [Threads -> SUBSET Allocated'] /\ misplaced' \subseteq Allocated'
    BY <1>2, <1>3 DEF MemTypes
  <2> QED
    BY <1>3, <2>1, <2>2, <2>3 DEF MemTypes
<1>7. Placed'
  BY <1>2, <1>4, <1>5 DEF Placed
<1>8. LiveThere'
  BY <1>2, <1>4, <1>5 DEF LiveThere, Live, Placed, Alloc
<1>9. DeadThere'
  <2> SUFFICES ASSUME NEW t \in Threads, NEW o \in dealloc[t]
               PROVE  ~Live(o)' /\ (content'[place'[o]] = o \/ content'[place'[o]] \in misplaced')
    BY <1>3 DEF DeadThere
  <2>1. o \in Allocated /\ ~Live(o)'
    BY <1>4 DEF MemTypes, DeadThere, Live
  <2>2. CASE place[o] = m
    BY <1>3, <1>4, <1>5, <2>1, <2>2
  <2>3. CASE place[o] # m
    BY <1>3, <1>4, <1>5, <2>1, <2>3 DEF Placed, DeadThere
  <2> QED
    BY <2>1, <2>2, <2>3
<1>10. OneDealloc'
  BY <1>3 DEF OneDealloc
<1>11. DeletedOnce'
  <2> SUFFICES ASSUME NEW o \in Objects, o \notin misplaced'
               PROVE  /\ deletions[o] =< 1
                      /\ o \notin Allocated' \/ Live(o)' \/ (\E t \in Threads : o \in dealloc[t])
                           => deletions[o] = 0
    BY <1>3 DEF DeletedOnce
  <2>1. o \notin misplaced
    BY <1>3
  <2>2. CASE o = n
    BY <1>2, <2>1, <2>2 DEF DeletedOnce
  <2>3. CASE o # n
    BY <1>2, <1>4, <2>1, <2>3 DEF DeletedOnce, Live
  <2> QED
    BY <2>2, <2>3
<1> QED
  BY <1>6, <1>7, <1>8, <1>9, <1>10, <1>11

\* Counting again, where nothing is retained that was dead.
LEMMA RecountMem ==
  ASSUME MemInv, NEW t \in Threads, NEW count \in [Objects -> Int], Recount(t, count),
         \A o \in Objects : count[o] > 0 => Live(o)
  PROVE  MemInv'
<1> USE DEF MemInv
<1>1. retainCount' = count /\ UNCHANGED <<allocated, place, content, message, deletions, misplaced>>
      /\ Allocated' = Allocated
      /\ dealloc' = [dealloc EXCEPT ![t] = @ \cup {o \in Allocated : Live(o) /\ count[o] =< 0}]
  BY DEF Recount, Allocated
<1>2. Allocated \subseteq Objects
  BY LifetimeAssumption DEF MemTypes, Allocated, Objects
<1>3. \A u \in Threads : \A o \in dealloc'[u] :
        o \in Allocated /\ (o \in dealloc[u] \/ (u = t /\ Live(o) /\ count[o] =< 0))
  <2>1. dealloc'[t] = dealloc[t] \cup {o \in Allocated : Live(o) /\ count[o] =< 0}
        /\ \A u \in Threads : u # t => dealloc'[u] = dealloc[u]
    BY <1>1 DEF MemTypes
  <2> QED
    BY <2>1 DEF MemTypes
<1>4. \A o \in Objects : Live(o)' <=> count[o] > 0
  BY <1>1 DEF Live
<1>5. MemTypes'
  <2>1. dealloc' \in [Threads -> SUBSET Allocated]
    BY <1>1 DEF MemTypes
  <2> QED
    BY <1>1, <2>1 DEF MemTypes
<1>6. Placed' /\ LiveThere'
  BY <1>1, <1>2, <1>4 DEF Placed, LiveThere
<1>7. DeadThere'
  <2> SUFFICES ASSUME NEW u \in Threads, NEW o \in dealloc'[u]
               PROVE  ~Live(o)' /\ (content[place[o]] = o \/ content[place[o]] \in misplaced)
    BY <1>1 DEF DeadThere
  <2>1. o \in Objects /\ o \in Allocated /\ count[o] \in Int
    BY <1>2, <1>3
  <2>2. CASE o \in dealloc[u]
    BY <1>4, <2>1, <2>2 DEF DeadThere
  <2>3. CASE Live(o) /\ count[o] =< 0
    BY <1>4, <2>1, <2>3 DEF LiveThere
  <2> QED
    BY <1>3, <2>2, <2>3
<1>8. OneDealloc'
  BY <1>3 DEF OneDealloc, DeadThere
<1>9. DeletedOnce'
  <2> SUFFICES ASSUME NEW o \in Objects \ misplaced
               PROVE  /\ deletions[o] =< 1
                      /\ o \notin Allocated \/ Live(o)' \/ (\E u \in Threads : o \in dealloc'[u])
                           => deletions[o] = 0
    BY <1>1 DEF DeletedOnce
  <2>1. \A u \in Threads : o \in dealloc'[u] => Live(o) \/ o \in dealloc[u]
    BY <1>3
  <2>2. Live(o)' => Live(o)
    BY <1>4
  <2> QED
    BY <2>1, <2>2 DEF DeletedOnce
<1> QED
  BY <1>5, <1>6, <1>7, <1>8, <1>9

LEMMA DeleteMem ==
  ASSUME MemInv, NEW t \in Threads, NEW d \in dealloc[t], Delete(t, d)
  PROVE  MemInv'
<1> USE DEF MemInv
<1> DEFINE x == message[content[place[d]]]
<1>1. /\ UNCHANGED <<allocated, place, content, message, retainCount, misplaced>>
      /\ deletions' = [deletions EXCEPT ![x] = @ + 1]
      /\ dealloc' = [dealloc EXCEPT ![t] = @ \ {d}]
      /\ Allocated' = Allocated
  BY DEF Delete, Allocated
<1>2. d \in Allocated /\ Allocated \subseteq Objects /\ place[d] \in Memory /\ ~Live(d)
  BY LifetimeAssumption DEF MemTypes, Allocated, Objects, Placed, DeadThere
<1>3. x \in Objects /\ (x = d \/ x \in misplaced)
  BY <1>2 DEF MemTypes, Placed, DeadThere
<1> HIDE DEF x
<1>4. deletions' \in [Objects -> Nat] /\ dealloc' \in [Threads -> SUBSET Allocated]
      /\ deletions'[x] = deletions[x] + 1
      /\ \A o \in Objects : o # x => deletions'[o] = deletions[o]
  BY <1>1, <1>3 DEF MemTypes
<1>5. \A u \in Threads : dealloc'[u] \subseteq dealloc[u] /\ d \notin dealloc'[u]
  BY <1>1 DEF MemTypes, OneDealloc
<1>6. MemTypes'
  BY <1>1, <1>4 DEF MemTypes
<1>7. Placed' /\ LiveThere' /\ DeadThere' /\ OneDealloc'
  BY <1>1, <1>5 DEF Placed, LiveThere, DeadThere, OneDealloc, Live
<1>8. DeletedOnce'
  <2> SUFFICES ASSUME NEW o \in Objects \ misplaced
               PROVE  /\ deletions'[o] =< 1
                      /\ o \notin Allocated \/ Live(o) \/ (\E u \in Threads : o \in dealloc'[u])
                           => deletions'[o] = 0
    BY <1>1 DEF DeletedOnce, Live
  <2>1. CASE o = x
    <3>1. o = d /\ deletions[o] = 0
      BY <1>3, <2>1 DEF DeletedOnce
    <3> QED
      BY <1>2, <1>4, <1>5, <2>1, <3>1
  <2>2. CASE o # x
    BY <1>4, <1>5, <2>2 DEF DeletedOnce
  <2> QED
    BY <2>1, <2>2
<1> QED
  BY <1>6, <1>7, <1>8

-----------------------------------------------------------------------------
\* Who retains what.
Count(o) == Occurrences(operationQueue_, o) + Occurrences(realOperationQueue_, o)
ByApp(o) == IF o \in app THEN 1 ELSE 0

HoldTypes ==
  /\ app \subseteq Allocated /\ queued \subseteq Allocated
  /\ operationQueue_ \in Seq(queued) /\ realOperationQueue_ \in Seq(queued)
  /\ hand \in queued \cup {Nil}
  /\ op \in Allocated \cup {Nil} /\ op \notin app \cup queued

Held(o) ==
  /\ o \in queued => retainCount[o] >= 1 + Count(o) + ByApp(o)
  /\ o \notin queued => Count(o) = 0 /\ retainCount[o] = IF o = op THEN 1 ELSE ByApp(o)

HoldInv == HoldTypes /\ \A o \in Objects : Held(o)

LEMMA CountType ==
  ASSUME HoldTypes, NEW o
  PROVE  Count(o) \in Nat /\ Occurrences(operationQueue_, o) \in Nat
         /\ Occurrences(realOperationQueue_, o) \in Nat
<1>1. Occurrences(operationQueue_, o) \in Nat /\ Occurrences(realOperationQueue_, o) \in Nat
  BY OccurrencesType DEF HoldTypes
<1> QED
  BY <1>1 DEF Count

LEMMA AllocatedObjects ==
  MemTypes => Allocated \subseteq Objects /\ Nil \notin Objects /\ Allocated \subseteq Int
BY LifetimeAssumption DEF MemTypes, Allocated, Objects, Nil

LEMMA Living ==
  ASSUME MemTypes, HoldInv
  PROVE  \A o \in Objects : /\ retainCount[o] \in Int /\ retainCount[o] >= 0
                            /\ Live(o) <=> o \in app \/ o = op \/ o \in queued
<1> SUFFICES ASSUME NEW o \in Objects
             PROVE  /\ retainCount[o] \in Int /\ retainCount[o] >= 0
                    /\ Live(o) <=> o \in app \/ o = op \/ o \in queued
  OBVIOUS
<1>1. Held(o) /\ retainCount[o] \in Int /\ Count(o) \in Nat
  BY CountType DEF HoldInv, MemTypes
<1>2. CASE o \in queued
  BY <1>1, <1>2 DEF Held, ByApp, Live
<1>3. CASE o \notin queued
  BY <1>1, <1>3 DEF Held, ByApp, Live
<1> QED
  BY <1>1, <1>2, <1>3

LEMMA HoldSuffices == MemTypes /\ HoldInv => InMemory
BY Living, AllocatedObjects DEF InMemory

LEMMA SeqGrows ==
  ASSUME NEW S, NEW T, S \subseteq T, NEW q \in Seq(S)
  PROVE  q \in Seq(T)
OBVIOUS

\* The new operation is nobody's yet.
LEMMA NewIsFree ==
  ASSUME MemTypes, HoldInv, allocated < MaxObjects
  PROVE  /\ New \in Objects /\ New \notin Allocated /\ New # Nil
         /\ New \notin queued /\ New \notin app /\ New # op /\ Count(New) = 0
         /\ (allocated' = allocated + 1 => Allocated' = Allocated \cup {New})
<1>1. allocated \in Nat /\ MaxObjects \in Nat
  BY LifetimeAssumption DEF MemTypes
<1>2. New \in Objects /\ New \notin Allocated /\ New # Nil
  BY <1>1 DEF New, Objects, Allocated, Nil
<1>3. allocated' = allocated + 1 => Allocated' = Allocated \cup {New}
  BY <1>1 DEF New, Allocated
<1>4. New \notin queued /\ New \notin app /\ New # op
  BY <1>2 DEF HoldInv, HoldTypes
<1> QED
  BY <1>2, <1>3, <1>4 DEF HoldInv, Held

\* The count of one operation changes by d.
LEMMA One ==
  ASSUME MemTypes, NEW x \in Objects, NEW d \in Int, retainCount' = [retainCount EXCEPT ![x] = @ + d]
  PROVE  retainCount'[x] = retainCount[x] + d
         /\ \A o \in Objects : o # x => retainCount'[o] = retainCount[o]
BY DEF MemTypes

LEMMA CreateHold ==
  ASSUME MemTypes, HoldInv, NEW m \in Memory, Create(m)
  PROVE  HoldInv'
<1>1. /\ allocated < MaxObjects /\ allocated' = allocated + 1 /\ app' = app \cup {New}
      /\ retainCount' = [retainCount EXCEPT ![New] = 1] /\ UNCHANGED <<queues, op>>
  BY DEF Create, Alloc, board
<1>2. /\ New \in Objects /\ New \notin Allocated /\ New # Nil
      /\ New \notin queued /\ New \notin app /\ New # op /\ Count(New) = 0
      /\ Allocated' = Allocated \cup {New}
  BY <1>1, NewIsFree
<1>3. HoldTypes'
  BY <1>1, <1>2 DEF HoldInv, HoldTypes, queues
<1>4. retainCount'[New] = 1 /\ \A o \in Objects : o # New => retainCount'[o] = retainCount[o]
  BY <1>1, <1>2 DEF MemTypes
<1>5. \A o : Count(o)' = Count(o) /\ (o # New => ByApp(o)' = ByApp(o)) /\ (o = New => ByApp(o)' = 1)
  BY <1>1 DEF Count, ByApp, queues
<1>6. ASSUME NEW o \in Objects PROVE Held(o)'
  BY <1>1, <1>2, <1>4, <1>5 DEF HoldInv, Held, queues
<1> QED
  BY <1>3, <1>6 DEF HoldInv

LEMMA GetServerDataHold ==
  ASSUME MemTypes, HoldInv, NEW m \in Memory, getServerData(m)
  PROVE  HoldInv'
<1>1. /\ allocated < MaxObjects /\ allocated' = allocated + 1 /\ queued' = queued \cup {New}
      /\ retainCount' = [retainCount EXCEPT ![New] = 3] /\ UNCHANGED <<app, op, hand, realOperationQueue_>>
      /\ operationQueue_' = Append(operationQueue_, New)
  BY DEF getServerData, Alloc, board
<1>2. /\ New \in Objects /\ New \notin Allocated /\ New # Nil
      /\ New \notin queued /\ New \notin app /\ New # op /\ Count(New) = 0
      /\ Allocated' = Allocated \cup {New}
  BY <1>1, NewIsFree
<1>3. operationQueue_ \in Seq(queued') /\ realOperationQueue_ \in Seq(queued') /\ New \in queued'
  BY <1>1, SeqGrows DEF HoldInv, HoldTypes
<1>4. HoldTypes'
  BY <1>1, <1>2, <1>3 DEF HoldInv, HoldTypes
<1>5. retainCount'[New] = 3 /\ \A o \in Objects : o # New => retainCount'[o] = retainCount[o]
  BY <1>1, <1>2 DEF MemTypes
<1>6. \A o : Count(o) \in Nat /\ Count(o)' = Count(o) + (IF New = o THEN 1 ELSE 0)
  <2> TAKE o
  <2>1. Occurrences(operationQueue_', o) = Occurrences(operationQueue_, o) + (IF New = o THEN 1 ELSE 0)
    BY <1>1, <1>3, OccurrencesAppend
  <2>2. Occurrences(operationQueue_, o) \in Nat /\ Occurrences(realOperationQueue_, o) \in Nat
    BY CountType DEF HoldInv
  <2> QED
    BY <1>1, <2>1, <2>2 DEF Count
<1>7. \A o : ByApp(o)' = ByApp(o)
  BY <1>1 DEF ByApp
<1>8. ASSUME NEW o \in Objects PROVE Held(o)'
  <2>1. CASE o = New
    BY <1>1, <1>2, <1>5, <1>6, <1>7, <2>1 DEF Held, ByApp
  <2>2. CASE o # New
    <3>1. Count(o)' = Count(o) /\ retainCount'[o] = retainCount[o] /\ (o \in queued' <=> o \in queued)
      BY <1>1, <1>5, <1>6, <2>2
    <3> QED
      BY <1>1, <1>7, <3>1 DEF HoldInv, Held
  <2> QED
    BY <2>1, <2>2
<1> QED
  BY <1>4, <1>8 DEF HoldInv

LEMMA DuplicateHold ==
  ASSUME MemTypes, HoldInv, NEW m \in Memory, duplicate(m)
  PROVE  HoldInv'
<1>1. /\ allocated < MaxObjects /\ allocated' = allocated + 1 /\ op = Nil /\ op' = New
      /\ retainCount' = [retainCount EXCEPT ![New] = 1] /\ UNCHANGED <<queues, app>>
  BY DEF duplicate, Alloc
<1>2. /\ New \in Objects /\ New \notin Allocated /\ New # Nil
      /\ New \notin queued /\ New \notin app /\ New # op /\ Count(New) = 0
      /\ Allocated' = Allocated \cup {New} /\ op \notin Objects
  BY <1>1, NewIsFree, AllocatedObjects
<1>3. HoldTypes'
  BY <1>1, <1>2 DEF HoldInv, HoldTypes, queues
<1>4. retainCount'[New] = 1 /\ \A o \in Objects : o # New => retainCount'[o] = retainCount[o]
  BY <1>1, <1>2 DEF MemTypes
<1>5. \A o : Count(o)' = Count(o) /\ ByApp(o)' = ByApp(o)
  BY <1>1 DEF Count, ByApp, queues
<1>6. ASSUME NEW o \in Objects PROVE Held(o)'
  <2>1. o # op
    BY <1>2
  <2> QED
    BY <1>1, <1>2, <1>4, <1>5, <2>1 DEF HoldInv, Held, queues
<1> QED
  BY <1>3, <1>6 DEF HoldInv

LEMMA ReleaseHold ==
  ASSUME MemTypes, HoldInv, NEW x \in app, release(x)
  PROVE  HoldInv'
<1>1. /\ retainCount' = [retainCount EXCEPT ![x] = @ - 1] /\ app' = app \ {x}
      /\ UNCHANGED <<queues, op, allocated>> /\ Allocated' = Allocated
  BY DEF release, Recount, board, Allocated
<1>2. x \in Objects /\ x # op /\ Held(x)
  BY AllocatedObjects DEF HoldInv, HoldTypes
<1>3. HoldTypes'
  BY <1>1 DEF HoldInv, HoldTypes, queues
<1>4. retainCount'[x] = retainCount[x] - 1 /\ retainCount[x] \in Int
      /\ \A o \in Objects : o # x => retainCount'[o] = retainCount[o]
  BY <1>1, <1>2 DEF MemTypes
<1>5. \A o : Count(o)' = Count(o) /\ (o # x => ByApp(o)' = ByApp(o))
  BY <1>1 DEF Count, ByApp, queues
<1>6. ByApp(x) = 1 /\ ByApp(x)' = 0 /\ Count(x) \in Nat
  BY <1>1, CountType DEF ByApp, HoldInv
<1>7. Held(x)'
  <2>1. CASE x \in queued
    BY <1>1, <1>2, <1>4, <1>5, <1>6, <2>1 DEF Held, queues
  <2>2. CASE x \notin queued
    BY <1>1, <1>2, <1>4, <1>5, <1>6, <2>2 DEF Held, queues
  <2> QED
    BY <2>1, <2>2
<1>8. ASSUME NEW o \in Objects, o # x PROVE Held(o)'
  BY <1>1, <1>4, <1>5, <1>8 DEF HoldInv, Held, queues
<1> QED
  BY <1>3, <1>7, <1>8 DEF HoldInv

LEMMA EnqueueHold ==
  ASSUME MemTypes, HoldInv, NEW x \in app, enqueue(x)
  PROVE  HoldInv'
<1>1. /\ retainCount' = [retainCount EXCEPT ![x] = @ + 1 + 1] /\ x \notin queued
      /\ queued' = queued \cup {x} /\ operationQueue_' = Append(operationQueue_, x)
      /\ UNCHANGED <<app, op, hand, realOperationQueue_, allocated>> /\ Allocated' = Allocated
  BY DEF enqueue, Recount, board, Allocated, Own
<1>2. x \in Objects /\ x # op /\ Held(x)
  BY AllocatedObjects DEF HoldInv, HoldTypes
<1>3. operationQueue_ \in Seq(queued') /\ realOperationQueue_ \in Seq(queued') /\ x \in queued'
  BY <1>1, SeqGrows DEF HoldInv, HoldTypes
<1>4. HoldTypes'
  BY <1>1, <1>2, <1>3 DEF HoldInv, HoldTypes
<1>5. retainCount'[x] = retainCount[x] + 1 + 1 /\ retainCount[x] \in Int
      /\ \A o \in Objects : o # x => retainCount'[o] = retainCount[o]
  BY <1>1, <1>2 DEF MemTypes
<1>6. ASSUME NEW o PROVE Count(o) \in Nat /\ Count(o)' = Count(o) + (IF x = o THEN 1 ELSE 0)
  <2>1. Occurrences(operationQueue_', o) = Occurrences(operationQueue_, o) + (IF x = o THEN 1 ELSE 0)
    BY <1>1, <1>3, OccurrencesAppend
  <2>2. Occurrences(operationQueue_, o) \in Nat /\ Occurrences(realOperationQueue_, o) \in Nat
    BY CountType DEF HoldInv
  <2> QED
    BY <1>1, <2>1, <2>2 DEF Count
<1>7. \A o : ByApp(o)' = ByApp(o)
  BY <1>1 DEF ByApp
<1>8. Held(x)'
  <2>1. retainCount[x] = 1 /\ Count(x) = 0 /\ ByApp(x) = 1
    BY <1>1, <1>2 DEF Held, ByApp
  <2>2. Count(x)' = 1
    BY <1>6, <2>1
  <2>3. retainCount'[x] = 3 /\ ByApp(x)' = 1 /\ x \in queued'
    BY <1>1, <1>5, <1>7, <2>1
  <2> QED
    BY <2>2, <2>3 DEF Held
<1>9. ASSUME NEW o \in Objects, o # x PROVE Held(o)'
  <2>1. Count(o)' = Count(o)
    BY <1>6, <1>9
  <2>2. (o \in queued' <=> o \in queued) /\ retainCount'[o] = retainCount[o]
    BY <1>1, <1>5, <1>9
  <2> QED
    BY <1>1, <1>7, <2>1, <2>2 DEF HoldInv, Held
<1> QED
  BY <1>4, <1>8, <1>9 DEF HoldInv

\* A queued operation's count follows its place in the arrays.
LEMMA QueuedHold ==
  ASSUME MemTypes, HoldInv, HoldTypes', NEW x \in queued, NEW d \in Int,
         retainCount'[x] = retainCount[x] + d,
         \A o \in Objects : o # x => retainCount'[o] = retainCount[o],
         app' = app, op' = op, queued' = queued,
         Count(x)' =< Count(x) + d, Count(x)' \in Nat, \A o : o # x => Count(o)' = Count(o)
  PROVE  HoldInv'
<1>1. x \in Objects /\ Held(x) /\ Count(x) \in Nat /\ ByApp(x) \in Nat
  BY AllocatedObjects, CountType DEF HoldInv, HoldTypes, ByApp
<1>2. retainCount[x] \in Int
  BY <1>1 DEF MemTypes
<1>3. \A o : ByApp(o)' = ByApp(o)
  BY DEF ByApp
<1>4. retainCount'[x] >= 1 + Count(x)' + ByApp(x)'
  <2>1. retainCount[x] >= 1 + Count(x) + ByApp(x)
    BY <1>1 DEF Held
  <2>2. ASSUME NEW r \in Int, NEW c \in Nat, NEW k \in Nat, NEW a \in Nat, r >= 1 + c + a, k =< c + d
        PROVE  r + d >= 1 + k + a
    BY <2>2
  <2> QED
    BY <1>1, <1>2, <1>3, <2>1, <2>2
<1>5. Held(x)'
  BY <1>4 DEF Held
<1>6. ASSUME NEW o \in Objects, o # x PROVE Held(o)'
  <2>1. Count(o)' = Count(o) /\ retainCount'[o] = retainCount[o]
    BY <1>2, <1>6
  <2> QED
    BY <1>3, <2>1 DEF HoldInv, Held
<1> QED
  BY <1>5, <1>6 DEF HoldInv

LEMMA DequeueHold ==
  ASSUME MemTypes, HoldInv, dequeue
  PROVE  HoldInv'
<1> DEFINE x == Head(operationQueue_)
<1>1. x \in queued /\ Tail(operationQueue_) \in Seq(queued)
  BY DEF HoldInv, HoldTypes, dequeue
<1>2. /\ retainCount' = [retainCount EXCEPT ![x] = @ + 1 - 1] /\ operationQueue_ # <<>>
      /\ operationQueue_' = Tail(operationQueue_) /\ hand' = x
      /\ UNCHANGED <<app, op, queued, realOperationQueue_, allocated>> /\ Allocated' = Allocated
  BY DEF dequeue, Recount, board, Allocated, Own
<1>3. HoldTypes'
  BY <1>1, <1>2 DEF HoldInv, HoldTypes
<1>4. ASSUME NEW o
      PROVE  Count(o)' \in Nat /\ Count(o) \in Nat /\ Count(o) = Count(o)' + (IF x = o THEN 1 ELSE 0)
  <2>1. Occurrences(operationQueue_, o) = Occurrences(operationQueue_', o) + (IF x = o THEN 1 ELSE 0)
    BY <1>2, OccurrencesTail DEF HoldInv, HoldTypes
  <2>2. Occurrences(operationQueue_', o) \in Nat /\ Occurrences(realOperationQueue_, o) \in Nat
    BY <1>1, <1>2, OccurrencesType, CountType DEF HoldInv
  <2> QED
    BY <1>2, <2>1, <2>2 DEF Count
<1> HIDE DEF x
<1>5. retainCount' = [retainCount EXCEPT ![x] = @ + 0]
  <2>1. x \in Objects /\ retainCount[x] \in Int
    BY <1>1, AllocatedObjects DEF HoldInv, HoldTypes, MemTypes
  <2> QED
    BY <1>2, <2>1
<1>6. PICK y \in queued : y = x
  BY <1>1
<1>7. Count(y)' \in Nat /\ Count(y)' =< Count(y) + 0 /\ \A o : o # y => Count(o)' = Count(o)
  BY <1>4, <1>6
<1>8. /\ retainCount'[y] = retainCount[y] + 0
      /\ \A o \in Objects : o # y => retainCount'[o] = retainCount[o]
      /\ app' = app /\ op' = op /\ queued' = queued
  BY <1>2, <1>5, <1>6, AllocatedObjects DEF MemTypes, HoldInv, HoldTypes
<1> QED
  BY <1>3, <1>7, <1>8, QueuedHold

LEMMA DrawSelfHold ==
  ASSUME MemTypes, HoldInv, drawSelf
  PROVE  HoldInv'
<1> DEFINE x == Head(realOperationQueue_)
<1>1. x \in queued /\ Tail(realOperationQueue_) \in Seq(queued)
  BY DEF HoldInv, HoldTypes, drawSelf
<1>2. /\ retainCount' = [retainCount EXCEPT ![x] = @ + 1 - 1] /\ realOperationQueue_ # <<>>
      /\ realOperationQueue_' = Tail(realOperationQueue_)
      /\ UNCHANGED <<app, op, queued, operationQueue_, hand, allocated>> /\ Allocated' = Allocated
  BY DEF drawSelf, Recount, board, Allocated, Own
<1>3. HoldTypes'
  BY <1>1, <1>2 DEF HoldInv, HoldTypes
<1>4. ASSUME NEW o
      PROVE  Count(o)' \in Nat /\ Count(o) \in Nat /\ Count(o) = Count(o)' + (IF x = o THEN 1 ELSE 0)
  <2>1. Occurrences(realOperationQueue_, o)
          = Occurrences(realOperationQueue_', o) + (IF x = o THEN 1 ELSE 0)
    BY <1>2, OccurrencesTail DEF HoldInv, HoldTypes
  <2>2. Occurrences(realOperationQueue_', o) \in Nat /\ Occurrences(operationQueue_, o) \in Nat
    BY <1>1, <1>2, OccurrencesType, CountType DEF HoldInv
  <2> QED
    BY <1>2, <2>1, <2>2 DEF Count
<1> HIDE DEF x
<1>5. retainCount' = [retainCount EXCEPT ![x] = @ + 0]
  <2>1. x \in Objects /\ retainCount[x] \in Int
    BY <1>1, AllocatedObjects DEF HoldInv, HoldTypes, MemTypes
  <2> QED
    BY <1>2, <2>1
<1>6. PICK y \in queued : y = x
  BY <1>1
<1>7. Count(y)' \in Nat /\ Count(y)' =< Count(y) + 0 /\ \A o : o # y => Count(o)' = Count(o)
  BY <1>4, <1>6
<1>8. /\ retainCount'[y] = retainCount[y] + 0
      /\ \A o \in Objects : o # y => retainCount'[o] = retainCount[o]
      /\ app' = app /\ op' = op /\ queued' = queued
  BY <1>2, <1>5, <1>6, AllocatedObjects DEF MemTypes, HoldInv, HoldTypes
<1> QED
  BY <1>3, <1>7, <1>8, QueuedHold

LEMMA SliceHold ==
  ASSUME MemTypes, HoldInv, slice
  PROVE  HoldInv'
<1> DEFINE x == hand
<1>1. /\ retainCount' = [retainCount EXCEPT ![x] = @ + 1 + 1] /\ x \in queued
      /\ realOperationQueue_' = Append(realOperationQueue_, x) /\ hand' = Nil
      /\ UNCHANGED <<app, op, queued, operationQueue_, allocated>> /\ Allocated' = Allocated
  BY DEF slice, Recount, board, Allocated, Own, HoldInv, HoldTypes
<1>2. HoldTypes'
  <2>1. Append(realOperationQueue_, x) \in Seq(queued)
    BY <1>1 DEF HoldInv, HoldTypes
  <2> QED
    BY <1>1, <2>1 DEF HoldInv, HoldTypes
<1>3. ASSUME NEW o
      PROVE  Count(o)' \in Nat /\ Count(o) \in Nat /\ Count(o)' = Count(o) + (IF x = o THEN 1 ELSE 0)
  <2>1. Occurrences(realOperationQueue_', o)
          = Occurrences(realOperationQueue_, o) + (IF x = o THEN 1 ELSE 0)
    BY <1>1, OccurrencesAppend DEF HoldInv, HoldTypes
  <2>2. Occurrences(realOperationQueue_, o) \in Nat /\ Occurrences(operationQueue_, o) \in Nat
    BY CountType DEF HoldInv
  <2> QED
    BY <1>1, <2>1, <2>2 DEF Count
<1>4. retainCount' = [retainCount EXCEPT ![x] = @ + 2]
  <2>1. x \in Objects /\ retainCount[x] \in Int
    BY <1>1, AllocatedObjects DEF HoldInv, HoldTypes, MemTypes
  <2>2. retainCount[x] + 1 + 1 = retainCount[x] + 2
    BY <2>1
  <2> QED
    BY <1>1, <2>2
<1>5. PICK y \in queued : y = x
  BY <1>1
<1>6. Count(y)' \in Nat /\ Count(y)' =< Count(y) + 2 /\ \A o : o # y => Count(o)' = Count(o)
  BY <1>3, <1>5
<1>7. /\ retainCount'[y] = retainCount[y] + 2
      /\ \A o \in Objects : o # y => retainCount'[o] = retainCount[o]
      /\ app' = app /\ op' = op /\ queued' = queued
  BY <1>1, <1>4, <1>5, AllocatedObjects DEF MemTypes, HoldInv, HoldTypes
<1> QED
  BY <1>2, <1>6, <1>7, QueuedHold

LEMMA DrawHold ==
  ASSUME MemTypes, HoldInv, draw
  PROVE  HoldInv'
<1>1. /\ retainCount' = [retainCount EXCEPT ![op] = @ - 1] /\ op # Nil /\ op' = Nil
      /\ UNCHANGED <<app, queues, allocated>> /\ Allocated' = Allocated
  BY DEF draw, Recount, Allocated
<1>2. op \in Objects /\ op \notin queued /\ op \notin app /\ Held(op) /\ Nil \notin Objects
      /\ Nil \notin app /\ Nil \notin queued
  BY <1>1, AllocatedObjects DEF HoldInv, HoldTypes
<1>3. HoldTypes'
  BY <1>1, <1>2 DEF HoldInv, HoldTypes, queues
<1>4. retainCount'[op] = retainCount[op] - 1 /\ \A o \in Objects : o # op => retainCount'[o] = retainCount[o]
  BY <1>1, <1>2 DEF MemTypes
<1>5. retainCount[op] = 1 /\ Count(op) = 0
  BY <1>2 DEF Held
<1>6. \A o : Count(o)' = Count(o) /\ ByApp(o)' = ByApp(o)
  BY <1>1 DEF Count, ByApp, queues
<1>7. ASSUME NEW o \in Objects PROVE Held(o)'
  <2>1. CASE o = op
    <3>1. retainCount'[o] = 0 /\ Count(o)' = 0 /\ ByApp(o)' = 0
      BY <1>2, <1>4, <1>5, <1>6, <2>1 DEF ByApp
    <3>2. o # op' /\ o \notin queued'
      BY <1>1, <1>2, <2>1 DEF queues
    <3> QED
      BY <3>1, <3>2 DEF Held
  <2>2. CASE o # op
    <3>1. o # op' /\ retainCount'[o] = retainCount[o] /\ (o \in queued' <=> o \in queued)
      BY <1>1, <1>2, <1>4, <2>2 DEF queues
    <3> QED
      BY <1>6, <2>2, <3>1 DEF HoldInv, Held
  <2> QED
    BY <2>1, <2>2
<1> QED
  BY <1>3, <1>7 DEF HoldInv

LEMMA ClearHold ==
  ASSUME MemTypes, HoldInv, clear
  PROVE  HoldInv'
<1>1. /\ retainCount' = [o \in Objects |-> retainCount[o] - Occurrences(operationQueue_, o)
                                                          - Occurrences(realOperationQueue_, o)]
      /\ operationQueue_' = <<>> /\ realOperationQueue_' = <<>>
      /\ UNCHANGED <<app, op, hand, queued, allocated>> /\ Allocated' = Allocated
  BY DEF clear, Recount, board, Allocated
<1>2. HoldTypes'
  BY <1>1 DEF HoldInv, HoldTypes
<1>3. ASSUME NEW o \in Objects PROVE Held(o)'
  <2>1. Count(o)' = 0 /\ ByApp(o)' = ByApp(o)
    BY <1>1, OccurrencesNil DEF Count, ByApp
  <2>2. Occurrences(operationQueue_, o) \in Nat /\ Occurrences(realOperationQueue_, o) \in Nat
    BY CountType DEF HoldInv
  <2>3. retainCount'[o] = retainCount[o] - Count(o) /\ retainCount[o] \in Int /\ Count(o) \in Nat
    BY <1>1, <2>2 DEF Count, MemTypes
  <2>4. Held(o) /\ ByApp(o) \in Nat
    BY DEF HoldInv, ByApp
  <2>5. CASE o \in queued
    <3>1. retainCount[o] >= 1 + Count(o) + ByApp(o)
      BY <2>4, <2>5 DEF Held
    <3>2. retainCount'[o] >= 1 + 0 + ByApp(o)
      BY <2>3, <2>4, <3>1
    <3> QED
      BY <1>1, <2>1, <2>5, <3>2 DEF Held
  <2>6. CASE o \notin queued
    <3>1. retainCount'[o] = retainCount[o]
      BY <2>3, <2>4, <2>6 DEF Held
    <3> QED
      BY <1>1, <2>1, <2>4, <2>6, <3>1 DEF Held
  <2> QED
    BY <2>5, <2>6
<1> QED
  BY <1>2, <1>3 DEF HoldInv

-----------------------------------------------------------------------------
\* Counting again never brings back what was dead.
LEMMA NextMem ==
  ASSUME MemInv, HoldInv, Next
  PROVE  MemInv'
<1> USE DEF MemInv
<1>1. ASSUME NEW t \in Threads, NEW count \in [Objects -> Int], Recount(t, count),
             \A o \in Objects : count[o] > 0 => Live(o)
      PROVE  MemInv'
  BY <1>1, RecountMem
<1>2. retainCount \in [Objects -> Int] /\ "main" \in Threads /\ "poller" \in Threads
      /\ "board" \in Threads
  BY DEF MemTypes, Threads
<1>3. \A x \in Objects : retainCount[x] \in Int
  BY <1>2
\* One count changes, to n.
<1>4. ASSUME NEW t \in Threads, NEW x \in Objects, NEW n \in Int, n > 0 => Live(x),
             NEW count, count = [retainCount EXCEPT ![x] = n], Recount(t, count)
      PROVE  MemInv'
  <2>1. count \in [Objects -> Int]
    BY <1>2, <1>4
  <2>2. \A o \in Objects : count[o] > 0 => Live(o)
    BY <1>2, <1>4 DEF Live
  <2> QED
    BY <1>1, <1>4, <2>1, <2>2
<1>5. ASSUME NEW m \in Memory, Create(m) \/ getServerData(m) \/ duplicate(m) PROVE MemInv'
  BY <1>5, AllocMem DEF Create, getServerData, duplicate
<1>6. ASSUME NEW o \in app, drawOperation(o) \/ release(o) \/ enqueue(o) PROVE MemInv'
  <2>1. o \in Objects /\ Live(o) /\ retainCount[o] \in Int
    BY <1>3, Living, AllocatedObjects DEF HoldInv, HoldTypes
  <2>2. CASE drawOperation(o)
    BY <2>2 DEF drawOperation, objects, MemTypes, Placed, LiveThere, DeadThere, OneDealloc,
       DeletedOnce, Live, Allocated
  <2>3. CASE release(o)
    <3>1. PICK n \in Int : n = retainCount[o] - 1
      BY <2>1
    <3>2. PICK count : count = [retainCount EXCEPT ![o] = n]
      OBVIOUS
    <3>3. Recount("main", count)
      BY <2>3, <3>1, <3>2 DEF release, Recount
    <3> QED
      BY <1>2, <1>4, <2>1, <3>2, <3>3
  <2>4. CASE enqueue(o)
    <3>1. PICK n \in Int : n = retainCount[o] + Own + 1
      BY <2>1 DEF Own
    <3>2. PICK count : count = [retainCount EXCEPT ![o] = n]
      OBVIOUS
    <3>3. Recount("main", count)
      BY <2>4, <3>1, <3>2 DEF enqueue, Recount
    <3> QED
      BY <1>2, <1>4, <2>1, <3>2, <3>3
  <2> QED
    BY <1>6, <2>2, <2>3, <2>4
\* What is dequeued is alive.
<1>7. ASSUME NEW x \in queued, NEW n, n = retainCount[x] + Own - 1,
             NEW count, count = [retainCount EXCEPT ![x] = n], Recount("main", count)
      PROVE  MemInv'
  <2>1. x \in Objects /\ Live(x) /\ n \in Int
    BY <1>3, <1>7, Living, AllocatedObjects DEF HoldInv, HoldTypes, Own
  <2> QED
    BY <1>2, <1>4, <1>7, <2>1
<1>8. CASE dequeue
  <2>1. Head(operationQueue_) \in queued
    <3>1. operationQueue_ \in Seq(queued) /\ operationQueue_ # <<>>
      BY <1>8 DEF dequeue, HoldInv, HoldTypes
    <3> QED
      BY <3>1
  <2>2. PICK x \in queued : x = Head(operationQueue_)
    BY <2>1
  <2>3. PICK n : n = retainCount[x] + Own - 1
    OBVIOUS
  <2>4. PICK count : count = [retainCount EXCEPT ![x] = n]
    OBVIOUS
  <2>5. Recount("main", count)
    BY <1>8, <2>2, <2>3, <2>4 DEF dequeue, Recount
  <2> QED
    BY <1>7, <2>3, <2>4, <2>5
<1>9. CASE drawSelf
  <2>1. Head(realOperationQueue_) \in queued
    <3>1. realOperationQueue_ \in Seq(queued) /\ realOperationQueue_ # <<>>
      BY <1>9 DEF drawSelf, HoldInv, HoldTypes
    <3> QED
      BY <3>1
  <2>2. PICK x \in queued : x = Head(realOperationQueue_)
    BY <2>1
  <2>3. PICK n : n = retainCount[x] + Own - 1
    OBVIOUS
  <2>4. PICK count : count = [retainCount EXCEPT ![x] = n]
    OBVIOUS
  <2>5. Recount("main", count)
    BY <1>9, <2>2, <2>3, <2>4 DEF drawSelf, Recount
  <2> QED
    BY <1>7, <2>3, <2>4, <2>5
<1>10. CASE slice
  <2>1. PICK x \in queued : x = hand
    BY <1>10 DEF slice, HoldInv, HoldTypes
  <2>2. x \in Objects /\ Live(x)
    BY Living, AllocatedObjects DEF HoldInv, HoldTypes
  <2>3. PICK n \in Int : n = retainCount[x] + Own + 1
    BY <1>3, <2>2 DEF Own
  <2>4. PICK count : count = [retainCount EXCEPT ![x] = n]
    OBVIOUS
  <2>5. Recount("main", count)
    BY <1>10, <2>1, <2>3, <2>4 DEF slice, Recount
  <2> QED
    BY <1>2, <1>4, <2>2, <2>4, <2>5
<1>11. CASE draw
  <2>1. PICK x \in Objects : x = op
    BY <1>11, AllocatedObjects DEF draw, HoldInv, HoldTypes
  <2>2. Live(x)
    BY <2>1, Living
  <2>3. PICK n \in Int : n = retainCount[x] - 1
    BY <1>3
  <2>4. PICK count : count = [retainCount EXCEPT ![x] = n]
    OBVIOUS
  <2>5. Recount("board", count)
    BY <1>11, <2>1, <2>3, <2>4 DEF draw, Recount
  <2> QED
    BY <1>2, <1>4, <2>2, <2>4, <2>5
<1>12. CASE clear
  <2>1. PICK count : count = [o \in Objects |-> retainCount[o] - Occurrences(operationQueue_, o)
                                                        - Occurrences(realOperationQueue_, o)]
    OBVIOUS
  <2>2. ASSUME NEW o \in Objects PROVE count[o] \in Int /\ (count[o] > 0 => Live(o))
    <3>1. PICK a \in Nat : a = Occurrences(operationQueue_, o)
      BY CountType DEF HoldInv
    <3>2. PICK b \in Nat : b = Occurrences(realOperationQueue_, o)
      BY CountType DEF HoldInv
    <3>3. count[o] = retainCount[o] - a - b
      BY <2>1, <3>1, <3>2
    <3>4. PICK n \in Int : n = retainCount[o]
      BY <1>3
    <3>5. n - a - b \in Int /\ (n - a - b > 0 => n > 0)
      OBVIOUS
    <3> QED
      BY <3>3, <3>4, <3>5 DEF Live
  <2>3. count \in [Objects -> Int]
    BY <2>1, <2>2
  <2>4. Recount("board", count)
    BY <1>12, <2>1 DEF clear, Recount
  <2> QED
    BY <1>1, <1>2, <2>2, <2>3, <2>4
<1>13. ASSUME NEW t \in Threads, NEW o \in dealloc[t], Delete(t, o) PROVE MemInv'
  BY <1>13, DeleteMem
<1> QED
  BY <1>5, <1>6, <1>8, <1>9, <1>10, <1>11, <1>12, <1>13 DEF Next

LEMMA NextHold ==
  ASSUME MemTypes, HoldInv, Next
  PROVE  HoldInv'
<1>1. ASSUME UNCHANGED <<allocated, retainCount, app, queues, op>> PROVE HoldInv'
  BY <1>1 DEF HoldInv, HoldTypes, Held, Count, ByApp, queues, Allocated
<1>2. ASSUME NEW o \in app, drawOperation(o) PROVE HoldInv'
  BY <1>1, <1>2 DEF drawOperation, objects
<1>3. ASSUME NEW t \in Threads, NEW o \in dealloc[t], Delete(t, o) PROVE HoldInv'
  BY <1>1, <1>3 DEF Delete, board
<1> QED
  BY <1>2, <1>3, CreateHold, GetServerDataHold, DuplicateHold, ReleaseHold, EnqueueHold, DequeueHold,
     SliceHold, DrawSelfHold, DrawHold, ClearHold DEF Next

\* What the board's blocks may draw.
DrawInv ==
  /\ boardOpQueue \in Seq(Allocated) /\ early \subseteq Allocated
  /\ op # Nil => boardOpQueue # <<>>
  /\ \A k \in 1 .. Len(boardOpQueue) : boardOpQueue[k] \in app \cup early
  /\ drawnDead \subseteq early \ queued /\ drawnDead \cap app = {}

LEMMA NextDraw ==
  ASSUME MemInv, HoldInv, DrawInv, Next
  PROVE  DrawInv'
<1> USE DEF MemInv, DrawInv
<1>1. ASSUME UNCHANGED <<allocated, boardOpQueue, op, app, queued, early, drawnDead>> PROVE DrawInv'
  BY <1>1 DEF Allocated
<1>2. ASSUME NEW m \in Memory, Create(m) \/ getServerData(m) PROVE DrawInv'
  <2>1. New \notin Allocated /\ Allocated' = Allocated \cup {New}
    BY <1>2, NewIsFree DEF Create, getServerData, Alloc
  <2>2. UNCHANGED <<boardOpQueue, op, early, drawnDead>>
        /\ app \subseteq app' /\ app' \subseteq app \cup {New} /\ queued' \subseteq queued \cup {New}
    BY <1>2 DEF Create, getServerData, board, queues
  <2>3. boardOpQueue \in Seq(Allocated')
    BY <2>1, SeqGrows
  <2> QED
    BY <2>1, <2>2, <2>3
\* Head(boardOpQueue) is used.
<1>3. ASSUME boardOpQueue # <<>>, Use(Head(boardOpQueue)), UNCHANGED <<app, queued, early>>
      PROVE  drawnDead' \subseteq early' \ queued' /\ drawnDead' \cap app' = {}
  <2> DEFINE x == Head(boardOpQueue)
  <2>1. x \in Allocated /\ x \in app \cup early
    BY <1>3
  <2>2. x \in Objects
    BY <2>1, AllocatedObjects
  <2>3. ~Live(x) => x \notin app /\ x \notin queued
    BY <2>2, Living
  <2> QED
    BY <1>3, <2>1, <2>3 DEF Use
<1>4. ASSUME NEW m \in Memory, duplicate(m) PROVE DrawInv'
  <2>1. Allocated' = Allocated \cup {New}
    BY <1>4, NewIsFree DEF duplicate, Alloc
  <2>2. boardOpQueue # <<>> /\ Use(Head(boardOpQueue)) /\ UNCHANGED <<boardOpQueue, app, queued, early>>
    BY <1>4 DEF duplicate, queues
  <2>3. boardOpQueue \in Seq(Allocated')
    BY <2>1, SeqGrows
  <2> QED
    BY <1>3, <2>1, <2>2, <2>3
<1>5. CASE draw
  <2>1. /\ UNCHANGED <<app, queued, early>> /\ Allocated' = Allocated /\ Use(Head(boardOpQueue))
        /\ op # Nil /\ op' = Nil
        /\ boardOpQueue' = Tail(boardOpQueue) \/ boardOpQueue' = boardOpQueue
    BY <1>5 DEF draw, Recount, queues, Allocated
  <2>2. boardOpQueue # <<>>
    BY <2>1
  <2>3. drawnDead' \subseteq early' \ queued' /\ drawnDead' \cap app' = {}
    BY <1>3, <2>1, <2>2
  <2>4. boardOpQueue' \in Seq(Allocated)
        /\ \A k \in 1 .. Len(boardOpQueue') : boardOpQueue'[k] \in app \cup early
    <3>1. CASE boardOpQueue' = Tail(boardOpQueue)
      <4>1. \A k \in 1 .. Len(Tail(boardOpQueue)) :
              Tail(boardOpQueue)[k] = boardOpQueue[k + 1] /\ k + 1 \in 1 .. Len(boardOpQueue)
        BY <2>2
      <4>2. Tail(boardOpQueue) \in Seq(Allocated)
        BY <2>2
      <4> QED
        BY <3>1, <4>1, <4>2
    <3> QED
      BY <2>1, <3>1
  <2> QED
    BY <2>1, <2>3, <2>4
<1>6. ASSUME NEW o \in app, drawOperation(o) PROVE DrawInv'
  <2>1. boardOpQueue' = Append(boardOpQueue, o) /\ Allocated' = Allocated
        /\ UNCHANGED <<op, app, queued, early, drawnDead>>
    BY <1>6 DEF drawOperation, objects, queues, Allocated
  <2>2. o \in Allocated
    BY DEF HoldInv, HoldTypes
  <2>3. Append(boardOpQueue, o) \in Seq(Allocated) /\ Append(boardOpQueue, o) # <<>>
        /\ \A k \in 1 .. Len(Append(boardOpQueue, o)) :
             Append(boardOpQueue, o)[k] \in app \cup early
    BY <2>2
  <2> QED
    BY <2>1, <2>3
<1>7. ASSUME NEW o \in app, release(o) PROVE DrawInv'
  <2>1. /\ app' = app \ {o} /\ UNCHANGED <<boardOpQueue, op, queued, drawnDead>>
        /\ Allocated' = Allocated
        /\ early' = IF \E k \in 1 .. Len(boardOpQueue) : boardOpQueue[k] = o
                    THEN early \cup {o} ELSE early
    BY <1>7 DEF release, Recount, queues, board, Allocated
  <2>2. o \in Allocated
    BY DEF HoldInv, HoldTypes
  <2>3. \A k \in 1 .. Len(boardOpQueue) : boardOpQueue[k] \in app' \cup early'
    BY <2>1
  <2> QED
    BY <2>1, <2>2, <2>3
<1>8. ASSUME NEW o \in app, enqueue(o) PROVE DrawInv'
  <2>1. queued' = queued \cup {o} /\ UNCHANGED <<boardOpQueue, op, app, early, drawnDead>>
        /\ Allocated' = Allocated
    BY <1>8 DEF enqueue, Recount, board, Allocated
  <2> QED
    BY <2>1
<1>9. CASE dequeue \/ slice \/ drawSelf \/ clear
  BY <1>1, <1>9 DEF dequeue, slice, drawSelf, clear, Recount, board
<1>10. ASSUME NEW t \in Threads, NEW o \in dealloc[t], Delete(t, o) PROVE DrawInv'
  BY <1>1, <1>10 DEF Delete, queues, board
<1> QED
  BY <1>2, <1>4, <1>5, <1>6, <1>7, <1>8, <1>9, <1>10 DEF Next

-----------------------------------------------------------------------------
LifeInv == MemInv /\ HoldInv /\ DrawInv

LEMMA InitLife == Init => LifeInv
<1> SUFFICES ASSUME Init PROVE LifeInv
  OBVIOUS
<1> USE LifetimeAssumption DEF Init
<1>1. Allocated = {} /\ Nil = 0
  BY DEF Allocated, Nil
<1>2. MemTypes
  BY <1>1 DEF MemTypes, Objects
<1>3. MemInv
  BY <1>1, <1>2 DEF MemInv, Placed, LiveThere, DeadThere, OneDealloc, DeletedOnce
<1>4. HoldInv
  <2>1. HoldTypes
    BY <1>1 DEF HoldTypes
  <2>2. ASSUME NEW o \in Objects PROVE Held(o)
    <3>1. Count(o) = 0 /\ ByApp(o) = 0
      BY OccurrencesNil DEF Count, ByApp
    <3>2. o # op /\ retainCount[o] = 0
      BY <1>1 DEF Objects
    <3> QED
      BY <3>1, <3>2 DEF Held
  <2> QED
    BY <2>1, <2>2 DEF HoldInv
<1>5. DrawInv
  BY <1>1 DEF DrawInv
<1> QED
  BY <1>3, <1>4, <1>5 DEF LifeInv

LEMMA NextLife == LifeInv /\ [Next]_vars => LifeInv'
<1> SUFFICES ASSUME LifeInv, [Next]_vars PROVE LifeInv'
  OBVIOUS
<1> USE DEF LifeInv
<1>1. CASE Next
  <2>1. MemTypes
    BY DEF MemInv
  <2> QED
    BY <1>1, <2>1, NextMem, NextHold, NextDraw
<1>2. CASE UNCHANGED vars
  <2> USE <1>2 DEF vars, objects, queues, board
  <2>1. MemInv'
    BY DEF MemInv, MemTypes, Placed, LiveThere, DeadThere, OneDealloc, DeletedOnce, Live, Allocated
  <2>2. HoldInv'
    BY DEF HoldInv, HoldTypes, Held, Count, ByApp, Allocated
  <2>3. DrawInv'
    BY DEF DrawInv, Allocated
  <2> QED
    BY <2>1, <2>2, <2>3
<1> QED
  BY <1>1, <1>2

\* Every reachable state: what is in the memory, who retains what, and what the
\* board's blocks may draw.
THEOREM LifeHolds == Spec => []LifeInv
<1> QED
  BY InitLife, NextLife, PTL DEF Spec

\* The block's place and the number of drawings, which no other part needs.
PlaceTypes == at \in 1 .. BOARD_NUM /\ drawings \in 0 .. MaxDrawings

LEMMA NextPlace == PlaceTypes /\ [Next]_vars => PlaceTypes'
<1> SUFFICES ASSUME PlaceTypes, [Next]_vars PROVE PlaceTypes'
  OBVIOUS
<1> USE LifetimeAssumption DEF PlaceTypes
<1>1. ASSUME NEW o \in app, drawOperation(o) PROVE PlaceTypes'
  BY <1>1 DEF drawOperation, board
<1>2. CASE draw
  BY <1>2 DEF draw
<1>3. CASE UNCHANGED <<at, drawings>>
  BY <1>3
<1>4. ASSUME NEW m \in Memory, Create(m) \/ getServerData(m) \/ duplicate(m)
      PROVE  UNCHANGED <<at, drawings>>
  BY <1>4 DEF Create, getServerData, duplicate, board
<1>5. ASSUME NEW o \in app, release(o) \/ enqueue(o) PROVE UNCHANGED <<at, drawings>>
  BY <1>5 DEF release, enqueue, board
<1>6. CASE dequeue \/ slice \/ drawSelf \/ clear
  BY <1>6 DEF dequeue, slice, drawSelf, clear, board
<1>7. ASSUME NEW t \in Threads, NEW o \in dealloc[t], Delete(t, o) PROVE UNCHANGED <<at, drawings>>
  BY <1>7 DEF Delete, board
<1>8. CASE UNCHANGED vars
  BY <1>8 DEF vars, board
<1> QED
  BY <1>1, <1>2, <1>3, <1>4, <1>5, <1>6, <1>7, <1>8 DEF Next

\* Type correctness: every retain, release, dealloc and block leaves the
\* variables in their ranges.
THEOREM TypeCorrect == Spec => []TypeOK
<1>1. Init => PlaceTypes
  BY LifetimeAssumption DEF Init, PlaceTypes
<1>2. LifeInv /\ PlaceTypes => TypeOK
  BY DEF LifeInv, MemInv, MemTypes, HoldInv, HoldTypes, DrawInv, PlaceTypes, TypeOK
<1> QED
  BY <1>1, <1>2, LifeHolds, NextPlace, PTL DEF Spec

\* What is in memory is what the application holds, the duplicate being drawn,
\* and every operation that enqueue: of either queue was ever given.
THEOREM MemoryHeld == Spec => []InMemory
<1>1. LifeInv => InMemory
  BY HoldSuffices DEF LifeInv, MemInv
<1> QED
  BY <1>1, LifeHolds, PTL

\* drawOperationBack draws a dead operation only if the application let go of it
\* while a block was to draw it, and never enqueued it.
THEOREM DrawnHeld == Spec => []DrawnWhileHeld
<1>1. LifeInv => DrawnWhileHeld
  BY DEF LifeInv, DrawInv, DrawnWhileHeld
<1> QED
  BY <1>1, LifeHolds, PTL

\* dealloc deletes a message once, and never that of a living operation, but for
\* operations allocated in memory whose dealloc has not ended.
THEOREM MessagesDeletedOnce == Spec => []MessagesIntact
<1>1. LifeInv => MessagesIntact
  BY MemSuffices DEF LifeInv
<1> QED
  BY <1>1, LifeHolds, PTL
=============================================================================
