------------------------------ MODULE Startup -------------------------------
(***************************************************************************)
(* What the application sets up while several of its threads run already:  *)
(* the board and the server delegate, which their first users create, the  *)
(* canvas and the queue that are attached to the board, the host mode, and *)
(* the addresses of the servers.  None of it is locked but the slots' mask *)
(* (PointResource).                                                        *)
(*                                                                         *)
(* A thread calls [[BoardModel SharedBoard] ...] or                        *)
(* ServerDelegate::GetInstance()->...: it looks for the instance, creates  *)
(* one if there is none, reads the static variable again, and uses what it *)
(* finds.  The main thread runs readOperationQueue, which reads the        *)
(* board's operationQueue_ anew for each of its calls; nil answers NO.     *)
(***************************************************************************)
EXTENDS Integers, Sequences

CONSTANTS Threads,
          BOARD_NUM,
          MaskBits,         \* the slots that can be given out (PointResource)
          Canvases, Queues,
          Servers,          \* which address: the updater's, the provider's, ...
          Endpoints,        \* an address is the pair of its ip and its port
          MaxOperations     \* bound: what the threads do

Nil == 0
Refused == -1
Singletons == {"board", "delegate"}
Instances == 1 .. MaxOperations

ASSUME StartupAssumption ==
  /\ BOARD_NUM \in Nat /\ MaskBits \in Nat /\ MaxOperations \in Nat
  /\ BOARD_NUM =< MaskBits   \* five, and the eight bits of 0xFF
  /\ Nil \notin Canvases \cup Queues \cup Endpoints

AttachCanvas(c) == [op |-> "attachCanvas", on |-> "board", arg |-> c]
AttachQueue(q) == [op |-> "attachOpeartionQueue", on |-> "board", arg |-> q]
SetMode(b) == [op |-> "setInHostMode_", on |-> "board", arg |-> b]
Trigger == [op |-> "trigerReadOperationQueue", on |-> "board"]
Bind(s, e) == [op |-> "bind", on |-> "delegate", server |-> s, arg |-> e]
Connect(s) == [op |-> "connect", on |-> "delegate", server |-> s]

Operations ==
  {AttachCanvas(c) : c \in Canvases} \cup {AttachQueue(q) : q \in Queues}
  \cup {SetMode(b) : b \in BOOLEAN} \cup {Trigger}
  \cup {Bind(s, e) : s \in Servers, e \in Endpoints} \cup {Connect(s) : s \in Servers}
None == [op |-> "none", on |-> "none"]

VARIABLES
  instance,        \* instance[s]: boardInstance, server_delegate_instance_, or Nil
  created,         \* how many were created
  todo, pc, self,  \* what a thread does, where it is, and on which instance
  slots,           \* registered slots
  contextRid_,     \* of each board: the slots its contexts have, or Refused
  displayer_, operationQueue_, inHostMode_,   \* of each board
  isDrawable_,     \* of each canvas
  ip, port,        \* of each delegate, for each server
  got,             \* the ip and the port a thread has read
  mainQueue,       \* the boards readOperationQueue was dispatched for
  reader, reading, \* readOperationQueue: where it is, and of which board
  items, locked,   \* each queue: its operations, and how often main locked it
  crashed,         \* dequeue threw
  begun,           \* how many operations were begun
  overlapped,      \* history: singletons two threads found missing at once
  canvas, queue,   \* history: what was attached last
  mode,            \* history: {the mode set since by a call nothing came into}
  bound, expected, \* history: the endpoint bound last, and the one a thread that
                   \* connects should use; Nil after an overlap
  swapped          \* history: a queue was attached while readOperationQueue ran

singletons == <<instance, created, overlapped>>
threads == <<todo, pc, self, begun>>
boards == <<slots, contextRid_, displayer_, operationQueue_, inHostMode_, isDrawable_, canvas, queue, mode>>
delegates == <<ip, port, got, bound, expected>>
main == <<mainQueue, reader, reading, items, locked, crashed>>
vars == <<singletons, threads, boards, delegates, main, swapped>>

Init ==
  /\ instance = [s \in Singletons |-> Nil] /\ created = [s \in Singletons |-> 0]
  /\ todo = [t \in Threads |-> None] /\ pc = [t \in Threads |-> "idle"]
  /\ self = [t \in Threads |-> Nil] /\ begun = 0
  /\ slots = 0 /\ contextRid_ = [b \in Instances |-> <<>>]
  /\ displayer_ = [b \in Instances |-> Nil] /\ operationQueue_ = [b \in Instances |-> Nil]
  /\ inHostMode_ = [b \in Instances |-> FALSE] /\ isDrawable_ = [c \in Canvases |-> FALSE]
  /\ ip = [d \in Instances |-> [s \in Servers |-> Nil]] /\ port = ip
  /\ got = [t \in Threads |-> <<>>]
  /\ mainQueue = <<>> /\ reader = "idle" /\ reading = Nil
  /\ items \in [Queues -> 0 .. 1] /\ locked = [q \in Queues |-> 0]
  /\ crashed = FALSE
  /\ overlapped = {} /\ canvas = Nil /\ queue = Nil /\ mode = {}
  /\ bound = [s \in Servers |-> Nil] /\ expected = [t \in Threads |-> Nil]
  /\ swapped = FALSE

-----------------------------------------------------------------------------
Go(t, place) == pc' = [pc EXCEPT ![t] = place]
At(t, op, place) == todo[t].op = op /\ pc[t] = place
End(t) ==
  /\ todo' = [todo EXCEPT ![t] = None] /\ Go(t, "idle")
  /\ UNCHANGED <<self, begun>>

Begin(t, o) ==
  /\ pc[t] = "idle" /\ begun < MaxOperations
  /\ begun' = begun + 1
  /\ todo' = [todo EXCEPT ![t] = o] /\ Go(t, "look")
  /\ UNCHANGED <<self, singletons, boards, delegates, main, swapped>>

\* Mutant of Missing: the test is forgotten.
AlwaysMissing(s) == TRUE
Missing(s) == instance[s] = Nil

\* SharedBoard, GetInstance: is there one?  If not, alloc.
Look(t) ==
  LET s == todo[t].on IN
  /\ pc[t] = "look"
  /\ IF Missing(s)
     THEN /\ Go(t, "create")
          /\ created' = [created EXCEPT ![s] = @ + 1]
          /\ self' = [self EXCEPT ![t] = created[s] + 1]
          /\ overlapped' = IF \E u \in Threads : pc[u] = "create" /\ todo[u].on = s
                           THEN overlapped \cup {s} ELSE overlapped
     ELSE Go(t, "fetch") /\ UNCHANGED <<created, self, overlapped>>
  /\ UNCHANGED <<instance, todo, begun, boards, delegates, main, swapped>>

\* init of a board: a slot for every context, as long as there are any.
Register(t) ==
  LET b == self[t] IN
  /\ pc[t] = "create" /\ todo[t].on = "board" /\ Len(contextRid_[b]) < BOARD_NUM
  /\ slots' = IF slots < MaskBits THEN slots + 1 ELSE slots
  /\ contextRid_' = [contextRid_ EXCEPT ![b] =
       Append(@, IF slots < MaskBits THEN slots + 1 ELSE Refused)]
  /\ UNCHANGED <<displayer_, operationQueue_, inHostMode_, isDrawable_, canvas, queue, mode,
                 threads, singletons, delegates, main, swapped>>

\* The assignment to the static variable.
Store(t) ==
  /\ pc[t] = "create"
  /\ todo[t].on = "board" => Len(contextRid_[self[t]]) = BOARD_NUM
  /\ instance' = [instance EXCEPT ![todo[t].on] = self[t]]
  /\ Go(t, "fetch")
  /\ UNCHANGED <<todo, self, begun, created, overlapped, boards, delegates, main, swapped>>

\* ... which is read once more.
Fetch(t) ==
  /\ pc[t] = "fetch"
  /\ self' = [self EXCEPT ![t] = instance[todo[t].on]]
  /\ Go(t, "use")
  /\ UNCHANGED <<todo, begun, singletons, boards, delegates, main, swapped>>

-----------------------------------------------------------------------------
attachCanvas(t) ==
  /\ At(t, "attachCanvas", "use")
  /\ displayer_' = [displayer_ EXCEPT ![self[t]] = todo[t].arg]
  /\ canvas' = todo[t].arg /\ mode' = {}
  /\ End(t)
  /\ UNCHANGED <<slots, contextRid_, operationQueue_, inHostMode_, isDrawable_, queue,
                 singletons, delegates, main, swapped>>

attachOpeartionQueue(t) ==
  /\ At(t, "attachOpeartionQueue", "use")
  /\ operationQueue_' = [operationQueue_ EXCEPT ![self[t]] = todo[t].arg]
  /\ queue' = todo[t].arg
  /\ swapped' = (swapped \/ reader # "idle")
  /\ End(t)
  /\ UNCHANGED <<slots, contextRid_, displayer_, inHostMode_, isDrawable_, canvas, mode,
                 singletons, delegates, main>>

\* setInHostMode_: the canvas, if there is one; then the board's own flag.
TellCanvas(t) ==
  LET c == displayer_[self[t]] IN
  /\ At(t, "setInHostMode_", "use")
  /\ isDrawable_' = IF c = Nil THEN isDrawable_ ELSE [isDrawable_ EXCEPT ![c] = todo[t].arg]
  /\ mode' = IF c = Nil \/ \E u \in Threads : At(u, "setInHostMode_", "told")
             THEN {} ELSE {todo[t].arg}
  /\ Go(t, "told")
  /\ UNCHANGED <<slots, contextRid_, displayer_, operationQueue_, inHostMode_, canvas, queue,
                 todo, self, begun, singletons, delegates, main, swapped>>
RememberMode(t) ==
  /\ At(t, "setInHostMode_", "told")
  /\ inHostMode_' = [inHostMode_ EXCEPT ![self[t]] = todo[t].arg]
  /\ mode' = IF \E u \in Threads \ {t} : At(u, "setInHostMode_", "told") THEN {} ELSE mode
  /\ End(t)
  /\ UNCHANGED <<slots, contextRid_, displayer_, operationQueue_, isDrawable_, canvas, queue,
                 singletons, delegates, main, swapped>>

-----------------------------------------------------------------------------
\* A step of a bind: nobody else who is between ip and port gets a whole pair.
Disturb(t, own) ==
  [u \in Threads |-> IF u = t THEN own
                     ELSE IF pc[u] = "half" /\ todo[u].server = todo[t].server THEN Nil
                     ELSE expected[u]]

\* BindUpdaterIpAndPort and its like: first the ip, then the port.
BindIp(t) ==
  LET s == todo[t].server IN
  /\ At(t, "bind", "use")
  /\ ip' = [ip EXCEPT ![self[t]][s] = todo[t].arg]
  /\ bound' = [bound EXCEPT ![s] = Nil]
  /\ expected' = Disturb(t, IF \E u \in Threads : At(u, "bind", "half") /\ todo[u].server = s
                            THEN Nil ELSE todo[t].arg)
  /\ Go(t, "half")
  /\ UNCHANGED <<port, got, todo, self, begun, singletons, boards, main, swapped>>

\* Mutant of PortOf: the updater's and the provider's port are one variable.
OnePort(s) == CHOOSE x \in Servers : TRUE
PortOf(s) == s

BindPort(t) ==
  /\ At(t, "bind", "half")
  /\ port' = [port EXCEPT ![self[t]][PortOf(todo[t].server)] = todo[t].arg]
  /\ bound' = [bound EXCEPT ![todo[t].server] = expected[t]]
  /\ expected' = Disturb(t, Nil)
  /\ End(t)
  /\ UNCHANGED <<ip, got, singletons, boards, main, swapped>>

\* A remote method reads them for its TcpEndpoint, and leaves (ServerDelegate).
ReadIp(t) ==
  /\ At(t, "connect", "use")
  /\ got' = [got EXCEPT ![t] = <<ip[self[t]][todo[t].server]>>]
  /\ expected' = [expected EXCEPT ![t] = bound[todo[t].server]]
  /\ Go(t, "half")
  /\ UNCHANGED <<ip, port, bound, todo, self, begun, singletons, boards, main, swapped>>

ReadPort(t) ==
  /\ At(t, "connect", "half")
  /\ got' = [got EXCEPT ![t] = Append(@, port[self[t]][PortOf(todo[t].server)])]
  /\ Go(t, "read")
  /\ UNCHANGED <<ip, port, bound, expected, todo, self, begun, singletons, boards, main, swapped>>

Leave(t) ==
  /\ At(t, "connect", "read")
  /\ got' = [got EXCEPT ![t] = <<>>]
  /\ expected' = [expected EXCEPT ![t] = Nil]
  /\ End(t)
  /\ UNCHANGED <<ip, port, bound, singletons, boards, main, swapped>>

-----------------------------------------------------------------------------
trigerReadOperationQueue(t) ==
  /\ At(t, "trigerReadOperationQueue", "use")
  /\ mainQueue' = Append(mainQueue, self[t])
  /\ End(t)
  /\ UNCHANGED <<reader, reading, items, locked, crashed, singletons, boards, delegates, swapped>>

Queue == operationQueue_[reading]
Attached == Queue # Nil
ReaderGoes(place) ==
  /\ reader' = place
  /\ UNCHANGED <<singletons, threads, boards, delegates, swapped>>

StartReading ==
  /\ reader = "idle" /\ mainQueue # <<>>
  /\ reading' = Head(mainQueue) /\ mainQueue' = Tail(mainQueue)
  /\ ReaderGoes("lock")
  /\ UNCHANGED <<items, locked, crashed>>

Lock ==
  /\ reader = "lock"
  /\ locked' = IF Attached THEN [locked EXCEPT ![Queue] = @ + 1] ELSE locked
  /\ ReaderGoes("check")
  /\ UNCHANGED <<mainQueue, reading, items, crashed>>

isEmpty == Attached /\ items[Queue] = 0
Check ==
  /\ reader = "check"
  /\ ReaderGoes(IF isEmpty THEN "return" ELSE "unlock")
  /\ UNCHANGED <<mainQueue, reading, items, locked, crashed>>

\* unLock of a queue that main has not locked does nothing.
UnLock ==
  /\ reader \in {"return", "unlock"}
  /\ locked' = IF Attached /\ locked[Queue] > 0
               THEN [locked EXCEPT ![Queue] = @ - 1] ELSE locked
  /\ ReaderGoes(IF reader = "return" THEN "idle" ELSE "take")
  /\ UNCHANGED <<mainQueue, reading, items, crashed>>

\* Mutant of Removed: objectAtIndex: without removeObjectAtIndex:.
NothingRemoved(q) == items
Removed(q) == [items EXCEPT ![q] = @ - 1]

\* dequeue of no queue takes nothing, that of an empty one throws; slice and
\* trigerDrawSelf are in BoardModel.
Take ==
  /\ reader = "take"
  /\ IF isEmpty THEN crashed' = TRUE /\ items' = items
     ELSE /\ crashed' = crashed
          /\ items' = IF Attached THEN Removed(Queue) ELSE items
  /\ ReaderGoes("lock")
  /\ UNCHANGED <<mainQueue, reading, locked>>

readOperationQueue == ~crashed /\ (StartReading \/ Lock \/ Check \/ UnLock \/ Take)

Step(t) ==
  \/ Look(t) \/ Register(t) \/ Store(t) \/ Fetch(t)
  \/ attachCanvas(t) \/ attachOpeartionQueue(t) \/ TellCanvas(t) \/ RememberMode(t)
  \/ BindIp(t) \/ BindPort(t) \/ ReadIp(t) \/ ReadPort(t) \/ Leave(t)
  \/ trigerReadOperationQueue(t)

Next ==
  \/ \E t \in Threads : ~crashed /\ (Step(t) \/ \E o \in Operations : Begin(t, o))
  \/ readOperationQueue

Spec == Init /\ [][Next]_vars

\* The main thread runs its blocks.
FairSpec == Spec /\ WF_vars(readOperationQueue)

-----------------------------------------------------------------------------
Places == {"idle", "look", "create", "fetch", "use", "told", "half", "read"}
ReaderPlaces == {"idle", "lock", "check", "return", "unlock", "take"}

SingletonTypes ==
  /\ instance \in [Singletons -> Instances \cup {Nil}] /\ created \in [Singletons -> Nat]
  /\ overlapped \subseteq Singletons
ThreadTypes ==
  /\ todo \in [Threads -> Operations \cup {None}] /\ pc \in [Threads -> Places]
  /\ self \in [Threads -> Instances \cup {Nil}] /\ begun \in 0 .. MaxOperations
BoardTypes ==
  /\ slots \in 0 .. MaskBits
  /\ contextRid_ \in [Instances -> Seq(1 .. MaskBits \cup {Refused})]
  /\ displayer_ \in [Instances -> Canvases \cup {Nil}] /\ canvas \in Canvases \cup {Nil}
  /\ operationQueue_ \in [Instances -> Queues \cup {Nil}] /\ queue \in Queues \cup {Nil}
  /\ inHostMode_ \in [Instances -> BOOLEAN] /\ isDrawable_ \in [Canvases -> BOOLEAN]
  /\ mode \subseteq BOOLEAN
DelegateTypes ==
  /\ ip \in [Instances -> [Servers -> Endpoints \cup {Nil}]]
  /\ port \in [Instances -> [Servers -> Endpoints \cup {Nil}]]
  /\ got \in [Threads -> Seq(Endpoints \cup {Nil})]
  /\ bound \in [Servers -> Endpoints \cup {Nil}]
  /\ expected \in [Threads -> Endpoints \cup {Nil}]
MainTypes ==
  /\ mainQueue \in Seq(Instances) /\ reading \in Instances \cup {Nil}
  /\ reader \in ReaderPlaces /\ items \in [Queues -> 0 .. 1] /\ locked \in [Queues -> Nat]
  /\ crashed \in BOOLEAN

\* Every variable stays in its range: MaxOperations instances are enough.
TypeOK ==
  /\ SingletonTypes /\ ThreadTypes /\ BoardTypes /\ DelegateTypes /\ MainTypes
  /\ swapped \in BOOLEAN

Slots == \A k \in 1 .. BOARD_NUM : contextRid_[instance["board"]][k] # Refused
Attachments ==
  /\ displayer_[instance["board"]] = canvas
  /\ operationQueue_[instance["board"]] = queue
Mode ==
  \A b \in mode : (\A t \in Threads : ~At(t, "setInHostMode_", "told")) =>
    isDrawable_[canvas] = b /\ inHostMode_[instance["board"]] = b

\* The board the application reaches has a slot for every context and all that
\* was attached to it, and it and its canvas are in the mode last set, as long
\* as no two threads found it missing at once: one board is ever made.
BoardWhole ==
  "board" \notin overlapped /\ instance["board"] # Nil => Slots /\ Attachments /\ Mode

\* A remote call goes to the ip and the port of the endpoint that was bound
\* last, if no bind came into another or into the reading, and no two threads
\* found the delegate missing at once.
EndpointWhole ==
  "delegate" \notin overlapped =>
    \A t \in Threads : pc[t] = "read" /\ expected[t] # Nil => got[t] = <<expected[t], expected[t]>>

\* readOperationQueue ends with every lock given back, and its dequeue finds an
\* operation, if no queue was attached while it ran.  (Loads, which clear a queue,
\* are in BoardModel.)
LocksGivenBack ==
  ~swapped => ~crashed /\ (reader = "idle" => \A q \in Queues : locked[q] = 0)

\* readOperationQueue ends once a queue is attached, spinning until then; and it
\* ends as LocksGivenBack says.
ReaderEnds ==
  /\ (reader # "idle" /\ Attached) ~> (reader = "idle" \/ crashed)
  /\ []LocksGivenBack
=============================================================================
