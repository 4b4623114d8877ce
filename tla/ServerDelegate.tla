--------------------------- MODULE ServerDelegate ---------------------------
(***************************************************************************)
(* ServerDelegate: the synchronous remote calls of several threads.  Every *)
(* method initialises the RCF library, makes a client, calls, and leaves   *)
(* by return or exception, which deinitialises the library again; the      *)
(* library counts its users (RcfInitDeinit).  What happens to the call in  *)
(* between is ClientStub.                                                  *)
(*                                                                         *)
(* The methods for the updater catch RCF's exceptions and return false, as *)
(* the server may itself; those for the monitor and the provider let them  *)
(* through (GetOperations logs and throws again).                          *)
(***************************************************************************)
EXTENDS ClientStub

CONSTANT Methods    \* the methods the threads call

UpdaterMethods == {"WriteOperationToPool", "SetDocument"}
MonitorMethods == {"Login", "CreateMeeting", "JoinMeeting", "TransferAuth", "RequestAuth",
                   "GetCurrentUserList", "HeartBeat", "ResumeUpdater"}
ProviderMethods == {"GetOperations", "GetLatestDocument", "GetHistorySnapshots", "GetDocument"}

ASSUME DelegateAssumption ==
  Methods \subseteq UpdaterMethods \cup MonitorMethods \cup ProviderMethods

VARIABLES gInitRefCount,   \* of RCF
          libraryUp,       \* whether RCF's globals exist
          method,          \* the method of each call
          returned,        \* what the caller got, or "no"
          accepted,        \* history: the writes the server took, in its order
          failed,          \* history: the calls that got no answer
          before           \* history: the calls that had returned when c was made

rcf == <<gInitRefCount, libraryUp>>
history == <<accepted, failed, before>>
vars == <<stubVars, rcf, method, returned, history>>

Init ==
  /\ StubInit
  /\ gInitRefCount = 0 /\ libraryUp = FALSE
  /\ method = [c \in Calls |-> "none"]
  /\ returned = [c \in Calls |-> "no"]
  /\ accepted = <<>> /\ failed = {} /\ before = [c \in Calls |-> {}]

-----------------------------------------------------------------------------
\* RcfInitDeinit's constructor and destructor: under the library's root mutex.
init ==
  /\ gInitRefCount' = gInitRefCount + 1
  /\ libraryUp' = (libraryUp \/ gInitRefCount = 0)

\* Mutant of deinit: it takes the library down whoever else uses it.
DeinitTakesDown == gInitRefCount' = gInitRefCount - 1 /\ libraryUp' = FALSE
deinit ==
  /\ gInitRefCount' = gInitRefCount - 1
  /\ libraryUp' = (libraryUp /\ gInitRefCount # 1)

\* A method is entered: RcfInitDeinit rcfInit; the client is constructed.
Enter(t, m) ==
  /\ Call(t)
  /\ init
  /\ method' = [method EXCEPT ![calls + 1] = m]
  /\ before' = [before EXCEPT ![calls + 1] = {c \in 1 .. calls : returned[c] # "no"}]
  /\ UNCHANGED <<returned, accepted, failed>>

\* Mutant of ValueOfFailure: the updater's methods say true.
TrueOfFailure(m) == IF m \in UpdaterMethods THEN "true" ELSE "exception"
ValueOfFailure(m) == IF m \in UpdaterMethods THEN "false" ELSE "exception"

\* The method ends, and the destructors run.
End(t, value) ==
  /\ deinit
  /\ returned' = [returned EXCEPT ![call[t]] = value]
  /\ UNCHANGED <<method, accepted, before>>

\* The server's answer is returned ...
Return(t) ==
  \E r \in network :
    /\ Answered(t, r)
    /\ r.answer # "exception"
    /\ End(t, r.answer)
    /\ UNCHANGED failed

\* ... an exception the server threw is thrown here, an RCF::Exception too ...
Rethrow(t) ==
  \E r \in network :
    /\ Answered(t, r)
    /\ r.answer = "exception"
    /\ End(t, ValueOfFailure(method[call[t]]))
    /\ failed' = failed \cup {call[t]}

\* ... or the call fails.
Fail(t) ==
  /\ Failed(t)
  /\ End(t, ValueOfFailure(method[call[t]]))
  /\ failed' = failed \cup {call[t]}

\* The steps of RCF between the two, and those of the server.
Proceed(t) ==
  /\ connect(t) \/ beginSend(t) \/ TryAgain(t)
  /\ UNCHANGED <<rcf, method, returned, history>>

Serve(r, answer) ==
  /\ Execute(r, answer)
  /\ accepted' = IF method[r.call] = "WriteOperationToPool" /\ answer = "true"
                 THEN Append(accepted, r.call) ELSE accepted
  /\ UNCHANGED <<rcf, method, returned, failed, before>>

Disturb ==
  /\ (\E r \in network : Refuse(r) \/ Lose(r)) \/ \E v \in ServerVersions : Restart(v)
  /\ UNCHANGED <<rcf, method, returned, history>>

Inside(t) == Proceed(t) \/ Return(t) \/ Rethrow(t) \/ Fail(t)

Next ==
  \/ \E t \in Threads : Inside(t) \/ \E m \in Methods : Enter(t, m)
  \/ \E r \in network, answer \in Answers : Serve(r, answer)
  \/ Disturb

Spec == Init /\ [][Next]_vars

\* A thread in a call keeps running; its time outs end what nobody answers.
FairSpec == Spec /\ \A t \in Threads : WF_vars(Inside(t))

-----------------------------------------------------------------------------
\* The library is up for every thread inside a method, whichever order the
\* threads enter and leave in, and down again when all have left.
LibraryUpInCalls == libraryUp <=> \E t \in Threads : pc[t] # "out"

\* For its callers a method is a remote call executed at most once, although a
\* request may be sent twice and servers of other versions take over: an
\* answer comes from the server that executed the call, and a failure, which
\* the updater's methods report as false, says nothing of what the server did.
Promised == INSTANCE RemoteCall WITH
  started <- 1 .. calls,
  returned <- [c \in Calls |-> IF c \in failed THEN "failure" ELSE returned[c]]
CallSpec == Promised!CallSpec

Written(c) == method[c] = "WriteOperationToPool" /\ returned[c] = "true"
At(c) == {k \in 1 .. Len(accepted) : accepted[k] = c}

\* A write that returned true was accepted by a server, once, and before every
\* write that was started after it returned, whatever failed, was sent again
\* or came late between.  (A write that returned false may be accepted at any
\* later time.)
AcceptedInOrder ==
  \A c \in Calls : Written(c) =>
    \E k \in 1 .. Len(accepted) :
      /\ At(c) = {k}
      /\ \A d \in Calls : c \in before[d] => \A l \in At(d) : k < l

\* Every call comes back to its caller, whatever the server does: it may be
\* silent, refuse, or be restarted while the call is on its way.
CallsEnd == \A c \in Calls : calls >= c ~> returned[c] # "no"
=============================================================================
