------------------------ MODULE ServerDelegateProofs -------------------------
(***************************************************************************)
(* Proofs about the remote calls, for any threads, any number of calls and *)
(* any versions of the servers.                                            *)
(*                                                                         *)
(* The argument for CallSpec: a call has at most one message on its way,   *)
(* and a thread that is about to send a request has none and has not been  *)
(* executed, since a client sends again only what a server refused; so no  *)
(* request reaches a server after the call's execution.  The order of the  *)
(* accepted writes follows, as an answer is taken from the execution.      *)
(***************************************************************************)
EXTENDS ServerDelegate, FiniteSetTheorems, SequenceTheorems, TLAPS

Messages == Requests \cup Mismatches \cup Replies
Outcomes == Answers \cup {"no"}

\* What is added to ClientStub stays in its range.
DelegateTypes ==
  /\ method \in [Calls -> Methods \cup {"none"}]
  /\ returned \in [Calls -> Outcomes]
  /\ accepted \in Seq(Calls)
  /\ failed \subseteq Calls
  /\ before \in [Calls -> SUBSET Calls]

Types == StubTypeOK /\ DelegateTypes

LEMMA MessageFields ==
  ASSUME NEW r \in Messages
  PROVE  /\ r.call \in Calls /\ r.kind \in {"request", "mismatch", "reply"}
         /\ r.kind \in {"request", "mismatch"} => r.version \in Nat
         /\ r.kind = "reply" => r.answer \in Answers
BY DEF Messages, Requests, Mismatches, Replies

LEMMA MessagesMade ==
  ASSUME NEW c \in Calls, NEW v \in Nat, NEW a \in Answers
  PROVE  /\ Request(c, v) \in Messages /\ Mismatch(c, v) \in Messages /\ Reply(c, a) \in Messages
         /\ Request(c, v).call = c /\ Mismatch(c, v).call = c /\ Reply(c, a).call = c
         /\ Request(c, v).kind = "request" /\ Mismatch(c, v).kind = "mismatch"
         /\ Reply(c, a).kind = "reply" /\ Reply(c, a).answer = a
BY DEF Request, Mismatch, Reply, Messages, Requests, Mismatches, Replies

-----------------------------------------------------------------------------
\* A thread's call: it is one that was made, and it has not returned.
CallAt(t) ==
  pc[t] # "out" =>
    /\ call[t] \in 1 .. calls
    /\ returned[call[t]] = "no" /\ call[t] \notin failed

Unsent(t) ==
  pc[t] \in {"connecting", "sending"} =>
    /\ executed[call[t]] = "no"
    /\ \A r \in network : r.call # call[t]

OwnCalls == \A s, t \in Threads : s # t /\ pc[s] # "out" /\ pc[t] # "out" => call[s] # call[t]

NotMade == \A c \in Calls : c > calls => executed[c] = "no" /\ returned[c] = "no" /\ c \notin failed

OneMessage == \A r, q \in network : r.call = q.call => r = q

Message(r) ==
  /\ r.call =< calls
  /\ r.kind = "reply" => executed[r.call] = r.answer
  /\ r.kind # "reply" => executed[r.call] = "no"

\* The inductive invariant of the calls.
CallInv ==
  /\ \A t \in Threads : CallAt(t) /\ Unsent(t)
  /\ OwnCalls /\ NotMade /\ OneMessage
  /\ \A r \in network : Message(r)

CoreInv == Types /\ CallInv

\* The variables of the environment of a step, by what they may do.
delegateVars == <<method, returned, accepted, failed, before>>

-----------------------------------------------------------------------------
LEMMA InitCore == Init => CoreInv
<1> SUFFICES ASSUME Init PROVE CoreInv
  OBVIOUS
<1> USE DEF Init, StubInit
<1>1. StubTypeOK
  BY StubAssumption DEF StubTypeOK, Idle
<1>2. DelegateTypes
  BY DEF DelegateTypes, Outcomes
<1>3. CallInv
  BY DEF CallInv, CallAt, Unsent, OwnCalls, NotMade, OneMessage
<1> QED
  BY <1>1, <1>2, <1>3 DEF CoreInv, Types

LEMMA EnterTypes ==
  ASSUME Types, NEW t \in Threads, NEW m \in Methods, Enter(t, m)
  PROVE  Types'
<1> USE DEF Types, StubTypeOK, DelegateTypes
<1>1. calls \in 0 .. MaxCalls /\ MaxCalls \in Nat /\ calls < MaxCalls /\ calls' = calls + 1
  BY StubAssumption DEF Enter, Call
<1>2. calls + 1 \in Calls /\ calls' \in 0 .. MaxCalls
  BY <1>1 DEF Calls
<1>3. call' \in [Threads -> 0 .. calls'] /\ pc' \in [Threads -> {"out", "connecting", "sending", "receiving"}]
  <2>1. 0 .. calls \subseteq 0 .. calls' /\ calls + 1 \in 0 .. calls'
    BY <1>1
  <2> QED
    BY <2>1 DEF Enter, Call
<1>4. UNCHANGED <<client, network, server>>
  BY DEF Enter, Call
<1>5. {c \in 1 .. calls : returned[c] # "no"} \subseteq Calls
  BY <1>1 DEF Calls
<1>6. method' \in [Calls -> Methods \cup {"none"}] /\ before' \in [Calls -> SUBSET Calls]
  BY <1>2, <1>5 DEF Enter
<1>7. UNCHANGED <<returned, accepted, failed>>
  BY DEF Enter
<1>8. StubTypeOK'
  BY <1>2, <1>3, <1>4 DEF client, server
<1>9. DelegateTypes'
  BY <1>6, <1>7
<1> QED
  BY <1>8, <1>9

LEMMA ProceedTypes ==
  ASSUME Types, NEW t \in Threads, connect(t) \/ beginSend(t) \/ TryAgain(t), UNCHANGED delegateVars,
         pc[t] # "out" => call[t] \in Calls
  PROVE  Types'
<1> USE DEF Types, StubTypeOK
<1>1. DelegateTypes'
  BY DEF DelegateTypes, delegateVars
<1>2. CASE connect(t)
  BY <1>1, <1>2 DEF connect, server
<1>3. CASE beginSend(t)
  <2>1. call[t] \in Calls /\ mRuntimeVersion[t] \in Nat
    BY <1>3 DEF beginSend
  <2>2. Request(call[t], mRuntimeVersion[t]) \in Requests
    BY <2>1 DEF Request, Requests
  <2>3. network' \subseteq Requests \cup Mismatches \cup Replies
    BY <1>3, <2>2 DEF beginSend
  <2> QED
    BY <1>1, <1>3, <2>3 DEF beginSend, client, server
<1>4. CASE TryAgain(t)
  <2>1. PICK r \in network :
          /\ network' = network \ {r}
          /\ mRuntimeVersion' =
               [mRuntimeVersion EXCEPT ![t] = IF r.kind = "mismatch" THEN r.version ELSE @]
    BY <1>4 DEF TryAgain
  <2>2. r.kind = "mismatch" => r.version \in Nat
    BY MessageFields DEF Messages
  <2>3. mRuntimeVersion' \in [Threads -> Nat]
    BY <2>1, <2>2
  <2> QED
    BY <1>1, <1>4, <2>1, <2>3 DEF TryAgain, server
<1> QED
  BY <1>2, <1>3, <1>4

LEMMA LeaveTypes ==
  ASSUME Types, NEW t \in Threads, NEW value \in Answers, End(t, value), Leave(t),
         call[t] \in Calls, network' \subseteq network, failed' \subseteq failed \cup {call[t]}
  PROVE  Types'
<1> USE DEF Types
<1>1. StubTypeOK'
  BY StubAssumption DEF StubTypeOK, Leave, server, Idle
<1>2. returned' = [returned EXCEPT ![call[t]] = value] /\ value \in Outcomes
  BY DEF End, Outcomes
<1>3. returned' \in [Calls -> Outcomes]
  BY <1>2 DEF DelegateTypes
<1>4. DelegateTypes'
  BY <1>3 DEF DelegateTypes, End
<1> QED
  BY <1>1, <1>4

LEMMA ServerTypes ==
  ASSUME Types, Disturb \/ \E r \in network, answer \in Answers : Serve(r, answer)
  PROVE  Types'
<1> USE DEF Types
<1> network \subseteq Messages
  BY DEF StubTypeOK, Messages
<1>1. ASSUME NEW r \in network, NEW answer \in Answers, Serve(r, answer) PROVE Types'
  <2>1. r.call \in Calls
    BY MessageFields
  <2>2. Reply(r.call, answer) \in Replies
    BY <2>1 DEF Reply, Replies
  <2>3. network' \subseteq Requests \cup Mismatches \cup Replies
    BY <1>1, <2>2 DEF Serve, Execute, StubTypeOK
  <2>4. executed' \in [Calls -> Answers \cup {"no"}]
    BY <1>1, <2>1 DEF Serve, Execute, StubTypeOK
  <2>5. StubTypeOK'
    BY <1>1, <2>3, <2>4 DEF Serve, Execute, StubTypeOK, client
  <2>6. Append(accepted, r.call) \in Seq(Calls)
    BY <2>1 DEF DelegateTypes
  <2>7. accepted' \in Seq(Calls)
    BY <1>1, <2>6 DEF Serve, DelegateTypes
  <2>8. DelegateTypes'
    BY <1>1, <2>7 DEF Serve, DelegateTypes
  <2> QED
    BY <2>5, <2>8
<1>2. CASE Disturb
  <2>1. DelegateTypes'
    BY <1>2 DEF Disturb, DelegateTypes, history
  <2>2. ASSUME NEW r \in network, Refuse(r) PROVE StubTypeOK'
    <3>1. r.call \in Calls /\ serverVersion \in Nat
      BY MessageFields DEF StubTypeOK
    <3>2. Mismatch(r.call, serverVersion) \in Mismatches
      BY <3>1 DEF Mismatch, Mismatches
    <3> QED
      BY <2>2, <3>2 DEF Refuse, StubTypeOK, client, server
  <2>3. ASSUME NEW r \in network, Lose(r) PROVE StubTypeOK'
    BY <2>3 DEF Lose, StubTypeOK, client, server
  <2>4. ASSUME NEW v \in ServerVersions, Restart(v) PROVE StubTypeOK'
    BY <2>4, StubAssumption DEF Restart, StubTypeOK
  <2> QED
    BY <1>2, <2>1, <2>2, <2>3, <2>4 DEF Disturb
<1> QED
  BY <1>1, <1>2

-----------------------------------------------------------------------------
\* What the steps do to the calls.
LEMMA EnterCalls ==
  ASSUME CoreInv, NEW t \in Threads, NEW m \in Methods, Enter(t, m)
  PROVE  CallInv'
<1> USE DEF CoreInv, CallInv
<1>1. /\ calls \in 0 .. MaxCalls /\ MaxCalls \in Nat /\ calls < MaxCalls /\ calls' = calls + 1
      /\ pc[t] = "out" /\ pc'[t] = "connecting" /\ call'[t] = calls + 1
      /\ \A s \in Threads : s # t => pc'[s] = pc[s] /\ call'[s] = call[s]
      /\ UNCHANGED <<network, executed, returned, failed>>
  BY StubAssumption DEF Types, StubTypeOK, Enter, Call, server
<1>2. calls + 1 \in Calls /\ calls + 1 \in 1 .. calls' /\ 1 .. calls \subseteq 1 .. calls'
  BY <1>1 DEF Calls
<1>3. \A r \in network : r.call # calls + 1 /\ r.call =< calls /\ r.call =< calls'
  <2>1. \A r \in network : r.call \in Calls
    BY MessageFields DEF Types, StubTypeOK, Messages
  <2> QED
    BY <1>1, <2>1 DEF Message, Calls
<1>4. returned[calls + 1] = "no" /\ executed[calls + 1] = "no" /\ calls + 1 \notin failed
  BY <1>1, <1>2 DEF NotMade
<1>5. ASSUME NEW s \in Threads PROVE CallAt(s)' /\ Unsent(s)'
  BY <1>1, <1>2, <1>3, <1>4 DEF CallAt, Unsent
<1>6. OwnCalls'
  <2>1. \A s \in Threads : pc[s] # "out" => call[s] \in 1 .. calls
    BY DEF CallAt
  <2>2. calls + 1 \notin 1 .. calls
    BY <1>1
  <2> QED
    BY <1>1, <2>1, <2>2 DEF OwnCalls
<1>7. NotMade'
  BY <1>1 DEF NotMade, Calls
<1>8. OneMessage' /\ \A r \in network' : Message(r)'
  BY <1>1, <1>3 DEF OneMessage, Message
<1> QED
  BY <1>5, <1>6, <1>7, <1>8

LEMMA ProceedCalls ==
  ASSUME CoreInv, NEW t \in Threads, connect(t) \/ beginSend(t) \/ TryAgain(t), UNCHANGED delegateVars
  PROVE  CallInv'
<1> USE DEF CoreInv, CallInv
<1>1. /\ pc[t] # "out" /\ pc'[t] # "out" /\ call' = call /\ calls' = calls
      /\ \A s \in Threads : s # t => pc'[s] = pc[s]
      /\ UNCHANGED <<executed, returned, failed>>
  BY DEF connect, beginSend, TryAgain, delegateVars, server, Types, StubTypeOK
<1>2. call[t] \in 1 .. calls /\ calls \in Nat /\ calls \in 0 .. MaxCalls /\ MaxCalls \in Nat
  BY <1>1, StubAssumption DEF CallAt, Types, StubTypeOK
<1>3. call[t] \in Calls
  BY <1>2 DEF Calls
<1>4. OwnCalls' /\ NotMade' /\ \A s \in Threads : CallAt(s)'
  BY <1>1 DEF OwnCalls, NotMade, CallAt
<1>5. network' \subseteq network => OneMessage' /\ \A r \in network' : Message(r)'
  BY <1>1 DEF OneMessage, Message
<1>6. \A s \in Threads : s # t /\ pc[s] # "out" => call[s] # call[t]
  BY <1>1 DEF OwnCalls
<1>7. CASE connect(t)
  <2>1. network' = network /\ pc[t] = "connecting"
    BY <1>7 DEF connect
  <2> QED
    BY <1>1, <1>4, <1>5, <2>1 DEF Unsent
<1>8. CASE beginSend(t)
  <2> DEFINE q == Request(call[t], mRuntimeVersion[t])
  <2>1. pc[t] = "sending" /\ pc'[t] = "receiving" /\ (network' = network \cup {q} \/ network' = network)
    BY <1>8 DEF beginSend, Types, StubTypeOK
  <2>2. q.call = call[t] /\ q.kind = "request"
    BY DEF Request
  <2> HIDE DEF q
  <2>3. executed[call[t]] = "no" /\ \A r \in network : r.call # call[t]
    BY <2>1 DEF Unsent
  <2>4. OneMessage'
    BY <2>1, <2>2, <2>3 DEF OneMessage
  <2>5. \A r \in network' : Message(r)'
    BY <1>1, <1>2, <2>1, <2>2, <2>3 DEF Message
  <2>6. \A s \in Threads : Unsent(s)'
    BY <1>1, <1>6, <2>1, <2>2 DEF Unsent
  <2> QED
    BY <1>4, <2>4, <2>5, <2>6
<1>9. CASE TryAgain(t)
  <2>1. PICK r \in network :
          /\ r.call = call[t] /\ r.kind # "request" /\ MayTryAgain(t, r)
          /\ network' = network \ {r}
    BY <1>9 DEF TryAgain
  <2>2. r.kind = "mismatch"
    BY <2>1 DEF MayTryAgain
  <2>3. executed[call[t]] = "no" /\ \A q \in network' : q.call # call[t]
    BY <2>1, <2>2 DEF Message, OneMessage
  <2>4. \A s \in Threads : Unsent(s)'
    BY <1>1, <1>6, <2>1, <2>3 DEF Unsent
  <2> QED
    BY <1>4, <1>5, <2>1, <2>4
<1> QED
  BY <1>7, <1>8, <1>9

LEMMA LeaveCalls ==
  ASSUME CoreInv, NEW t \in Threads, NEW value \in Answers, End(t, value), Leave(t),
         pc[t] # "out", network' \subseteq network, failed' \subseteq failed \cup {call[t]}
  PROVE  CallInv'
<1> USE DEF CoreInv, CallInv
<1>1. /\ pc'[t] = "out" /\ calls' = calls /\ executed' = executed
      /\ \A s \in Threads : s # t => pc'[s] = pc[s] /\ call'[s] = call[s]
      /\ returned' = [returned EXCEPT ![call[t]] = value]
  BY DEF Leave, End, server, Types, StubTypeOK
<1>2. call[t] \in 1 .. calls /\ calls \in Nat
  BY DEF CallAt, Types, StubTypeOK
<1>3. \A s \in Threads : s # t /\ pc[s] # "out" => call[s] # call[t]
  BY DEF OwnCalls
<1>4. \A c \in Calls : c # call[t] => returned'[c] = returned[c]
  BY <1>1 DEF Types, DelegateTypes
<1>5. \A s \in Threads : pc[s] # "out" => call[s] \in Calls
  BY StubAssumption DEF CallAt, Types, StubTypeOK, Calls
<1>6. ASSUME NEW s \in Threads PROVE CallAt(s)' /\ Unsent(s)'
  BY <1>1, <1>3, <1>4, <1>5 DEF CallAt, Unsent
<1>7. OwnCalls'
  BY <1>1 DEF OwnCalls
<1>8. NotMade'
  <2>1. \A c \in Calls : c > calls => c # call[t]
    BY <1>2
  <2> QED
    BY <1>1, <1>4, <2>1 DEF NotMade
<1>9. OneMessage' /\ \A r \in network' : Message(r)'
  BY <1>1 DEF OneMessage, Message
<1> QED
  BY <1>6, <1>7, <1>8, <1>9

LEMMA ServerCalls ==
  ASSUME CoreInv, Disturb \/ \E r \in network, answer \in Answers : Serve(r, answer)
  PROVE  CallInv'
<1> USE DEF CoreInv, CallInv
<1>1. UNCHANGED <<calls, call, pc, returned, failed>>
  BY DEF Disturb, Refuse, Lose, Restart, Serve, Execute, history
<1>2. OwnCalls' /\ \A t \in Threads : CallAt(t)'
  BY <1>1 DEF OwnCalls, CallAt
<1>3. network \subseteq Messages
  BY DEF Types, StubTypeOK, Messages
<1>4. \A t \in Threads : pc[t] # "out" => call[t] \in Calls
  BY StubAssumption DEF CallAt, Types, StubTypeOK, Calls
<1>5. ASSUME NEW r \in network, NEW q, q.call = r.call, network' = (network \ {r}) \cup {q}
      PROVE  /\ OneMessage'
             /\ \A c \in Calls : (\A p \in network : p.call # c) => \A p \in network' : p.call # c
             /\ \A p \in network' : p = q \/ (p \in network /\ p.call # r.call)
  BY <1>5 DEF OneMessage
<1>6. ASSUME NEW r \in network, NEW answer \in Answers, Serve(r, answer) PROVE CallInv'
  <2> DEFINE q == Reply(r.call, answer)
  <2>1. r.call \in Calls /\ r.call =< calls /\ r.kind = "request"
    BY <1>3, <1>6, MessageFields DEF Message, Serve, Execute
  <2>2. q.call = r.call /\ q.kind = "reply" /\ q.answer = answer
    BY DEF Reply
  <2>3. network' = (network \ {r}) \cup {q} /\ executed' = [executed EXCEPT ![r.call] = answer]
    BY <1>6 DEF Serve, Execute
  <2> HIDE DEF q
  <2>4. executed'[r.call] = answer /\ \A c \in Calls : c # r.call => executed'[c] = executed[c]
    BY <2>1, <2>3 DEF Types, StubTypeOK
  <2>5. /\ OneMessage'
        /\ \A c \in Calls : (\A p \in network : p.call # c) => \A p \in network' : p.call # c
        /\ \A p \in network' : p = q \/ (p \in network /\ p.call # r.call)
    BY <1>5, <2>2, <2>3
  <2>6. \A p \in network' : Message(p)'
    <3> SUFFICES ASSUME NEW p \in network' PROVE Message(p)'
      OBVIOUS
    <3>1. CASE p = q
      BY <1>1, <2>1, <2>2, <2>4, <3>1 DEF Message
    <3>2. CASE p # q
      <4>1. p \in network /\ p.call # r.call /\ p.call \in Calls
        BY <1>3, <2>5, <3>2, MessageFields
      <4> QED
        BY <1>1, <2>4, <4>1 DEF Message
    <3> QED
      BY <3>1, <3>2
  <2>7. \A t \in Threads : Unsent(t)'
    BY <1>1, <1>4, <2>4, <2>5 DEF Unsent
  <2>8. NotMade'
    BY <1>1, <2>1, <2>4 DEF NotMade, Types, StubTypeOK, Calls
  <2> QED
    BY <1>2, <2>5, <2>6, <2>7, <2>8
<1>7. ASSUME NEW r \in network, Refuse(r) PROVE CallInv'
  <2> DEFINE q == Mismatch(r.call, serverVersion)
  <2>1. r.call \in Calls /\ r.call =< calls /\ executed[r.call] = "no"
    BY <1>3, <1>7, MessageFields DEF Message, Refuse
  <2>2. q.call = r.call /\ q.kind = "mismatch"
    BY DEF Mismatch
  <2>3. network' = (network \ {r}) \cup {q} /\ executed' = executed
    BY <1>7 DEF Refuse, server
  <2> HIDE DEF q
  <2>4. /\ OneMessage'
        /\ \A c \in Calls : (\A p \in network : p.call # c) => \A p \in network' : p.call # c
        /\ \A p \in network' : p = q \/ (p \in network /\ p.call # r.call)
    BY <1>5, <2>2, <2>3
  <2>5. \A p \in network' : Message(p)'
    BY <1>1, <2>1, <2>2, <2>3, <2>4 DEF Message
  <2>6. NotMade' /\ \A t \in Threads : Unsent(t)'
    BY <1>1, <1>4, <2>3, <2>4 DEF Unsent, NotMade
  <2> QED
    BY <1>2, <2>4, <2>5, <2>6
<1>8. ASSUME network' \subseteq network, executed' = executed PROVE CallInv'
  <2>1. OneMessage' /\ NotMade' /\ \A p \in network' : Message(p)'
    BY <1>1, <1>8 DEF OneMessage, NotMade, Message
  <2>2. \A t \in Threads : Unsent(t)'
    BY <1>1, <1>8 DEF Unsent
  <2> QED
    BY <1>2, <2>1, <2>2
<1>9. ASSUME NEW r \in network, Lose(r) PROVE CallInv'
  BY <1>8, <1>9 DEF Lose, server
<1>10. ASSUME NEW v \in ServerVersions, Restart(v) PROVE CallInv'
  BY <1>8, <1>10 DEF Restart
<1> QED
  BY <1>6, <1>7, <1>9, <1>10 DEF Disturb

\* The four ways a step can go, for the proofs about Next.
LEMMA InsideSteps ==
  ASSUME CoreInv, NEW t \in Threads, Inside(t)
  PROVE  /\ pc[t] # "out" /\ call[t] \in 1 .. calls /\ call[t] \in Calls
         /\ \/ (connect(t) \/ beginSend(t) \/ TryAgain(t)) /\ UNCHANGED <<delegateVars, rcf, executed>>
            \/ /\ Leave(t) /\ network' \subseteq network /\ executed' = executed
               /\ \/ \E value \in Answers :
                       /\ value = executed[call[t]] /\ End(t, value) /\ failed' = failed
                  \/ \E value \in {"false", "exception"} :
                       End(t, value) /\ failed' = failed \cup {call[t]}
<1>1. pc[t] # "out"
  BY DEF Inside, Proceed, connect, beginSend, TryAgain, Return, Rethrow, Answered, Fail, Failed, InTime
<1>2. call[t] \in 1 .. calls /\ call[t] \in Calls
  BY <1>1, StubAssumption DEF CoreInv, CallInv, CallAt, Types, StubTypeOK, Calls
<1>3. CASE Proceed(t)
  BY <1>1, <1>2, <1>3
     DEF Proceed, delegateVars, history, connect, beginSend, TryAgain, server
<1>4. CASE Return(t)
  <2>1. PICK r \in network : Answered(t, r) /\ End(t, r.answer) /\ failed' = failed
    BY <1>4 DEF Return
  <2>2. r.kind = "reply" /\ r.call = call[t] /\ Leave(t) /\ network' \subseteq network
    BY <2>1 DEF Answered
  <2>3. r.answer \in Answers /\ r.answer = executed[call[t]]
    BY <2>2, MessageFields DEF CoreInv, CallInv, Message, Types, StubTypeOK, Messages
  <2> QED
    BY <1>1, <1>2, <2>1, <2>2, <2>3 DEF Leave, server
<1>5. CASE Rethrow(t) \/ Fail(t)
  <2>1. /\ Leave(t) /\ network' \subseteq network
        /\ End(t, ValueOfFailure(method[call[t]])) /\ failed' = failed \cup {call[t]}
    BY <1>5 DEF Rethrow, Fail, Failed, Answered
  <2>2. ValueOfFailure(method[call[t]]) \in {"false", "exception"}
    BY DEF ValueOfFailure
  <2> QED
    BY <1>1, <1>2, <2>1, <2>2 DEF Leave, server
<1> QED
  BY <1>3, <1>4, <1>5 DEF Inside

LEMMA NextCore == CoreInv /\ [Next]_vars => CoreInv'
<1> SUFFICES ASSUME CoreInv, [Next]_vars PROVE CoreInv'
  OBVIOUS
<1>1. ASSUME NEW t \in Threads, NEW m \in Methods, Enter(t, m) PROVE CoreInv'
  BY <1>1, EnterTypes, EnterCalls DEF CoreInv
<1>2. ASSUME NEW t \in Threads, Inside(t) PROVE CoreInv'
  <2>1. pc[t] # "out" /\ call[t] \in Calls
    BY <1>2, InsideSteps
  <2>2. CASE (connect(t) \/ beginSend(t) \/ TryAgain(t)) /\ UNCHANGED <<delegateVars, rcf, executed>>
    BY <2>1, <2>2, ProceedTypes, ProceedCalls DEF CoreInv
  <2>3. ASSUME Leave(t), network' \subseteq network, NEW value \in Answers, End(t, value),
               failed' \subseteq failed \cup {call[t]}
        PROVE  CoreInv'
    BY <2>1, <2>3, LeaveTypes, LeaveCalls DEF CoreInv
  <2>4. {"false", "exception"} \subseteq Answers
    BY DEF Answers
  <2> QED
    BY <1>2, <2>2, <2>3, <2>4, InsideSteps
<1>3. CASE Disturb \/ \E r \in network, answer \in Answers : Serve(r, answer)
  BY <1>3, ServerTypes, ServerCalls DEF CoreInv
<1>4. CASE UNCHANGED vars
  <2>1. Types'
    BY <1>4 DEF CoreInv, Types, StubTypeOK, DelegateTypes, vars, stubVars, client, server, history
  <2>2. CallInv'
    BY <1>4 DEF CoreInv, CallInv, CallAt, Unsent, OwnCalls, NotMade, OneMessage, Message, vars,
       stubVars, client, server, history
  <2> QED
    BY <2>1, <2>2 DEF CoreInv
<1> QED
  BY <1>1, <1>2, <1>3, <1>4 DEF Next

\* The invariant of the calls, in every behaviour.
THEOREM CoreHolds == Spec => []CoreInv
BY InitCore, NextCore, PTL DEF Spec

-----------------------------------------------------------------------------
\* The library counts the threads inside a method.
InCalls == {t \in Threads : pc[t] # "out"}
LibraryInv ==
  /\ IsFiniteSet(InCalls)
  /\ gInitRefCount = Cardinality(InCalls)
  /\ libraryUp <=> InCalls # {}

LEMMA NextLibrary == CoreInv /\ LibraryInv /\ [Next]_vars => LibraryInv'
<1> SUFFICES ASSUME CoreInv, LibraryInv, [Next]_vars PROVE LibraryInv'
  OBVIOUS
<1> USE DEF LibraryInv, CoreInv, Types, StubTypeOK
<1>1. ASSUME NEW t \in Threads, NEW m \in Methods, Enter(t, m) PROVE LibraryInv'
  <2>1. t \notin InCalls /\ InCalls' = InCalls \cup {t}
    BY <1>1 DEF Enter, Call, InCalls
  <2>2. IsFiniteSet(InCalls') /\ Cardinality(InCalls') = Cardinality(InCalls) + 1
    BY <2>1, FS_AddElement
  <2>3. Cardinality(InCalls) \in Nat /\ (Cardinality(InCalls) = 0 <=> InCalls = {})
    BY FS_EmptySet, FS_CardinalityType
  <2>4. gInitRefCount' = gInitRefCount + 1 /\ libraryUp' = (libraryUp \/ gInitRefCount = 0)
    BY <1>1 DEF Enter, init
  <2>5. libraryUp'
    BY <2>3, <2>4
  <2> QED
    BY <2>1, <2>2, <2>4, <2>5
<1>2. ASSUME NEW t \in Threads, NEW value, End(t, value), Leave(t), pc[t] # "out" PROVE LibraryInv'
  <2>1. t \in InCalls /\ InCalls' = InCalls \ {t}
    BY <1>2 DEF Leave, InCalls
  <2>2. IsFiniteSet(InCalls') /\ Cardinality(InCalls') = Cardinality(InCalls) - 1
    BY <2>1, FS_RemoveElement
  <2>3. Cardinality(InCalls') = 0 <=> InCalls' = {}
    BY <2>2, FS_EmptySet
  <2>4. gInitRefCount' = gInitRefCount - 1 /\ libraryUp' = (libraryUp /\ gInitRefCount # 1)
    BY <1>2 DEF End, deinit
  <2>5. Cardinality(InCalls) \in Nat
    BY FS_CardinalityType
  <2>6. gInitRefCount # 1 <=> InCalls' # {}
    BY <2>2, <2>3, <2>5
  <2>7. libraryUp' <=> InCalls' # {}
    BY <2>1, <2>4, <2>6
  <2> QED
    BY <2>2, <2>4, <2>7
<1>3. ASSUME UNCHANGED rcf, InCalls' = InCalls PROVE LibraryInv'
  BY <1>3 DEF rcf
<1>4. ASSUME NEW t \in Threads, Inside(t) PROVE LibraryInv'
  <2>1. pc[t] # "out"
    BY <1>4, InsideSteps
  <2>2. CASE (connect(t) \/ beginSend(t) \/ TryAgain(t)) /\ UNCHANGED rcf
    <3>1. InCalls' = InCalls
      BY <2>2 DEF connect, beginSend, TryAgain, InCalls
    <3> QED
      BY <1>3, <2>2, <3>1
  <2> QED
    BY <1>2, <1>4, <2>1, <2>2, InsideSteps
<1>5. CASE Disturb \/ \E r \in network, answer \in Answers : Serve(r, answer)
  BY <1>3, <1>5 DEF Disturb, Refuse, Lose, Restart, Serve, Execute, InCalls
<1>6. CASE UNCHANGED vars
  BY <1>3, <1>6 DEF vars, stubVars, InCalls
<1> QED
  BY <1>1, <1>4, <1>5, <1>6 DEF Next

\* The library is up for every thread inside a method, and down when all have
\* left, in whatever order they enter and leave (RcfInitDeinit's counting).
THEOREM LibraryCounted == Spec => []LibraryUpInCalls
<1>1. Init => LibraryInv
  <2> SUFFICES ASSUME Init PROVE LibraryInv
    OBVIOUS
  <2>1. InCalls = {} /\ gInitRefCount = 0 /\ libraryUp = FALSE
    BY DEF Init, StubInit, InCalls
  <2> QED
    BY <2>1, FS_EmptySet DEF LibraryInv
<1>2. LibraryInv => LibraryUpInCalls
  BY DEF LibraryInv, LibraryUpInCalls, InCalls
<1> QED
  BY <1>1, <1>2, NextLibrary, CoreHolds, PTL DEF Spec

-----------------------------------------------------------------------------
\* A caller gets the server's answer to its call or learns of a failure, and
\* the server executes the call at most once (ClientStub's resending included).
LEMMA PromisedInit == Init => Promised!CallInit
<1> SUFFICES ASSUME Init PROVE Promised!CallInit
  OBVIOUS
<1>1. 1 .. calls = {} /\ executed = [c \in Calls |-> "no"]
  BY DEF Init, StubInit
<1>2. [c \in Calls |-> IF c \in failed THEN "failure" ELSE returned[c]] = [c \in Calls |-> "no"]
  BY DEF Init
<1> QED
  BY <1>1, <1>2 DEF Promised!CallInit

LEMMA PromisedNext == CoreInv /\ [Next]_vars => [Promised!CallNext]_(Promised!callVars)
<1> DEFINE got == [c \in Calls |-> IF c \in failed THEN "failure" ELSE returned[c]]
<1> SUFFICES ASSUME CoreInv, [Next]_vars
             PROVE  \/ Promised!CallNext
                    \/ (1 .. calls)' = 1 .. calls /\ executed' = executed /\ got' = got
  BY DEF Promised!callVars
<1> USE DEF CoreInv, CallInv
<1>1. ASSUME NEW t \in Threads, NEW m \in Methods, Enter(t, m) PROVE Promised!CallNext
  <2>1. /\ calls \in 0 .. MaxCalls /\ MaxCalls \in Nat /\ calls < MaxCalls /\ calls' = calls + 1
        /\ UNCHANGED <<executed, returned, failed>>
    BY <1>1, StubAssumption DEF Types, StubTypeOK, Enter, Call, server
  <2>2. /\ calls + 1 \in Calls /\ calls + 1 \notin 1 .. calls
        /\ 1 .. calls' = (1 .. calls) \cup {calls + 1}
    BY <2>1 DEF Calls
  <2>3. Promised!StartCall(calls + 1)
    BY <2>1, <2>2 DEF Promised!StartCall
  <2> QED
    BY <2>2, <2>3 DEF Promised!CallNext
<1>2. ASSUME NEW t \in Threads, Leave(t), executed' = executed, NEW value, End(t, value),
             call[t] \in 1 .. calls, call[t] \in Calls, pc[t] # "out",
             \/ value = executed[call[t]] /\ value \in Answers /\ failed' = failed
             \/ failed' = failed \cup {call[t]}
      PROVE  Promised!CallNext
  <2>0. PICK c \in Calls : c = call[t]
    BY <1>2
  <2>1. returned[call[t]] = "no" /\ call[t] \notin failed
    BY <1>2 DEF CallAt
  <2>2. returned' = [returned EXCEPT ![call[t]] = value] /\ calls' = calls
    BY <1>2 DEF Leave, End
  <2>3. got[call[t]] = "no"
    BY <1>2, <2>1
  <2>4. CASE value = executed[call[t]] /\ value \in Answers /\ failed' = failed
    <3>1. got' = [got EXCEPT ![call[t]] = executed[call[t]]]
      BY <1>2, <2>1, <2>2, <2>4 DEF Types, DelegateTypes
    <3>2. executed[call[t]] # "no"
      BY <2>4 DEF Answers
    <3>3. Promised!ReturnCall(c)
      BY <1>2, <2>0, <2>2, <2>3, <3>1, <3>2 DEF Promised!ReturnCall
    <3> QED
      BY <2>0, <3>3 DEF Promised!CallNext
  <2>5. CASE failed' = failed \cup {call[t]}
    <3>1. got' = [got EXCEPT ![call[t]] = "failure"]
      BY <1>2, <2>1, <2>2, <2>5 DEF Types, DelegateTypes
    <3>2. Promised!ReturnCall(c)
      BY <1>2, <2>0, <2>2, <2>3, <3>1 DEF Promised!ReturnCall
    <3> QED
      BY <2>0, <3>2 DEF Promised!CallNext
  <2> QED
    BY <1>2, <2>4, <2>5
<1>3. ASSUME UNCHANGED <<calls, executed, returned, failed>>
      PROVE  (1 .. calls)' = 1 .. calls /\ executed' = executed /\ got' = got
  BY <1>3
<1>4. ASSUME NEW t \in Threads, Inside(t)
      PROVE  Promised!CallNext \/ UNCHANGED <<calls, executed, returned, failed>>
  <2>1. pc[t] # "out" /\ call[t] \in 1 .. calls /\ call[t] \in Calls
    BY <1>4, InsideSteps
  <2>2. CASE (connect(t) \/ beginSend(t) \/ TryAgain(t)) /\ UNCHANGED <<delegateVars, rcf, executed>>
    BY <2>2 DEF connect, beginSend, TryAgain, delegateVars
  <2> QED
    BY <1>2, <1>4, <2>1, <2>2, InsideSteps
<1>5. ASSUME NEW r \in network, NEW answer \in Answers, Serve(r, answer) PROVE Promised!CallNext
  <2>1. r.call \in Calls /\ r.call \in 1 .. calls /\ executed[r.call] = "no"
    <3>1. r.call \in Calls /\ r.call =< calls
      BY MessageFields DEF Types, StubTypeOK, Messages, Message
    <3>2. r.call \in 1 .. calls
      BY <3>1, StubAssumption DEF Types, StubTypeOK, Calls
    <3>3. executed[r.call] = "no"
      BY <1>5 DEF Message, Serve, Execute
    <3> QED
      BY <3>1, <3>2, <3>3
  <2>2. executed' = [executed EXCEPT ![r.call] = answer] /\ UNCHANGED <<calls, returned, failed>>
    BY <1>5 DEF Serve, Execute
  <2>3. Promised!ExecuteCall(r.call)
    BY <2>1, <2>2 DEF Promised!ExecuteCall
  <2> QED
    BY <2>1, <2>3 DEF Promised!CallNext
<1>6. CASE Disturb
  BY <1>6, <1>3 DEF Disturb, Refuse, Lose, Restart, history, server
<1>7. CASE UNCHANGED vars
  BY <1>7, <1>3 DEF vars, stubVars, server, history
<1>8. CASE \E t \in Threads : Inside(t)
  BY <1>3, <1>4, <1>8
<1>9. CASE Next
  BY <1>1, <1>5, <1>6, <1>8, <1>9 DEF Next
<1> QED
  BY <1>7, <1>9

\* Every behaviour of the remote calls is one that RemoteCall promises.
THEOREM CallsKeepThePromise == Spec => CallSpec
<1>1. Spec => Promised!CallInit /\ [][Promised!CallNext]_(Promised!callVars)
  BY PromisedInit, PromisedNext, CoreHolds, PTL DEF Spec
<1> QED
  BY <1>1 DEF CallSpec, Promised!CallSpec

-----------------------------------------------------------------------------
\* The order of the accepted writes.
AcceptedOnce ==
  /\ \A k \in 1 .. Len(accepted) : executed[accepted[k]] = "true"
  /\ \A k, l \in 1 .. Len(accepted) : accepted[k] = accepted[l] => k = l
  /\ \A c \in Calls : executed[c] = "true" /\ method[c] = "WriteOperationToPool"
                        => \E k \in 1 .. Len(accepted) : accepted[k] = c

Truthful == \A c \in Calls : returned[c] = "true" => executed[c] = "true"

ReturnedBefore == \A d \in Calls : \A c \in before[d] : returned[c] # "no"

BeforeInOrder ==
  \A c, d \in Calls : c \in before[d] /\ Written(c) =>
    \A k \in At(c), l \in At(d) : k < l

OrderInv == AcceptedOnce /\ Truthful /\ ReturnedBefore /\ BeforeInOrder

LEMMA OrderSuffices == CoreInv /\ OrderInv => AcceptedInOrder
<1> SUFFICES ASSUME CoreInv, OrderInv, NEW c \in Calls, Written(c)
             PROVE  \E k \in 1 .. Len(accepted) :
                      /\ At(c) = {k}
                      /\ \A d \in Calls : c \in before[d] => \A l \in At(d) : k < l
  BY DEF AcceptedInOrder
<1>1. executed[c] = "true"
  BY DEF OrderInv, Truthful, Written
<1>2. PICK k \in 1 .. Len(accepted) : accepted[k] = c
  BY <1>1 DEF OrderInv, AcceptedOnce, Written
<1>3. At(c) = {k}
  BY <1>2 DEF OrderInv, AcceptedOnce, At
<1>4. \A d \in Calls : c \in before[d] => \A l \in At(d) : k < l
  BY <1>3 DEF OrderInv, BeforeInOrder
<1> QED
  BY <1>3, <1>4

LEMMA OrderKept ==
  ASSUME OrderInv, UNCHANGED <<accepted, executed, returned, method, before>>
  PROVE  OrderInv'
BY DEF OrderInv, AcceptedOnce, Truthful, ReturnedBefore, BeforeInOrder, Written, At

LEMMA EnterOrder ==
  ASSUME CoreInv, OrderInv, NEW t \in Threads, NEW m \in Methods, Enter(t, m)
  PROVE  OrderInv'
<1> USE DEF CoreInv, CallInv, OrderInv
<1> DEFINE n == calls + 1
<1>1. /\ n \in Calls /\ executed[n] = "no" /\ returned[n] = "no"
      /\ UNCHANGED <<accepted, executed, returned>>
      /\ method' = [method EXCEPT ![n] = m]
      /\ before' = [before EXCEPT ![n] = {c \in 1 .. calls : returned[c] # "no"}]
  BY StubAssumption DEF Types, StubTypeOK, Enter, Call, server, NotMade, Calls
<1> HIDE DEF n
<1>2. \A c \in Calls : c # n => method'[c] = method[c] /\ before'[c] = before[c]
  BY <1>1 DEF Types, DelegateTypes
<1>3. \A c \in before'[n] : returned[c] # "no"
  BY <1>1 DEF Types, DelegateTypes
<1>4. At(n) = {}
  BY <1>1 DEF AcceptedOnce, At
<1>5. \A c \in Calls : At(c)' = At(c)
  BY <1>1 DEF At
<1>6. AcceptedOnce'
  BY <1>1, <1>2 DEF AcceptedOnce
<1>7. Truthful' /\ ReturnedBefore'
  BY <1>1, <1>2, <1>3 DEF Truthful, ReturnedBefore
<1>8. \A c \in Calls : Written(c)' => c # n /\ Written(c)
  BY <1>1, <1>2 DEF Written
<1>9. BeforeInOrder'
  BY <1>2, <1>4, <1>5, <1>8 DEF BeforeInOrder
<1> QED
  BY <1>6, <1>7, <1>9

LEMMA LeaveOrder ==
  ASSUME CoreInv, OrderInv, NEW t \in Threads, NEW value, End(t, value), pc[t] # "out",
         call[t] \in Calls, executed' = executed, value # "no", value = "true" => executed[call[t]] = "true"
  PROVE  OrderInv'
<1> USE DEF CoreInv, CallInv, OrderInv
<1>1. /\ returned[call[t]] = "no" /\ UNCHANGED <<accepted, method, before>>
      /\ returned' = [returned EXCEPT ![call[t]] = value]
  BY DEF CallAt, End
<1>2. returned'[call[t]] = value /\ \A c \in Calls : c # call[t] => returned'[c] = returned[c]
  BY <1>1 DEF Types, DelegateTypes
<1>3. AcceptedOnce'
  BY <1>1 DEF AcceptedOnce
<1>4. Truthful'
  BY <1>2 DEF Truthful
<1>5. \A d \in Calls : \A c \in before[d] : c \in Calls /\ c # call[t]
  BY <1>1 DEF ReturnedBefore, Types, DelegateTypes
<1>6. ReturnedBefore'
  BY <1>1, <1>2, <1>5 DEF ReturnedBefore
<1>7. BeforeInOrder'
  BY <1>1, <1>2, <1>5 DEF BeforeInOrder, Written, At
<1> QED
  BY <1>3, <1>4, <1>6, <1>7

LEMMA ServeOrder ==
  ASSUME CoreInv, OrderInv, NEW r \in network, NEW answer \in Answers, Serve(r, answer)
  PROVE  OrderInv'
<1> USE DEF CoreInv, CallInv, OrderInv
<1> DEFINE x == r.call
<1>1. x \in Calls /\ executed[x] = "no"
  BY MessageFields DEF Types, StubTypeOK, Messages, Message, Serve, Execute
<1>2. /\ UNCHANGED <<method, returned, before>>
      /\ executed' = [executed EXCEPT ![x] = answer]
      /\ accepted' = IF method[x] = "WriteOperationToPool" /\ answer = "true"
                     THEN Append(accepted, x) ELSE accepted
  BY DEF Serve, Execute
<1> HIDE DEF x
<1>3. executed'[x] = answer /\ \A c \in Calls : c # x => executed'[c] = executed[c]
  BY <1>1, <1>2 DEF Types, StubTypeOK
<1>4. accepted \in Seq(Calls) /\ Len(accepted) \in Nat
      /\ \A k \in 1 .. Len(accepted) : accepted[k] \in Calls /\ accepted[k] # x
  BY <1>1 DEF Types, DelegateTypes, AcceptedOnce
<1>5. Truthful'
  BY <1>1, <1>2, <1>3 DEF Truthful
<1>6. ReturnedBefore'
  BY <1>2 DEF ReturnedBefore
<1>7. \A c \in Calls : Written(c)' => c # x /\ Written(c)
  BY <1>1, <1>2 DEF Truthful, Written
<1>8. CASE method[x] = "WriteOperationToPool" /\ answer = "true"
  <2>1. /\ Len(accepted') = Len(accepted) + 1 /\ accepted'[Len(accepted) + 1] = x
        /\ \A k \in 1 .. Len(accepted) : accepted'[k] = accepted[k]
    BY <1>1, <1>2, <1>4, <1>8
  <2>2. \A k \in 1 .. Len(accepted') : k = Len(accepted) + 1 \/ k \in 1 .. Len(accepted)
    BY <1>4, <2>1
  <2>3. \A k \in 1 .. Len(accepted) : k \in 1 .. Len(accepted')
    BY <1>4, <2>1
  <2>4. Len(accepted) + 1 \in 1 .. Len(accepted')
    BY <1>4, <2>1
  <2>5. \A k \in 1 .. Len(accepted') : executed'[accepted'[k]] = "true"
    BY <1>3, <1>4, <1>8, <2>1, <2>2 DEF AcceptedOnce
  <2>6. \A k, l \in 1 .. Len(accepted') : accepted'[k] = accepted'[l] => k = l
    BY <1>4, <2>1, <2>2 DEF AcceptedOnce
  <2>7. \A c \in Calls : executed'[c] = "true" /\ method'[c] = "WriteOperationToPool"
                           => \E k \in 1 .. Len(accepted') : accepted'[k] = c
    <3> SUFFICES ASSUME NEW c \in Calls, executed'[c] = "true", method[c] = "WriteOperationToPool"
                 PROVE  \E k \in 1 .. Len(accepted') : accepted'[k] = c
      BY <1>2
    <3>1. CASE c = x
      BY <2>1, <2>4, <3>1
    <3>2. CASE c # x
      BY <1>3, <2>1, <2>3, <3>2 DEF AcceptedOnce
    <3> QED
      BY <3>1, <3>2
  <2>8. \A c \in Calls : c # x => At(c)' = At(c)
    BY <2>1, <2>2, <2>3 DEF At
  <2>9. At(x)' = {Len(accepted) + 1} /\ At(x) = {}
    BY <1>4, <2>1, <2>2, <2>4 DEF At
  <2>10. BeforeInOrder'
    <3> SUFFICES ASSUME NEW c \in Calls, NEW d \in Calls, c \in before[d], Written(c)',
                        NEW k \in At(c)', NEW l \in At(d)'
                 PROVE  k < l
      BY <1>2 DEF BeforeInOrder
    <3>1. c # x /\ Written(c) /\ k \in At(c) /\ k \in 1 .. Len(accepted)
      BY <1>7, <2>8 DEF At
    <3>2. CASE d = x
      BY <1>4, <2>9, <3>1, <3>2
    <3>3. CASE d # x
      BY <2>8, <3>1, <3>3 DEF BeforeInOrder
    <3> QED
      BY <3>2, <3>3
  <2> QED
    BY <1>5, <1>6, <2>5, <2>6, <2>7, <2>10 DEF AcceptedOnce
<1>9. CASE ~(method[x] = "WriteOperationToPool" /\ answer = "true")
  <2>1. accepted' = accepted /\ \A c \in Calls : At(c)' = At(c)
    BY <1>2, <1>9 DEF At
  <2>2. AcceptedOnce'
    BY <1>2, <1>3, <1>4, <1>9, <2>1 DEF AcceptedOnce
  <2>3. BeforeInOrder'
    BY <1>2, <1>7, <2>1 DEF BeforeInOrder
  <2> QED
    BY <1>5, <1>6, <2>2, <2>3
<1> QED
  BY <1>8, <1>9

LEMMA NextOrder == CoreInv /\ OrderInv /\ [Next]_vars => OrderInv'
<1> SUFFICES ASSUME CoreInv, OrderInv, [Next]_vars PROVE OrderInv'
  OBVIOUS
<1>1. ASSUME NEW t \in Threads, Inside(t) PROVE OrderInv'
  <2>1. pc[t] # "out" /\ call[t] \in Calls
    BY <1>1, InsideSteps
  <2>2. CASE (connect(t) \/ beginSend(t) \/ TryAgain(t)) /\ UNCHANGED <<delegateVars, rcf, executed>>
    BY <2>2, OrderKept DEF delegateVars
  <2>3. ASSUME executed' = executed, NEW value \in Answers, value = executed[call[t]], End(t, value)
        PROVE  OrderInv'
    <3>1. value # "no"
      BY DEF Answers
    <3> QED
      BY <2>1, <2>3, <3>1, LeaveOrder
  <2>4. ASSUME executed' = executed, NEW value \in {"false", "exception"}, End(t, value)
        PROVE  OrderInv'
    BY <2>1, <2>4, LeaveOrder
  <2> QED
    BY <1>1, <2>2, <2>3, <2>4, InsideSteps
<1>2. CASE Disturb
  BY <1>2, OrderKept DEF Disturb, Refuse, Lose, Restart, history, server
<1>3. CASE UNCHANGED vars
  BY <1>3, OrderKept DEF vars, stubVars, server, history
<1> QED
  BY <1>1, <1>2, <1>3, EnterOrder, ServeOrder DEF Next

\* A write that returned true was accepted once, and before every write that
\* was started after it returned (WriteOperationToPool, whatever RCF had to do).
THEOREM WritesInOrder == Spec => []AcceptedInOrder
<1>1. Init => OrderInv
  BY DEF Init, StubInit, OrderInv, AcceptedOnce, Truthful, ReturnedBefore, BeforeInOrder, Written
<1> QED
  BY <1>1, OrderSuffices, NextOrder, CoreHolds, PTL DEF Spec

-----------------------------------------------------------------------------
(***************************************************************************)
(* What CallsEnd rests on: every call is in the hands of a thread until it *)
(* has returned, and that thread has at most six steps to go.              *)
(***************************************************************************)
CallsInHand ==
  \A c \in 1 .. calls : returned[c] # "no" \/ \E t \in Threads : pc[t] # "out" /\ call[t] = c

\* To connect, to send and to receive, and all of it once more while the server
\* may still refuse the version.
ToGo(place) == CASE place = "connecting" -> 3 [] place = "sending" -> 2 [] OTHER -> 1
StepsLeft(t) ==
  IF pc[t] = "out" THEN 0 ELSE ToGo(pc[t]) + (IF mTries[t] = 0 THEN 3 ELSE 0)

NearerItsEnd ==
  [][\A t \in Threads :
       /\ StepsLeft(t) \in 0 .. 6
       /\ Inside(t) => StepsLeft(t)' < StepsLeft(t)
       /\ pc[t] # "out" /\ ~Inside(t) => StepsLeft(t)' = StepsLeft(t)]_vars

\* Every call that was made has returned or is the call of a thread inside it.
THEOREM CallsAreInHand == Spec => []CallsInHand
<1>1. Init => CallsInHand
  BY DEF Init, StubInit, CallsInHand
<1>2. ASSUME CoreInv, CallsInHand, [Next]_vars PROVE CallsInHand'
  <2>1. /\ calls \in Nat /\ Calls \subseteq Nat /\ 1 .. calls \subseteq Calls
        /\ call \in [Threads -> 0 .. calls] /\ pc \in [Threads -> {"out", "connecting", "sending", "receiving"}]
        /\ returned \in [Calls -> Outcomes]
    BY <1>2, StubAssumption DEF CoreInv, Types, StubTypeOK, DelegateTypes, Calls
  <2>2. CASE UNCHANGED <<calls, call, returned>> /\ \A t \in Threads : pc[t] # "out" => pc'[t] # "out"
    BY <1>2, <2>2 DEF CallsInHand
  <2>3. ASSUME NEW t \in Threads, NEW m \in Methods, Enter(t, m) PROVE CallsInHand'
    <3>1. /\ pc[t] = "out" /\ calls' = calls + 1 /\ call' = [call EXCEPT ![t] = calls + 1]
          /\ pc' = [pc EXCEPT ![t] = "connecting"] /\ returned' = returned
      BY <2>3 DEF Enter, Call
    <3>2. \A c \in 1 .. calls' : c \in 1 .. calls \/ c = calls + 1
      BY <2>1, <3>1
    <3>3. pc'[t] # "out" /\ call'[t] = calls + 1
      BY <2>1, <3>1
    <3>4. \A u \in Threads : pc[u] # "out" => pc'[u] # "out" /\ call'[u] = call[u]
      BY <2>1, <3>1
    <3> QED
      BY <1>2, <3>1, <3>2, <3>3, <3>4 DEF CallsInHand
  <2>4. ASSUME NEW t \in Threads, Inside(t) PROVE CallsInHand'
    <3>1. pc[t] # "out" /\ call[t] \in Calls
      BY <1>2, <2>4, InsideSteps
    <3>2. CASE (connect(t) \/ beginSend(t) \/ TryAgain(t)) /\ UNCHANGED delegateVars
      <4>1. UNCHANGED <<calls, call, returned>> /\ \A u \in Threads : pc[u] # "out" => pc'[u] # "out"
        BY <2>1, <3>2 DEF connect, beginSend, TryAgain, delegateVars
      <4> QED
        BY <2>2, <4>1
    <3>3. ASSUME NEW value \in Answers, Leave(t), End(t, value) PROVE CallsInHand'
      <4>1. /\ pc' = [pc EXCEPT ![t] = "out"] /\ call' = [call EXCEPT ![t] = Idle] /\ calls' = calls
            /\ returned' = [returned EXCEPT ![call[t]] = value] /\ value # "no"
        BY <3>3 DEF Leave, End, Answers
      <4>2. returned'[call[t]] # "no" /\ \A c \in Calls : returned[c] # "no" => returned'[c] # "no"
        BY <2>1, <3>1, <4>1
      <4>3. \A u \in Threads : u # t => pc'[u] = pc[u] /\ call'[u] = call[u]
        BY <2>1, <4>1
      <4> QED
        BY <1>2, <2>1, <4>1, <4>2, <4>3 DEF CallsInHand
    <3>4. {"false", "exception"} \subseteq Answers
      BY DEF Answers
    <3> QED
      BY <1>2, <2>4, <3>2, <3>3, <3>4, InsideSteps
  <2>5. CASE Disturb \/ (\E r \in network, answer \in Answers : Serve(r, answer)) \/ UNCHANGED vars
    <3>1. UNCHANGED <<calls, call, returned, pc>>
      BY <2>5 DEF Disturb, Refuse, Lose, Restart, Serve, Execute, vars, stubVars
    <3> QED
      BY <2>2, <3>1
  <2> QED
    BY <1>2, <2>3, <2>4, <2>5 DEF Next
<1> QED
  BY <1>1, <1>2, CoreHolds, PTL DEF Spec

\* Each step of a thread in a call brings the call nearer its end, and nothing
\* that another thread or a server does sets it back: with a thread that keeps
\* running, that is why every call returns.
THEOREM CallsComeNearer == Spec => NearerItsEnd
<1>1. ASSUME CoreInv, Next, NEW t \in Threads
      PROVE  /\ StepsLeft(t) \in 0 .. 6
             /\ Inside(t) => StepsLeft(t)' < StepsLeft(t)
             /\ pc[t] # "out" /\ ~Inside(t) => StepsLeft(t)' = StepsLeft(t)
  <2>1. /\ pc \in [Threads -> {"out", "connecting", "sending", "receiving"}]
        /\ mTries \in [Threads -> {0, 1}]
    BY <1>1 DEF CoreInv, Types, StubTypeOK
  <2>2. StepsLeft(t) \in 0 .. 6 /\ (pc[t] # "out" => StepsLeft(t) > 0)
    BY <2>1 DEF StepsLeft, ToGo
  <2>3. ASSUME Inside(t) PROVE StepsLeft(t)' < StepsLeft(t)
    <3>1. CASE Leave(t)
      <4>1. pc'[t] = "out" /\ pc[t] # "out"
        BY <1>1, <2>1, <2>3, <3>1, InsideSteps DEF Leave
      <4>2. StepsLeft(t)' = 0
        BY <4>1 DEF StepsLeft
      <4> QED
        BY <2>2, <4>1, <4>2
    <3>2. CASE connect(t)
      BY <2>1, <3>2 DEF connect, StepsLeft, ToGo
    <3>3. CASE beginSend(t)
      BY <2>1, <3>3 DEF beginSend, client, StepsLeft, ToGo
    <3>4. CASE TryAgain(t)
      BY <2>1, <3>4 DEF TryAgain, MayTryAgain, StepsLeft, ToGo
    <3> QED
      BY <1>1, <2>3, <3>1, <3>2, <3>3, <3>4, InsideSteps
  <2>4. ASSUME pc[t] # "out", ~Inside(t) PROVE StepsLeft(t)' = StepsLeft(t)
    <3> SUFFICES pc'[t] = pc[t] /\ mTries'[t] = mTries[t]
      BY DEF StepsLeft
    <3>1. ASSUME NEW u \in Threads, Inside(u) PROVE pc'[t] = pc[t] /\ mTries'[t] = mTries[t]
      <4>1. u # t
        BY <2>4, <3>1
      <4> QED
        BY <1>1, <2>1, <3>1, <4>1, InsideSteps DEF Leave, connect, beginSend, TryAgain, client
    <3>2. ASSUME NEW u \in Threads, NEW m \in Methods, Enter(u, m)
          PROVE  pc'[t] = pc[t] /\ mTries'[t] = mTries[t]
      BY <2>1, <2>4, <3>2 DEF Enter, Call, client
    <3>3. CASE Disturb \/ \E r \in network, answer \in Answers : Serve(r, answer)
      BY <3>3 DEF Disturb, Refuse, Lose, Restart, Serve, Execute, client
    <3> QED
      BY <1>1, <3>1, <3>2, <3>3 DEF Next
  <2> QED
    BY <2>2, <2>3, <2>4
<1>2. CoreInv /\ [Next]_vars =>
        [\A t \in Threads :
           /\ StepsLeft(t) \in 0 .. 6
           /\ Inside(t) => StepsLeft(t)' < StepsLeft(t)
           /\ pc[t] # "out" /\ ~Inside(t) => StepsLeft(t)' = StepsLeft(t)]_vars
  BY <1>1
<1> QED
  BY <1>2, CoreHolds, PTL DEF Spec, NearerItsEnd
=============================================================================
