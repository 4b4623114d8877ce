----------------------------- MODULE ClientStub -----------------------------
(***************************************************************************)
(* RCF's ClientStub and the server's session: one synchronous twoway call  *)
(* per client, on a connection of its own.                                 *)
(*                                                                         *)
(*   connecting   ClientStub::connect, unless the connection still stands  *)
(*   sending      beginSend                                                *)
(*   receiving    beginReceive, until onReceiveCompleted or a time out     *)
(*                                                                         *)
(* A server that is older than the client does not execute the request: it *)
(* answers with its own version, and the client sends the request again in *)
(* that version, once per call.  The archive version is handled like the   *)
(* runtime version and not distinguished from it.                          *)
(*                                                                         *)
(* The server may be stopped and started again, also with another version: *)
(* connections and what is on them are gone.                               *)
(***************************************************************************)
EXTENDS Integers, Sequences

CONSTANTS Threads,
          MaxCalls,         \* bound on the calls
          ClientVersion,    \* the runtime version of the client library
          ServerVersions    \* those of the servers that may be running

Calls == 1 .. MaxCalls
Idle == 0

ASSUME StubAssumption ==
  /\ MaxCalls \in Nat
  /\ ClientVersion \in Nat /\ ServerVersions \subseteq Nat

VARIABLES calls,             \* the number of calls made
          call,              \* the number of the call each thread is in, or Idle
          pc,                \* where the thread is in it
          mRuntimeVersion,   \* of the thread's client
          mTries,
          connected,         \* the client's connection stands
          network,           \* the messages on the connections
          serverVersion,     \* of the server that runs now
          executed           \* the server's answer to each call, or "no"

client == <<mRuntimeVersion, mTries, connected>>
server == <<serverVersion, executed>>
stubVars == <<calls, call, pc, client, network, server>>

Request(c, v) == [kind |-> "request", call |-> c, version |-> v]
Mismatch(c, v) == [kind |-> "mismatch", call |-> c, version |-> v]
Reply(c, a) == [kind |-> "reply", call |-> c, answer |-> a]

\* What a method of the server may do: return, or throw.
Answers == {"true", "false", "exception"}

StubInit ==
  /\ calls = 0
  /\ call = [t \in Threads |-> Idle] /\ pc = [t \in Threads |-> "out"]
  /\ mRuntimeVersion = [t \in Threads |-> ClientVersion]
  /\ mTries = [t \in Threads |-> 0]
  /\ connected = [t \in Threads |-> FALSE]
  /\ network = {}
  /\ serverVersion \in ServerVersions
  /\ executed = [c \in Calls |-> "no"]

-----------------------------------------------------------------------------
\* A client as Leave left it, that is a new one, is called: callSync, beginCall.
Call(t) ==
  /\ pc[t] = "out" /\ calls < MaxCalls
  /\ calls' = calls + 1
  /\ call' = [call EXCEPT ![t] = calls + 1]
  /\ pc' = [pc EXCEPT ![t] = "connecting"]
  /\ UNCHANGED <<client, network, server>>

\* A connection that stands is used, else a new one is made.
connect(t) ==
  /\ pc[t] = "connecting"
  /\ connected' = [connected EXCEPT ![t] = TRUE]
  /\ pc' = [pc EXCEPT ![t] = "sending"]
  /\ UNCHANGED <<calls, call, mRuntimeVersion, mTries, network, server>>

\* A write to a connection the server has closed may go unnoticed.
beginSend(t) ==
  /\ pc[t] = "sending"
  /\ network' = IF connected[t]
                THEN network \cup {Request(call[t], mRuntimeVersion[t])} ELSE network
  /\ pc' = [pc EXCEPT ![t] = "receiving"]
  /\ UNCHANGED <<calls, call, client, server>>

\* Mutant of MayTryAgain: a client sends again whatever it gets.
AlwaysTryAgain(t, r) == TRUE
\* A server's refusal, to the first try of a call.
MayTryAgain(t, r) == r.kind = "mismatch" /\ mTries[t] = 0

\* onReceiveCompleted of a version mismatch: the request again, as a server of
\* that version takes it; the time out starts over.
TryAgain(t) ==
  /\ pc[t] = "receiving"
  /\ \E r \in network :
       /\ r.call = call[t] /\ r.kind # "request" /\ MayTryAgain(t, r)
       /\ network' = network \ {r}
       /\ mRuntimeVersion' =
            [mRuntimeVersion EXCEPT ![t] = IF r.kind = "mismatch" THEN r.version ELSE @]
  /\ mTries' = [mTries EXCEPT ![t] = 1]
  /\ pc' = [pc EXCEPT ![t] = "connecting"]
  /\ UNCHANGED <<calls, call, connected, server>>

\* The call returns or throws; the client disconnects and is destroyed.
Leave(t) ==
  /\ call' = [call EXCEPT ![t] = Idle]
  /\ pc' = [pc EXCEPT ![t] = "out"]
  /\ mRuntimeVersion' = [mRuntimeVersion EXCEPT ![t] = ClientVersion]
  /\ mTries' = [mTries EXCEPT ![t] = 0]
  /\ connected' = [connected EXCEPT ![t] = FALSE]
  /\ UNCHANGED <<calls, server>>

\* onReceiveCompleted of the server's answer r.
Answered(t, r) ==
  /\ pc[t] = "receiving"
  /\ r \in network /\ r.kind = "reply" /\ r.call = call[t]
  /\ network' = network \ {r}
  /\ Leave(t)

\* Mutant of InTime: no time out while the answer is awaited.
WaitForEver(t) == pc[t] \in {"connecting", "sending"}
\* Connecting has a time out, and so have sending and receiving.
InTime(t) == pc[t] \in {"connecting", "sending", "receiving"}

\* A time out, a lost connection, a second mismatch, or an answer that is too
\* long or cannot be read: an exception.
Failed(t) ==
  /\ InTime(t)
  /\ Leave(t)
  /\ UNCHANGED network

-----------------------------------------------------------------------------
TooNew(r) == r.version > serverVersion

\* onReadCompleted: a request of a newer version is refused ...
Refuse(r) ==
  /\ r \in network /\ r.kind = "request" /\ TooNew(r)
  /\ network' = (network \ {r}) \cup {Mismatch(r.call, serverVersion)}
  /\ UNCHANGED <<calls, call, pc, client, server>>

\* ... any other one executed and answered.
Execute(r, answer) ==
  /\ r \in network /\ r.kind = "request" /\ ~TooNew(r)
  /\ executed' = [executed EXCEPT ![r.call] = answer]
  /\ network' = (network \ {r}) \cup {Reply(r.call, answer)}
  /\ UNCHANGED <<calls, call, pc, client, serverVersion>>

\* A message is lost with its connection.
Lose(r) ==
  /\ network' = network \ {r}
  /\ UNCHANGED <<calls, call, pc, client, server>>

\* The server stops, and one of version v is started in its place.
Restart(v) ==
  /\ v \in ServerVersions
  /\ serverVersion' = v
  /\ network' = {}
  /\ connected' = [t \in Threads |-> FALSE]
  /\ UNCHANGED <<calls, call, pc, mRuntimeVersion, mTries, executed>>

-----------------------------------------------------------------------------
Requests == [kind : {"request"}, call : Calls, version : Nat]
Mismatches == [kind : {"mismatch"}, call : Calls, version : Nat]
Replies == [kind : {"reply"}, call : Calls, answer : Answers]

\* Every variable stays in its range.
StubTypeOK ==
  /\ calls \in 0 .. MaxCalls
  /\ call \in [Threads -> 0 .. calls]
  /\ pc \in [Threads -> {"out", "connecting", "sending", "receiving"}]
  /\ mRuntimeVersion \in [Threads -> Nat]
  /\ mTries \in [Threads -> {0, 1}]
  /\ connected \in [Threads -> BOOLEAN]
  /\ network \subseteq Requests \cup Mismatches \cup Replies
  /\ serverVersion \in Nat
  /\ executed \in [Calls -> Answers \cup {"no"}]
=============================================================================
