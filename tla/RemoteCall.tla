----------------------------- MODULE RemoteCall -----------------------------
(***************************************************************************)
(* What a remote call promises its caller: the server executes it at most  *)
(* once, and the caller gets the server's answer, after the execution, or  *)
(* is told that there was a failure, which says nothing about the          *)
(* execution.  Calls are numbered; every call returns at most once.        *)
(***************************************************************************)
EXTENDS Integers

CONSTANTS Calls,    \* the numbers of the calls
          Answers   \* what a server answers

VARIABLES started,    \* the calls made
          executed,   \* executed[c]: the server's answer, or "no"
          returned    \* returned[c]: what the caller got, "failure" or "no"

callVars == <<started, executed, returned>>

CallInit ==
  /\ started = {}
  /\ executed = [c \in Calls |-> "no"]
  /\ returned = [c \in Calls |-> "no"]

StartCall(c) ==
  /\ c \notin started
  /\ started' = started \cup {c}
  /\ UNCHANGED <<executed, returned>>

ExecuteCall(c) ==
  /\ c \in started /\ executed[c] = "no"
  /\ \E a \in Answers : executed' = [executed EXCEPT ![c] = a]
  /\ UNCHANGED <<started, returned>>

ReturnCall(c) ==
  /\ c \in started /\ returned[c] = "no"
  /\ \/ executed[c] # "no" /\ returned' = [returned EXCEPT ![c] = executed[c]]
     \/ returned' = [returned EXCEPT ![c] = "failure"]
  /\ UNCHANGED <<started, executed>>

CallNext == \E c \in Calls : StartCall(c) \/ ExecuteCall(c) \/ ReturnCall(c)

CallSpec == CallInit /\ [][CallNext]_callVars
=============================================================================
