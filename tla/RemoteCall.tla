------------------------------ MODULE RemoteCall ------------------------------
(***************************************************************************)
(* What the remote shell promises its users: a line is a remote call.  A   *)
(* client has one call outstanding at most, the call is executed at most   *)
(* once, only while the client is being served, and a client that gets its *)
(* prompt back knows that its call was executed, once.  One client is      *)
(* served at a time.                                                       *)
(***************************************************************************)
EXTENDS Naturals

CONSTANTS Clients, NoClient

VARIABLES
  phase,    \* "away", "idle", "calling" or "left"
  asked,    \* calls the client made
  ran,      \* calls the server executed for it
  serving   \* the client being served

vars == <<phase, asked, ran, serving>>

Init ==
  /\ phase = [c \in Clients |-> "away"]
  /\ asked = [c \in Clients |-> 0]
  /\ ran = [c \in Clients |-> 0]
  /\ serving = NoClient

Join(c) ==
  /\ phase[c] = "away"
  /\ phase' = [phase EXCEPT ![c] = "idle"]
  /\ UNCHANGED <<asked, ran, serving>>

\* A call can be lost: the client then leaves without it.
Call(c) ==
  /\ phase[c] = "idle"
  /\ ran[c] = asked[c]
  /\ \E next \in {"calling", "left"} : phase' = [phase EXCEPT ![c] = next]
  /\ asked' = [asked EXCEPT ![c] = @ + 1]
  /\ UNCHANGED <<ran, serving>>

\* The client may be gone by the time its call is executed.
Execute(c) ==
  /\ serving = c
  /\ phase[c] \in {"calling", "left"}
  /\ ran[c] + 1 = asked[c]
  /\ ran' = [ran EXCEPT ![c] = @ + 1]
  /\ UNCHANGED <<phase, asked, serving>>

Return(c) ==
  /\ phase[c] = "calling"
  /\ ran[c] = asked[c]
  /\ phase' = [phase EXCEPT ![c] = "idle"]
  /\ UNCHANGED <<asked, ran, serving>>

Leave(c) ==
  /\ phase[c] # "left"
  /\ phase' = [phase EXCEPT ![c] = "left"]
  /\ UNCHANGED <<asked, ran, serving>>

Serve(c) ==
  /\ serving = NoClient
  /\ phase[c] # "away"
  /\ serving' = c
  /\ UNCHANGED <<phase, asked, ran>>

Release ==
  /\ serving # NoClient
  /\ serving' = NoClient
  /\ UNCHANGED <<phase, asked, ran>>

Next ==
  \/ Release
  \/ \E c \in Clients : Join(c) \/ Call(c) \/ Execute(c) \/ Return(c)
                          \/ Leave(c) \/ Serve(c)

Spec == Init /\ [][Next]_vars
=============================================================================
