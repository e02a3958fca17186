---------------------------- MODULE RequestServer ---------------------------
(***************************************************************************)
(* What the server promises a client: each command it sends is carried out *)
(* once, after it was sent, and answered once, after it was carried out,   *)
(* to the client that sent it.  Commands of different clients are carried  *)
(* out in any order.                                                       *)
(***************************************************************************)
EXTENDS Naturals

CONSTANT Clients

VARIABLES
    asked,      \* commands the client has sent
    done,       \* commands the server has carried out for it
    answered    \* answers it has received

serverVars == <<asked, done, answered>>

Init ==
    /\ asked = [c \in Clients |-> 0]
    /\ done = asked
    /\ answered = asked

\* A client waits for the answer to one command before it sends the next.
Ask(c) ==
    /\ answered[c] = asked[c]
    /\ asked' = [asked EXCEPT ![c] = @ + 1]
    /\ UNCHANGED <<done, answered>>

CarryOut(c) ==
    /\ done[c] < asked[c]
    /\ done' = [done EXCEPT ![c] = @ + 1]
    /\ UNCHANGED <<asked, answered>>

Answer(c) ==
    /\ answered[c] < done[c]
    /\ answered' = [answered EXCEPT ![c] = @ + 1]
    /\ UNCHANGED <<asked, done>>

Next == \E c \in Clients : Ask(c) \/ CarryOut(c) \/ Answer(c)

Fairness == \A c \in Clients : WF_serverVars(CarryOut(c)) /\ WF_serverVars(Answer(c))

Spec == Init /\ [][Next]_serverVars /\ Fairness
=============================================================================
