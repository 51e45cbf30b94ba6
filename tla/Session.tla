------------------------------ MODULE Session ------------------------------
(***************************************************************************)
(* What the chat server promises its users: a client joins once and leaves *)
(* once, logs in under a name that nobody else has, and is logged in until *)
(* he logs out or leaves.  A login and a logout are one step each, and no  *)
(* step of one client changes another's session.                           *)
(***************************************************************************)
EXTENDS Naturals

CONSTANTS Clients, Names,
          NoName          \* the name of who is not logged in

VARIABLES
    here, left,  \* the clients there are, and those that have been
    user         \* the name each of them is logged in under

sessionVars == <<here, left, user>>

SessionInit == here = {} /\ left = {} /\ user = [c \in Clients |-> NoName]

Join(c) ==
    /\ c \notin here \union left
    /\ here' = here \union {c}
    /\ UNCHANGED <<left, user>>

Login(c, n) ==
    /\ c \in here /\ user[c] = NoName
    /\ \A d \in here : user[d] # n
    /\ user' = [user EXCEPT ![c] = n]
    /\ UNCHANGED <<here, left>>

Logout(c) ==
    /\ c \in here /\ user[c] # NoName
    /\ user' = [user EXCEPT ![c] = NoName]
    /\ UNCHANGED <<here, left>>

(* The name is free again *)
Depart(c) ==
    /\ c \in here
    /\ here' = here \ {c} /\ left' = left \union {c}
    /\ user' = [user EXCEPT ![c] = NoName]

SessionStep == \E c \in Clients : Join(c) \/ Logout(c) \/ Depart(c) \/ \E n \in Names : Login(c, n)

SessionSpec == SessionInit /\ [][SessionStep]_sessionVars
============================================================================
