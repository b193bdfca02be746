----------------------------- MODULE GameSession -----------------------------
(***************************************************************************)
(* What the registry of game handles promises the game service: a session  *)
(* is granted a number of calls, makes them one at a time, and lets none   *)
(* in once it is closed.  Sessions close for many reasons, several at once *)
(* among them, and at any time, a call let in or in progress or not.       *)
(***************************************************************************)
EXTENDS Naturals

CONSTANTS Games, MaxCalls

VARIABLES
    state,   \* of each session
    left,    \* calls it may still make
    phase    \* has it let a call in, or one in progress?

vars == <<state, left, phase>>

TypeOK ==
    /\ state \in [Games -> {"none", "open", "closed"}]
    /\ left \in [Games -> 0..MaxCalls]
    /\ phase \in [Games -> {"quiet", "admitted", "calling"}]

Init ==
    /\ state = [g \in Games |-> "none"]
    /\ left = [g \in Games |-> 0]
    /\ phase = [g \in Games |-> "quiet"]

\* The sessions of D that are open are closed.
Closing(D) == [g \in Games |-> IF g \in D /\ state[g] = "open" THEN "closed" ELSE state[g]]

\* A new session takes the place of the sessions of D.
Grant(g, D) ==
    /\ state[g] = "none"
    /\ state' = [Closing(D) EXCEPT ![g] = "open"]
    /\ left' = [left EXCEPT ![g] = MaxCalls]
    /\ UNCHANGED phase

\* Only an open session lets a call in.
Admit(g) ==
    /\ state[g] = "open" /\ phase[g] = "quiet"
    /\ phase' = [phase EXCEPT ![g] = "admitted"]
    /\ UNCHANGED <<state, left>>

\* The call let in is made, even if the session has been closed since.
Call(g) ==
    /\ phase[g] = "admitted" /\ left[g] > 0
    /\ left' = [left EXCEPT ![g] = @ - 1]
    /\ phase' = [phase EXCEPT ![g] = "calling"]
    /\ UNCHANGED state

\* Or it is one too many, and the session is closed.
Refuse(g) ==
    /\ phase[g] = "admitted" /\ left[g] = 0
    /\ phase' = [phase EXCEPT ![g] = "quiet"]
    /\ state' = Closing({g})
    /\ UNCHANGED left

\* The call has its answer, which may be the session's last.
Answer(g, D) ==
    /\ phase[g] = "calling" /\ D \subseteq {g}
    /\ phase' = [phase EXCEPT ![g] = "quiet"]
    /\ state' = Closing(D)
    /\ UNCHANGED left

Shut(D) ==
    /\ state' = Closing(D)
    /\ UNCHANGED <<left, phase>>

Next ==
    \/ \E D \in SUBSET Games :
          \/ Shut(D)
          \/ \E g \in Games : Grant(g, D) \/ Answer(g, D)
    \/ \E g \in Games : Admit(g) \/ Call(g) \/ Refuse(g)

Spec == Init /\ [][Next]_vars
=============================================================================
