-------------------------- MODULE ConversationLife --------------------------
(***************************************************************************)
(* What the router promises its subscribers of a session: at any time at   *)
(* most one of its conversations is registered, each is so at most once,   *)
(* and the end of one is told only after it has left, and only once.       *)
(***************************************************************************)
EXTENDS Naturals

CONSTANT Convs

VARIABLES
  phase,  \* of each conversation: "new", "live" (registered) or "left"
  ends    \* how often its end was told

vars == <<phase, ends>>

Init == phase = [c \in Convs |-> "new"] /\ ends = [c \in Convs |-> 0]

\* The session begins with its first conversation.
Register(c) ==
  /\ \A d \in Convs : phase[d] = "new"
  /\ phase' = [phase EXCEPT ![c] = "live"]
  /\ UNCHANGED ends

\* A restart rolls it to another, in one step.
Replace(c, d) ==
  /\ phase[c] = "live" /\ phase[d] = "new"
  /\ phase' = [phase EXCEPT ![c] = "left", ![d] = "live"]
  /\ UNCHANGED ends

Leave(c) ==
  /\ phase[c] = "live"
  /\ phase' = [phase EXCEPT ![c] = "left"]
  /\ UNCHANGED ends

Tell(c) ==
  /\ phase[c] = "left" /\ ends[c] = 0
  /\ ends' = [ends EXCEPT ![c] = 1]
  /\ UNCHANGED phase

Next ==
  \E c \in Convs :
    \/ Register(c) \/ Leave(c) \/ Tell(c)
    \/ \E d \in Convs : Replace(c, d)

Spec == Init /\ [][Next]_vars
=============================================================================
