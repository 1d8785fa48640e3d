------------------------------ MODULE Handoff ------------------------------
(***************************************************************************)
(* What the NCCL transport promises of every transfer, without messages,    *)
(* locks or store keys: tensors are held, one commit point joins a waiting  *)
(* reader to held tensors, at most one committed transfer occupies the      *)
(* communicator, and a reader gets the tensors only out of a commitment.    *)
(***************************************************************************)
CONSTANTS Transfers

VARIABLES
  hold,   \* the tensors: "unborn", "held", "committed", "sent", "gone"
  ask     \* the reader: "none", "asking", "got", "raised"

vars == <<hold, ask>>

Init ==
  /\ hold = [t \in Transfers |-> "unborn"]
  /\ ask = [t \in Transfers |-> "none"]

Write(t) ==
  /\ hold[t] = "unborn"
  /\ hold' = [hold EXCEPT ![t] = "held"]
  /\ UNCHANGED ask

Refuse(t) ==
  /\ hold[t] = "unborn"
  /\ hold' = [hold EXCEPT ![t] = "gone"]
  /\ UNCHANGED ask

(* A reader asks only for a handle it was given, hence for a written one.    *)
Ask(t) ==
  /\ ask[t] = "none" /\ hold[t] # "unborn"
  /\ ask' = [ask EXCEPT ![t] = "asking"]
  /\ UNCHANGED hold

(* The single commit point: both sides are there, the communicator is free.  *)
Commit(t) ==
  /\ hold[t] = "held" /\ ask[t] = "asking"
  /\ \A u \in Transfers : hold[u] # "committed"
  /\ hold' = [hold EXCEPT ![t] = "committed"]
  /\ UNCHANGED ask

(* Tensors nobody is committed to may be dropped at any time.                *)
Drop(S) ==
  /\ \A t \in S : hold[t] = "held"
  /\ hold' = [t \in Transfers |-> IF t \in S THEN "gone" ELSE hold[t]]
  /\ UNCHANGED ask

(* Both sides leave a committed transfer together.                           *)
Deliver(t) ==
  /\ hold[t] = "committed" /\ ask[t] = "asking"
  /\ hold' = [hold EXCEPT ![t] = "sent"]
  /\ ask' = [ask EXCEPT ![t] = "got"]

(* A committed send fails: everything behind it goes too.                    *)
Break(t) ==
  /\ hold[t] = "committed"
  /\ hold' = [u \in Transfers |->
                IF u = t \/ hold[u] = "held" THEN "gone" ELSE hold[u]]
  /\ UNCHANGED ask

(* The commitment is given up: its tensors go, nothing else does.            *)
Lose(t) ==
  /\ hold[t] = "committed"
  /\ hold' = [hold EXCEPT ![t] = "gone"]
  /\ UNCHANGED ask

Free(t) ==
  /\ hold[t] = "sent"
  /\ hold' = [hold EXCEPT ![t] = "gone"]
  /\ UNCHANGED ask

(* A reader gives up, before or after it has asked; never after delivery.    *)
Raise(t) ==
  /\ ask[t] \in {"none", "asking"}
  /\ ask' = [ask EXCEPT ![t] = "raised"]
  /\ UNCHANGED hold

Next ==
  \/ \E t \in Transfers :
       \/ Write(t) \/ Refuse(t) \/ Ask(t) \/ Commit(t) \/ Deliver(t)
       \/ Break(t) \/ Lose(t) \/ Free(t) \/ Raise(t)
  \/ \E S \in SUBSET Transfers : Drop(S)

Spec == Init /\ [][Next]_vars
=============================================================================
