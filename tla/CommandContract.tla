-------------------------- MODULE CommandContract --------------------------
(***************************************************************************)
(* What one SendCommand call promises its caller, without tracker, sockets *)
(* or queues: the fort applies a command at most once; an acknowledgement  *)
(* status handed to the caller is one with which the plugin acknowledged   *)
(* that very command; a command reported as unsendable is never applied.   *)
(* A call may end in a timeout at any time, and a command whose call timed *)
(* out may still be applied afterwards.                                    *)
(***************************************************************************)
CONSTANTS Ops,       \* the SendCommand calls of a behaviour
          AckStatus, \* the statuses a COMMAND_ACK carries
          None       \* no reply yet

VARIABLES outcome,   \* statuses of each command the fort applied, {} before that
          reply      \* what SendCommand returned for each command

vars == <<outcome, reply>>

Init == /\ outcome = [o \in Ops |-> {}]
        /\ reply = [o \in Ops |-> None]

Apply(o) == /\ outcome[o] = {}
            /\ reply[o] # "senderror"
            /\ \E S \in (SUBSET AckStatus) \ {{}} : outcome' = [outcome EXCEPT ![o] = S]
            /\ UNCHANGED reply

Answer(o) == /\ reply[o] = None
             /\ \E s \in outcome[o] : reply' = [reply EXCEPT ![o] = s]
             /\ UNCHANGED outcome

GiveUp(o) == /\ reply[o] = None
             /\ reply' = [reply EXCEPT ![o] = "timeout"]
             /\ UNCHANGED outcome

Reject(o) == /\ reply[o] = None
             /\ outcome[o] = {}
             /\ reply' = [reply EXCEPT ![o] = "senderror"]
             /\ UNCHANGED outcome

Next == \E o \in Ops : Apply(o) \/ Answer(o) \/ GiveUp(o) \/ Reject(o)

Spec == Init /\ [][Next]_vars
=============================================================================
