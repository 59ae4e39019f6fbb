------------------------------ MODULE QueryContract -----------------------------
(***************************************************************************)
(* What Client.SendQuery promises its caller: an answer is the plugin's    *)
(* answer to this very query, which it evaluated once; else an error, and  *)
(* then the plugin may evaluate the query later or never.  An answer that  *)
(* comes too late, or over another connection, is nobody's.                *)
(***************************************************************************)
CONSTANT Calls

VARIABLES
    result,     \* by call: "none", "pending", "error", or the call that was answered
    evaluated   \* calls the plugin has evaluated

contractVars == <<result, evaluated>>

Init == result = [q \in Calls |-> "none"] /\ evaluated = {}

Ask(q)      == result[q] = "none" /\ result' = [result EXCEPT ![q] = "pending"] /\ UNCHANGED evaluated
NotSent(q)  == result[q] = "none" /\ result' = [result EXCEPT ![q] = "error"] /\ UNCHANGED evaluated
Fail(q)     == result[q] = "pending" /\ result' = [result EXCEPT ![q] = "error"] /\ UNCHANGED evaluated
Evaluate(q) == result[q] # "none" /\ q \notin evaluated /\ evaluated' = evaluated \cup {q} /\ UNCHANGED result
Answer(q)   == /\ result[q] = "pending" /\ q \in evaluated
               /\ result' = [result EXCEPT ![q] = q] /\ UNCHANGED evaluated

Next == \E q \in Calls : Ask(q) \/ NotSent(q) \/ Fail(q) \/ Evaluate(q) \/ Answer(q)

Spec == Init /\ [][Next]_contractVars
===============================================================================
