------------------------------ MODULE Delivery ------------------------------
(***************************************************************************)
(* What an IAquaClient promises its caller (Aqua/IAquaClient.cs), without   *)
(* requests, answers, tokens or waits: a call hands over a batch, the       *)
(* service records it some number of times, at most Limit, possibly after   *)
(* the call has ended, and the call reports success only if the batch has   *)
(* been recorded.                                                           *)
(***************************************************************************)
EXTENDS Integers

CONSTANTS
    Executions,     \* the executions callers may submit
    Limit           \* how often a batch may be recorded

VARIABLES
    called,         \* the batches submitted so far
    batch,          \* the batch of the current (or last) call
    verdict,        \* how that call ended, "none" while it runs
    running,        \* whether a call runs
    copies          \* the recordings: a batch and which of its copies it is

vars == <<called, batch, verdict, running, copies>>

Init ==
    /\ called = {}
    /\ batch = {}
    /\ verdict = "none"
    /\ running = FALSE
    /\ copies = {}

CallEmpty ==
    /\ ~running
    /\ batch' = {}
    /\ verdict' = "success"
    /\ UNCHANGED <<called, running, copies>>

Call(b) ==
    /\ ~running
    /\ b # {}
    /\ b \cap UNION called = {}
    /\ called' = called \cup {b}
    /\ batch' = b
    /\ verdict' = "none"
    /\ running' = TRUE
    /\ UNCHANGED copies

\* The service records a batch that has been submitted.
Record(b, n) ==
    /\ b \in called
    /\ copies' = copies \cup {[batch |-> b, attempt |-> n]}
    /\ UNCHANGED <<called, batch, verdict, running>>

Succeed ==
    /\ running
    /\ \E c \in copies : c.batch = batch
    /\ running' = FALSE
    /\ verdict' = "success"
    /\ UNCHANGED <<called, batch, copies>>

\* A failure or an exception says nothing about what has been recorded.
GiveUp ==
    /\ running
    /\ running' = FALSE
    /\ verdict' \in {"failure", "canceled", "faulted"}
    /\ UNCHANGED <<called, batch, copies>>

Next ==
    \/ CallEmpty
    \/ \E b \in SUBSET Executions : Call(b)
    \/ \E b \in SUBSET Executions, n \in 1 .. Limit : Record(b, n)
    \/ Succeed
    \/ GiveUp

Spec == Init /\ [][Next]_vars
=============================================================================
