------------------------------ MODULE IdSource ------------------------------
(***************************************************************************)
(* What the rest of ShrinkLink expects of idgen.Allocator, and nothing     *)
(* more: a call of NextID either fails or returns an ID that no call has   *)
(* ever returned, whichever instance of the API it was made on.            *)
(***************************************************************************)
EXTENDS Naturals

CONSTANTS Callers,   \* the goroutines that call NextID
          Pending,   \* the call has not returned
          Failed     \* the call returned an error, or its process died

VARIABLES issued,    \* the IDs returned so far
          answer     \* what the last call of each caller returned

vars == <<issued, answer>>

Init == /\ issued = {}
        /\ answer = [c \in Callers |-> Failed]

Call(c) == /\ answer[c] # Pending
           /\ answer' = [answer EXCEPT ![c] = Pending]
           /\ UNCHANGED issued

\* "NextID returns a unique 64-bit integer ID."
Issue(c) == /\ answer[c] = Pending
            /\ answer'[c] \in Nat \ issued
            /\ answer' = [answer EXCEPT ![c] = answer'[c]]
            /\ issued' = issued \cup {answer'[c]}

\* One call fails, or a process dies and takes several calls with it.
Fail(S) == /\ \A c \in S : answer[c] = Pending
           /\ answer' = [c \in Callers |-> IF c \in S THEN Failed ELSE answer[c]]
           /\ UNCHANGED issued

Next == \/ \E c \in Callers : Call(c) \/ Issue(c)
        \/ \E S \in SUBSET Callers : Fail(S)

Spec == Init /\ [][Next]_vars
=============================================================================
