----------------------------- MODULE AtomicCapOps -----------------------------
(***************************************************************************)
(* What the remote capability operations promise their clients (spec.md    *)
(* 4.1-4.4 and 8), without monitors, messages or per-core copies of the    *)
(* lock database.                                                          *)
(*                                                                         *)
(* A client has at most one call outstanding.  A call on cap x holds the   *)
(* lock on the caps it covers (x, and for a revoke every descendant of x)  *)
(* or none; it takes all of them in one step, when none is held.  A call   *)
(* that holds its lock performs its kernel operation, releases the lock    *)
(* and replies in one step; a call without the lock replies without any    *)
(* effect.  A retype succeeds only on a cap not retyped since it was last  *)
(* removed; a delete removes the cap, a revoke the cap and its subtree.    *)
(***************************************************************************)
EXTENDS Naturals

CONSTANTS
    Clients,      \* client domains
    Caps,         \* capability descriptors
    Descendants,  \* Descendants[x]: the caps derived, transitively, from x
    None          \* no owner, no call

Kinds == {"retype", "delete", "revoke"}

VARIABLES
    owner,    \* owner[x]: the client whose call holds the lock on x, or None
    req,      \* req[c]: <<kind, cap>> of c's outstanding call, or None
    retypes   \* retypes[x]: successful retypes of x since x was last removed

vars == <<owner, req, retypes>>

\* The caps a call of kind k on x locks.
Covers(k, x) == IF k = "revoke" THEN {x} \cup Descendants[x] ELSE {x}

Free(S) == \A y \in S : owner[y] = None

\* owner after c's call takes the lock on S / gives back every lock it holds.
Take(c, S) == [y \in Caps |-> IF y \in S THEN c ELSE owner[y]]
Drop(c) == [y \in Caps |-> IF owner[y] = c THEN None ELSE owner[y]]

\* The kernel operation of a call of kind k on x succeeds.
Effect(k, x) ==
    CASE k = "retype" -> retypes[x] = 0 /\ retypes' = [retypes EXCEPT ![x] = 1]
      [] k = "delete" -> retypes' = [retypes EXCEPT ![x] = 0]
      [] k = "revoke" -> retypes' = [y \in Caps |->
                                       IF y \in Covers(k, x) THEN 0 ELSE retypes[y]]

\* A call arrives; its lock may be granted at once (acquire_lock: ok).
Request(c, k, x) ==
    /\ req[c] = None
    /\ req' = [req EXCEPT ![c] = <<k, x>>]
    /\ \/ UNCHANGED owner
       \/ Free(Covers(k, x)) /\ owner' = Take(c, Covers(k, x))
    /\ UNCHANGED retypes

\* A waiting call is granted its whole lock.
Acquire(c) ==
    /\ req[c] # None
    /\ owner[req[c][2]] # c
    /\ Free(Covers(req[c][1], req[c][2]))
    /\ owner' = Take(c, Covers(req[c][1], req[c][2]))
    /\ UNCHANGED <<req, retypes>>

\* The call that holds its lock runs its kernel operation, which succeeds
\* or fails, releases the lock and replies.
Finish(c) ==
    /\ req[c] # None
    /\ owner[req[c][2]] = c
    /\ Effect(req[c][1], req[c][2]) \/ UNCHANGED retypes
    /\ owner' = Drop(c)
    /\ req' = [req EXCEPT ![c] = None]

\* A call that did not get its lock replies with an error.
Abandon(c) ==
    /\ req[c] # None
    /\ \A y \in Caps : owner[y] # c
    /\ req' = [req EXCEPT ![c] = None]
    /\ UNCHANGED <<owner, retypes>>

Init ==
    /\ owner = [y \in Caps |-> None]
    /\ req = [c \in Clients |-> None]
    /\ retypes = [y \in Caps |-> 0]

Next ==
    \E c \in Clients :
        \/ \E k \in Kinds, x \in Caps : Request(c, k, x)
        \/ Acquire(c)
        \/ Finish(c)
        \/ Abandon(c)

\* A call that holds its lock finishes: no lock is held for ever.
Spec == Init /\ [][Next]_vars /\ \A c \in Clients : WF_vars(Finish(c))

=============================================================================
