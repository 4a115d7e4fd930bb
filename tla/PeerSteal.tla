------------------------------ MODULE PeerSteal ------------------------------
(***************************************************************************)
(* Stealing RAM from peer memory servers, src/usr/mem_serv_dist/steal.c.  *)
(*                                                                         *)
(* A memory server handles allocation requests in THC tasks of one        *)
(* thread.  A task that finds no local memory runs try_steal: rr_steal     *)
(* walks peer_cores round robin from the static next_serv, skips its own   *)
(* core and asks each peer in turn (steal_from_serv) until one gives       *)
(* memory.  steal_from_serv connects to a peer the first time it is used   *)
(* (connect_peer, which also initializes the peer's thc_lock) and sends    *)
(* the steal RPC while holding that lock.                                  *)
(*                                                                         *)
(* A task yields only where THC blocks: in mem_thc_connect_by_name, in     *)
(* thc_lock_acquire on a held lock and in the RPC.  Each action runs a     *)
(* task from one of these points to the next.  thc_lock_init forgets the   *)
(* waiters of the lock it re-initializes: a waiter queued on an earlier    *)
(* initialization (gen) is never woken.                                    *)
(***************************************************************************)
EXTENDS Naturals, FiniteSets

CONSTANTS
    Tasks,        \* THC tasks handling allocation requests
    NumPeers,     \* num_peers: the length of peer_cores, own core included
    MySlot,       \* the index of peer_cores whose id is mycore
    MaxRequests   \* bound: try_steal calls per task

Slots == 0..(NumPeers - 1)

ASSUME NumPeers \in Nat \ {0} /\ MySlot \in Slots /\ MaxRequests \in Nat \ {0}

VARIABLES
    nextServ,  \* the static next_serv of rr_steal
    isBound,   \* isBound[k]: peer_cores[k].is_bound
    held,      \* held[k]: peer_cores[k].lock is locked
    lockGen,   \* lockGen[k]: how often thc_lock_init ran on peer_cores[k].lock
    pc,        \* pc[t]: where task t is
    serv,      \* serv[t]: rr_steal's local serv
    idx,       \* idx[t]: rr_steal's loop counter i
    peer,      \* peer[t]: the peer task t is stealing from
    gen,       \* gen[t]: the lock initialization a waiting task queued on
    tried,     \* tried[t]: the peers this rr_steal asked (history)
    stolen,    \* stolen[t]: the last try_steal got memory
    reqs       \* reqs[t]: try_steal calls of task t

vars == <<nextServ, isBound, held, lockGen, pc, serv, idx, peer, gen, tried, stolen, reqs>>

-----------------------------------------------------------------------------

\* Bug variant: rr_steal's loop stops one peer early (i < num_peers - 1).
RECURSIVE ScanShort(_, _)
ScanShort(sv, j) ==
    IF j >= NumPeers - 1 THEN [end |-> TRUE, serv |-> sv, i |-> j, peer |-> 0]
    ELSE LET s == IF sv >= NumPeers THEN 0 ELSE sv IN
         IF s = MySlot THEN ScanShort(s + 1, j + 1)
         ELSE [end |-> FALSE, serv |-> s + 1, i |-> j, peer |-> s]

\* rr_steal's loop from serv = sv, i = j to the next peer to ask, or to its
\* end: wrap serv at num_peers, take peer_cores[serv++], skip our own core.
RECURSIVE Scan(_, _)
Scan(sv, j) ==
    IF j >= NumPeers THEN [end |-> TRUE, serv |-> sv, i |-> j, peer |-> 0]
    ELSE LET s == IF sv >= NumPeers THEN 0 ELSE sv IN
         IF s = MySlot THEN Scan(s + 1, j + 1)
         ELSE [end |-> FALSE, serv |-> s + 1, i |-> j, peer |-> s]

\* thc_lock_acquire by t on the lock of peer k, h the lock flags so far:
\* take a free lock and send the RPC, else wait on this initialization.
Acquire(t, k, h) ==
    \/ /\ ~h[k]
       /\ held' = [h EXCEPT ![k] = TRUE]
       /\ pc' = [pc EXCEPT ![t] = "rpc"]
       /\ UNCHANGED gen
    \/ /\ h[k]
       /\ held' = h
       /\ pc' = [pc EXCEPT ![t] = "lockwait"]
       /\ gen' = [gen EXCEPT ![t] = lockGen[k]]

\* Go on from the scan result sc: at the end of the loop store next_serv
\* and return the error; else call steal_from_serv, which connects to an
\* unbound peer or takes its lock.
TryPeer(t, sc, h, tr) ==
    /\ serv' = [serv EXCEPT ![t] = sc.serv]
    /\ idx' = [idx EXCEPT ![t] = sc.i]
    /\ \/ /\ sc.end
          /\ nextServ' = sc.serv
          /\ pc' = [pc EXCEPT ![t] = "done"]
          /\ held' = h
          /\ tried' = [tried EXCEPT ![t] = tr]
          /\ UNCHANGED <<peer, gen>>
       \/ /\ ~sc.end
          /\ peer' = [peer EXCEPT ![t] = sc.peer]
          /\ tried' = [tried EXCEPT ![t] = tr \cup {sc.peer}]
          /\ UNCHANGED nextServ
          /\ \/ /\ ~isBound[sc.peer]
                /\ pc' = [pc EXCEPT ![t] = "connect"]
                /\ held' = h
                /\ UNCHANGED gen
             \/ /\ isBound[sc.peer]
                /\ Acquire(t, sc.peer, h)

\* try_steal: an allocation failed locally; rr_steal starts at next_serv.
try_steal(t) ==
    /\ pc[t] \in {"idle", "done"}
    /\ reqs[t] < MaxRequests
    /\ reqs' = [reqs EXCEPT ![t] = @ + 1]
    /\ stolen' = [stolen EXCEPT ![t] = FALSE]
    /\ TryPeer(t, Scan(nextServ, 0), held, {})
    /\ UNCHANGED <<isBound, lockGen>>

\* connect_peer returns.  On failure rr_steal goes on with the next peer;
\* on success the lock is initialized, is_bound set and the lock taken.
connect_peer(t) ==
    LET k == peer[t] IN
    /\ pc[t] = "connect"
    /\ \/ /\ TryPeer(t, Scan(serv[t], idx[t] + 1), held, tried[t])
          /\ UNCHANGED <<isBound, lockGen, stolen, reqs>>
       \/ /\ lockGen' = [lockGen EXCEPT ![k] = @ + 1]
          /\ isBound' = [isBound EXCEPT ![k] = TRUE]
          /\ held' = [held EXCEPT ![k] = TRUE]
          /\ pc' = [pc EXCEPT ![t] = "rpc"]
          /\ UNCHANGED <<nextServ, serv, idx, peer, gen, tried, stolen, reqs>>

\* A waiter of the current initialization of a released lock takes it.
LockRetry(t) ==
    LET k == peer[t] IN
    /\ pc[t] = "lockwait"
    /\ gen[t] = lockGen[k]
    /\ ~held[k]
    /\ held' = [held EXCEPT ![k] = TRUE]
    /\ pc' = [pc EXCEPT ![t] = "rpc"]
    /\ UNCHANGED <<nextServ, isBound, lockGen, serv, idx, peer, gen, tried, stolen, reqs>>

\* Bug variant: next_serv is stored one past the peer that gave memory.
StealReturnsSkip(t) ==
    LET k == peer[t]
        h == [held EXCEPT ![k] = FALSE]
    IN /\ pc[t] = "rpc"
       /\ \/ /\ held' = h
             /\ nextServ' = serv[t] + 1
             /\ stolen' = [stolen EXCEPT ![t] = TRUE]
             /\ pc' = [pc EXCEPT ![t] = "done"]
             /\ UNCHANGED <<serv, idx, peer, gen, tried>>
          \/ /\ TryPeer(t, Scan(serv[t], idx[t] + 1), h, tried[t])
             /\ UNCHANGED stolen
       /\ UNCHANGED <<isBound, lockGen, reqs>>

\* The steal RPC returns: release the lock; on success rr_steal breaks
\* and stores next_serv, else it goes on with the next peer.
StealReturns(t) ==
    LET k == peer[t]
        h == [held EXCEPT ![k] = FALSE]
    IN /\ pc[t] = "rpc"
       /\ \/ /\ held' = h
             /\ nextServ' = serv[t]
             /\ stolen' = [stolen EXCEPT ![t] = TRUE]
             /\ pc' = [pc EXCEPT ![t] = "done"]
             /\ UNCHANGED <<serv, idx, peer, gen, tried>>
          \/ /\ TryPeer(t, Scan(serv[t], idx[t] + 1), h, tried[t])
             /\ UNCHANGED stolen
       /\ UNCHANGED <<isBound, lockGen, reqs>>

\* init_peers: no peer is bound.
Init ==
    /\ nextServ = 0
    /\ isBound = [k \in Slots |-> FALSE]
    /\ held = [k \in Slots |-> FALSE]
    /\ lockGen = [k \in Slots |-> 0]
    /\ pc = [t \in Tasks |-> "idle"]
    /\ serv = [t \in Tasks |-> 0]
    /\ idx = [t \in Tasks |-> 0]
    /\ peer = [t \in Tasks |-> 0]
    /\ gen = [t \in Tasks |-> 0]
    /\ tried = [t \in Tasks |-> {}]
    /\ stolen = [t \in Tasks |-> FALSE]
    /\ reqs = [t \in Tasks |-> 0]

Next ==
    \E t \in Tasks :
          \/ try_steal(t)
          \/ connect_peer(t)
          \/ LockRetry(t)
          \/ StealReturns(t)

\* THC runs every runnable task, and a peer answers its connect and steal
\* calls; clients are not obliged to send requests.
Fairness ==
    \A t \in Tasks : WF_vars(connect_peer(t)) /\ WF_vars(LockRetry(t))
                     /\ WF_vars(StealReturns(t))

Spec == Init /\ [][Next]_vars /\ Fairness

-----------------------------------------------------------------------------
(* Properties                                                               *)

TypeOK ==
    /\ nextServ \in 0..NumPeers
    /\ isBound \in [Slots -> BOOLEAN]
    /\ held \in [Slots -> BOOLEAN]
    /\ lockGen \in [Slots -> Nat]
    /\ pc \in [Tasks -> {"idle", "connect", "lockwait", "rpc", "done"}]
    /\ serv \in [Tasks -> 0..NumPeers]
    /\ idx \in [Tasks -> 0..NumPeers]
    /\ peer \in [Tasks -> Slots]
    /\ gen \in [Tasks -> Nat]
    /\ tried \in [Tasks -> SUBSET Slots]
    /\ stolen \in [Tasks -> BOOLEAN]
    /\ reqs \in [Tasks -> 0..MaxRequests]

\* A try_steal that returns without memory asked every peer but its own
\* core exactly once, wherever the shared next_serv left the round robin
\* (rr_steal's wrap-around of serv at num_peers).
StealTriesEveryPeer ==
    \A t \in Tasks :
        (pc[t] = "done" /\ ~stolen[t]) => tried[t] = Slots \ {MySlot}

\* At most one steal RPC is outstanding on a peer's binding at a time:
\* "due to the single-waiter rule of thc we need to make sure we only ever
\* have one of these rpcs outstanding at a time" (steal_from_serv).
OneRpcPerPeer ==
    \A k \in Slots : Cardinality({t \in Tasks : pc[t] = "rpc" /\ peer[t] = k}) <= 1

=============================================================================
