---------------------------- MODULE MonitorCapOps ----------------------------
(***************************************************************************)
(* Remote capability operations of the per-core monitors.                  *)
(*                                                                         *)
(* The handlers remote_cap_retype/delete/revoke, their phase-2             *)
(* continuations and the static operation-record pool are translated from  *)
(* src/usr/monitor/monitor_rpc_server.c.  The capability lock database     *)
(* rcap_db they call (acquire/release, single and recursive, get_info,     *)
(* retype/delete/revoke propagation and the peer-monitor messages behind   *)
(* them) is not under src/ and is modelled from spec.md section 4.1.       *)
(*                                                                         *)
(* Every monitor runs one event loop; an action is one handler run to      *)
(* completion.  Monitor-to-monitor channels are reliable and FIFO.  The    *)
(* rcap_db runs a continuation (phase 2) as an event of its own once the   *)
(* lock attempt has its outcome.                                           *)
(***************************************************************************)
EXTENDS Naturals, Sequences, FiniteSets

CONSTANTS
    Cores,         \* the cores, one monitor each
    Clients,       \* client domains making blocking calls to their monitor
    ClientCore,    \* ClientCore[c]: the core whose monitor client c calls
    Caps,          \* capability descriptors
    Descendants,   \* Descendants[x]: the caps derived, transitively, from x
    InitCopies,    \* InitCopies[p]: the caps the kernel of core p holds at start
    Calls,         \* the <<kind, cap>> calls clients may make
    KernelMayFail, \* kernel operations that may fail although the copy exists
    MaxCalls,      \* bound: calls per client
    None           \* model value: no lock holder, no operation record

Kinds == {"retype", "delete", "revoke"}

ASSUME /\ ClientCore \in [Clients -> Cores]
       /\ Descendants \in [Caps -> SUBSET Caps]
       /\ \A x \in Caps : x \notin Descendants[x]
       /\ InitCopies \in [Cores -> SUBSET Caps]
       /\ Calls \subseteq Kinds \X Caps
       /\ KernelMayFail \subseteq Kinds
       /\ MaxCalls \in Nat \ {0}

VARIABLES
    op,          \* op[c]: the record (retype_st/delete_st/revoke_st) of c's call, or None
    calls,       \* calls[c]: calls client c has made
    replies,     \* replies[c]: replies client c has received
    staticUsed,  \* staticUsed[p][k]: static_<k>_state_used in the monitor of core p
    holder,      \* holder[p][x]: rcap_db lock holder of x in the monitor of p
    hasDesc,     \* hasDesc[p][x]: rcap_db has_descendants of x in the monitor of p
    onCores,     \* onCores[p][x]: rcap_db present_on_cores of x in the monitor of p
    waiters,     \* waiters[p][x]: FIFO of operations waiting for x's lock on p
    chan,        \* chan[p][q]: FIFO channel from the monitor of p to that of q
    copies,      \* copies[p]: the caps of which the kernel of core p holds a copy
    retypes      \* history: retypes[x], successful retypes of x since x was removed

vars == <<op, calls, replies, staticUsed, holder, hasDesc, onCores, waiters,
          chan, copies, retypes>>

OpIds == Clients \X (1..MaxCalls)

OpRecord == [id : OpIds, kind : Kinds, cap : Caps, static : BOOLEAN,
             st : {"local", "remote", "cont"}, pending : SUBSET Cores,
             granted : SUBSET Cores, denied : BOOLEAN, live : BOOLEAN]

Msgs == [type : {"lock_req", "unlock"}, op : OpIds, caps : SUBSET Caps]
   \cup [type : {"lock_reply"}, op : OpIds, ok : BOOLEAN]
   \cup [type : {"retype_notify"}, cap : Caps]
   \cup [type : {"delete_notify", "revoke_notify"}, caps : SUBSET Caps]

-----------------------------------------------------------------------------
(* Helpers                                                                  *)

CoreOf(c) == ClientCore[c]

\* Bug variant: revoke takes the single lock on the cap alone.
LockSetFlat(o) == {o.cap}

\* The caps a lock attempt covers: revoke takes the recursive lock.
LockSet(o) == IF o.kind = "revoke" THEN {o.cap} \cup Descendants[o.cap]
                                   ELSE {o.cap}

FreeAt(p, S) == \A x \in S : holder[p][x] = None

\* The peers whose lock an attempt on S from core p needs.
PeersOf(p, S) == UNION {onCores[p][x] : x \in S} \ {p}

\* ch with m appended to every channel from p to a core of Q.
SendAll(ch, p, Q, m) ==
    [a \in Cores |-> [b \in Cores |->
        IF a = p /\ b \in Q THEN Append(ch[a][b], m) ELSE ch[a][b]]]

\* holder after core p gives the locks on S to id / takes them back from id.
TakeLocks(h, p, S, id) ==
    [h EXCEPT ![p] = [x \in Caps |-> IF x \in S THEN id ELSE h[p][x]]]
DropLocks(h, p, S, id) ==
    [h EXCEPT ![p] = [x \in Caps |->
        IF x \in S /\ h[p][x] = id THEN None ELSE h[p][x]]]

\* The outcomes of the kernel operation of record o: it fails when the copy
\* the call was made on is gone, and may fail otherwise when KernelMayFail
\* says so.
KernelOutcomes(o) ==
    IF ~o.live THEN {FALSE}
    ELSE IF o.kind \in KernelMayFail THEN {TRUE, FALSE} ELSE {TRUE}

\* The records after the copies of S on core p are gone: the calls made
\* there on those caps operate on a deleted cap.
Lost(p, S) ==
    [c \in Clients |-> IF op[c] # None /\ CoreOf(c) = p /\ op[c].cap \in S
                       THEN [op[c] EXCEPT !.live = FALSE] ELSE op[c]]

-----------------------------------------------------------------------------
(* Static operation-record pool: alloc_<k>_st / free_<k>_st.                *)

\* alloc_<k>_st: the static record if it is free, else a malloc'ed one.
AllocSt(p, k) ==
    staticUsed' = [staticUsed EXCEPT ![p][k] = TRUE]

\* Bug variant: free_<k>_st forgets to clear static_<k>_state_used.
FreeStKeep(p, o) == staticUsed' = staticUsed

\* free_<k>_st: only the static record gives its slot back.
FreeSt(p, o) ==
    staticUsed' = IF o.static THEN [staticUsed EXCEPT ![p][o.kind] = FALSE]
                              ELSE staticUsed

\* Bug variant: the response is sent twice.
ReplyTwice(c, ops) ==
    /\ op' = [ops EXCEPT ![c] = None]
    /\ replies' = [replies EXCEPT ![c] = @ + 2]

\* Sending the response: the record is gone, the client has its reply; ops
\* are the other records as the handler leaves them.
Reply(c, ops) ==
    /\ op' = [ops EXCEPT ![c] = None]
    /\ replies' = [replies EXCEPT ![c] = @ + 1]

-----------------------------------------------------------------------------
(* rcap_db (spec.md 4.1)                                                    *)

\* The local lock on LockSet(o) is granted to o on core p: ask every peer
\* that holds a copy, or run the continuation at once when there is none.
LockGranted(c, o, p) ==
    LET S == LockSet(o)
        peers == PeersOf(p, S)
    IN /\ holder' = TakeLocks(holder, p, S, o.id)
       /\ chan' = SendAll(chan, p, peers,
                          [type |-> "lock_req", op |-> o.id, caps |-> S])
       /\ op' = [op EXCEPT ![c] = [o EXCEPT
                    !.st = IF peers = {} THEN "cont" ELSE "remote",
                    !.pending = peers]]

\* rcap_db_acquire_lock / rcap_db_acquire_recursive_lock: grant at once if
\* the caps are free and nobody queues before, else join the FIFO.
AcquireLock(c, o) ==
    LET p == CoreOf(c) IN
    \/ /\ FreeAt(p, LockSet(o))
       /\ waiters[p][o.cap] = <<>>
       /\ LockGranted(c, o, p)
       /\ UNCHANGED waiters
    \/ /\ ~(FreeAt(p, LockSet(o)) /\ waiters[p][o.cap] = <<>>)
       /\ waiters' = [waiters EXCEPT ![p][o.cap] = Append(@, o.id)]
       /\ op' = [op EXCEPT ![c] = o]
       /\ UNCHANGED <<holder, chan>>

\* The first waiter for x on core p gets its lock once the caps are free.
GrantWaiter(p, x) ==
    /\ waiters[p][x] # <<>>
    /\ LET c == Head(waiters[p][x])[1]
       IN /\ FreeAt(p, LockSet(op[c]))
          /\ waiters' = [waiters EXCEPT ![p][x] = Tail(@)]
          /\ LockGranted(c, op[c], p)
    /\ UNCHANGED <<calls, replies, staticUsed, hasDesc, onCores, copies, retypes>>

\* rcap_db_release_lock / rcap_db_release_recursive_lock: release S on the
\* cores actually locked, locally now and on peers by message.
ReleaseLock(p, id, S, locked) ==
    /\ holder' = DropLocks(holder, p, S, id)
    /\ chan' = SendAll(chan, p, locked \ {p},
                       [type |-> "unlock", op |-> id, caps |-> S])

\* Forget S on core q: the records go back to the never-seen defaults.
RemoveRecords(q, S) ==
    /\ holder' = [holder EXCEPT ![q] = [x \in Caps |->
                    IF x \in S THEN None ELSE holder[q][x]]]
    /\ hasDesc' = [hasDesc EXCEPT ![q] = [x \in Caps |->
                    IF x \in S THEN FALSE ELSE hasDesc[q][x]]]
    /\ onCores' = [onCores EXCEPT ![q] = [x \in Caps |->
                    IF x \in S THEN {q} ELSE onCores[q][x]]]

\* rcap_db_retype: record the outcome, tell the peers, then unlock them.
DbRetype(p, o, ok) ==
    LET x == o.cap
        Q == onCores[p][x] \ {p}
        told == IF ok THEN SendAll(chan, p, Q, [type |-> "retype_notify", cap |-> x])
                      ELSE chan
    IN /\ hasDesc' = IF ok THEN [hasDesc EXCEPT ![p][x] = TRUE] ELSE hasDesc
       /\ holder' = DropLocks(holder, p, {x}, o.id)
       /\ chan' = SendAll(told, p, Q, [type |-> "unlock", op |-> o.id, caps |-> {x}])

\* rcap_db_delete / rcap_db_revoke: remove S here and on every peer.
DbRemove(p, S, type) ==
    /\ RemoveRecords(p, S)
    /\ chan' = SendAll(chan, p, PeersOf(p, S), [type |-> type, caps |-> S])

-----------------------------------------------------------------------------
(* Handlers of monitor_blocking calls (phase 1)                             *)

\* The record alloc_<k>_st fills in for client c's next call.
NewSt(c, k, x) ==
    [id |-> <<c, calls[c] + 1>>, kind |-> k, cap |-> x,
     static |-> ~staticUsed[CoreOf(c)][k], st |-> "local",
     pending |-> {}, granted |-> {}, denied |-> FALSE, live |-> TRUE]

\* A blocking call: the client has no call outstanding.
CallArrives(c) ==
    /\ op[c] = None
    /\ calls[c] < MaxCalls
    /\ calls' = [calls EXCEPT ![c] = @ + 1]

\* remote_cap_retype: identify, reject a cap that has descendants, else
\* request the lock; on every early exit free the record and reply.
RemoteCapRetype(c, x) ==
    LET p == CoreOf(c) IN
    /\ CallArrives(c)
    /\ \/ /\ x \notin copies[p] \/ hasDesc[p][x]
          /\ Reply(c, op)
          /\ UNCHANGED <<staticUsed, holder, waiters, chan>>
       \/ /\ x \in copies[p]
          /\ ~hasDesc[p][x]
          /\ AllocSt(p, "retype")
          /\ AcquireLock(c, NewSt(c, "retype", x))
          /\ UNCHANGED replies
    /\ UNCHANGED <<hasDesc, onCores, copies, retypes>>

\* Bug variant: remote_cap_delete goes on to phase 2 without the lock.
RemoteCapDeleteNoLock(c, x) ==
    LET p == CoreOf(c) IN
    /\ CallArrives(c)
    /\ \/ /\ x \notin copies[p]
          /\ Reply(c, op)
          /\ UNCHANGED <<staticUsed, holder, waiters, chan>>
       \/ /\ x \in copies[p]
          /\ AllocSt(p, "delete")
          /\ op' = [op EXCEPT ![c] = [NewSt(c, "delete", x) EXCEPT !.st = "cont"]]
          /\ UNCHANGED <<replies, holder, waiters, chan>>
    /\ UNCHANGED <<hasDesc, onCores, copies, retypes>>

\* remote_cap_delete: identify, then request the lock.
RemoteCapDelete(c, x) ==
    LET p == CoreOf(c) IN
    /\ CallArrives(c)
    /\ \/ /\ x \notin copies[p]
          /\ Reply(c, op)
          /\ UNCHANGED <<staticUsed, holder, waiters, chan>>
       \/ /\ x \in copies[p]
          /\ AllocSt(p, "delete")
          /\ AcquireLock(c, NewSt(c, "delete", x))
          /\ UNCHANGED replies
    /\ UNCHANGED <<hasDesc, onCores, copies, retypes>>

\* remote_cap_revoke: identify, then request the recursive lock.
RemoteCapRevoke(c, x) ==
    LET p == CoreOf(c) IN
    /\ CallArrives(c)
    /\ \/ /\ x \notin copies[p]
          /\ Reply(c, op)
          /\ UNCHANGED <<staticUsed, holder, waiters, chan>>
       \/ /\ x \in copies[p]
          /\ AllocSt(p, "revoke")
          /\ AcquireLock(c, NewSt(c, "revoke", x))
          /\ UNCHANGED replies
    /\ UNCHANGED <<hasDesc, onCores, copies, retypes>>

-----------------------------------------------------------------------------
(* Continuations (phase 2), run once the lock attempt has its outcome       *)

\* The continuation of client c's call of kind k is due.
Due(c, k) == op[c] # None /\ op[c].kind = k /\ op[c].st = "cont"

\* cores_locked of the attempt.
CoresLocked(c) == {CoreOf(c)} \cup op[c].granted

\* Bug variant: phase 2 trusts the phase-1 has_descendants check.
RemoteCapRetypePhase2NoRecheck(c) ==
    LET p == CoreOf(c)
        o == op[c]
    IN /\ Due(c, "retype")
       /\ \/ /\ o.denied
             /\ ReleaseLock(p, o.id, {o.cap}, CoresLocked(c))
             /\ UNCHANGED <<hasDesc, copies, retypes>>
          \/ /\ ~o.denied
             /\ \E ok \in KernelOutcomes(o) :
                  /\ DbRetype(p, o, ok)
                  /\ copies' = IF ok THEN [copies EXCEPT ![p] = @ \cup Descendants[o.cap]]
                                     ELSE copies
                  /\ retypes' = IF ok THEN [retypes EXCEPT ![o.cap] = @ + 1]
                                      ELSE retypes
       /\ FreeSt(p, o)
       /\ Reply(c, op)
       /\ UNCHANGED <<calls, onCores, waiters>>

\* remote_cap_retype_phase_2: check has_descendants again under the lock;
\* on failure unlock the cores locked, else retype in the kernel and let
\* rcap_db_retype record the outcome and unlock.
RemoteCapRetypePhase2(c) ==
    LET p == CoreOf(c)
        o == op[c]
    IN /\ Due(c, "retype")
       /\ \/ /\ o.denied \/ hasDesc[p][o.cap]
             /\ ReleaseLock(p, o.id, {o.cap}, CoresLocked(c))
             /\ UNCHANGED <<hasDesc, copies, retypes>>
          \/ /\ ~o.denied
             /\ ~hasDesc[p][o.cap]
             /\ \E ok \in KernelOutcomes(o) :
                  /\ DbRetype(p, o, ok)
                  /\ copies' = IF ok THEN [copies EXCEPT ![p] = @ \cup Descendants[o.cap]]
                                     ELSE copies
                  /\ retypes' = IF ok THEN [retypes EXCEPT ![o.cap] = @ + 1]
                                      ELSE retypes
       /\ FreeSt(p, o)
       /\ Reply(c, op)
       /\ UNCHANGED <<calls, onCores, waiters>>

\* remote_cap_delete_phase_2: on lock failure unlock; else delete in the
\* kernel and, only if that succeeded, rcap_db_delete.
RemoteCapDeletePhase2(c) ==
    LET p == CoreOf(c)
        o == op[c]
    IN /\ Due(c, "delete")
       /\ \/ /\ o.denied
             /\ ReleaseLock(p, o.id, {o.cap}, CoresLocked(c))
             /\ Reply(c, op)
             /\ UNCHANGED <<hasDesc, onCores, copies, retypes>>
          \/ /\ ~o.denied
             /\ \E ok \in KernelOutcomes(o) :
                  IF ok
                  THEN /\ DbRemove(p, {o.cap}, "delete_notify")
                       /\ copies' = [copies EXCEPT ![p] = @ \ {o.cap}]
                       /\ retypes' = [retypes EXCEPT ![o.cap] = 0]
                       /\ Reply(c, Lost(p, {o.cap}))
                  ELSE /\ Reply(c, op)
                       /\ UNCHANGED <<holder, hasDesc, onCores, chan, copies, retypes>>
       /\ FreeSt(p, o)
       /\ UNCHANGED <<calls, waiters>>

\* remote_cap_revoke_phase_2: on lock failure release the recursive lock;
\* else revoke in the kernel and, only if that succeeded, rcap_db_revoke.
RemoteCapRevokePhase2(c) ==
    LET p == CoreOf(c)
        o == op[c]
        S == LockSet(o)
    IN /\ Due(c, "revoke")
       /\ \/ /\ o.denied
             /\ ReleaseLock(p, o.id, S, CoresLocked(c))
             /\ Reply(c, op)
             /\ UNCHANGED <<hasDesc, onCores, copies, retypes>>
          \/ /\ ~o.denied
             /\ \E ok \in KernelOutcomes(o) :
                  IF ok
                  THEN /\ DbRemove(p, S, "revoke_notify")
                       /\ copies' = [copies EXCEPT ![p] = @ \ Descendants[o.cap]]
                       /\ retypes' = [x \in Caps |-> IF x \in S THEN 0 ELSE retypes[x]]
                       /\ Reply(c, Lost(p, Descendants[o.cap]))
                  ELSE /\ Reply(c, op)
                       /\ UNCHANGED <<holder, hasDesc, onCores, chan, copies, retypes>>
       /\ FreeSt(p, o)
       /\ UNCHANGED <<calls, waiters>>

-----------------------------------------------------------------------------
(* rcap_db message handlers: the monitor of q takes the head of chan[p][q]  *)

Msg(p, q) == Head(chan[p][q])

Consume(p, q) == chan' = [chan EXCEPT ![p][q] = Tail(@)]

OnlyDb == UNCHANGED <<op, calls, replies, staticUsed, waiters, retypes>>

\* lock_request: grant if every cap is free here, else deny; reply once.
RecvLockReq(p, q) ==
    /\ chan[p][q] # <<>>
    /\ Msg(p, q).type = "lock_req"
    /\ LET m == Msg(p, q)
           ok == FreeAt(q, m.caps)
       IN /\ holder' = IF ok THEN TakeLocks(holder, q, m.caps, m.op) ELSE holder
          /\ chan' = [chan EXCEPT ![p][q] = Tail(@),
                        ![q][p] = Append(@, [type |-> "lock_reply", op |-> m.op, ok |-> ok])]
    /\ OnlyDb
    /\ UNCHANGED <<hasDesc, onCores, copies>>

\* lock granted/denied: the last reply makes the continuation due.
RecvLockReply(p, q) ==
    /\ chan[p][q] # <<>>
    /\ Msg(p, q).type = "lock_reply"
    /\ LET m == Msg(p, q)
           c == m.op[1]
           left == op[c].pending \ {p}
       IN op' = [op EXCEPT ![c] = [@ EXCEPT
                   !.pending = left,
                   !.granted = IF m.ok THEN @ \cup {p} ELSE @,
                   !.denied = @ \/ ~m.ok,
                   !.st = IF left = {} THEN "cont" ELSE "remote"]]
    /\ Consume(p, q)
    /\ UNCHANGED <<calls, replies, staticUsed, waiters, retypes,
                   holder, hasDesc, onCores, copies>>

\* unlock_notify: release the caps this operation holds here.
RecvUnlock(p, q) ==
    /\ chan[p][q] # <<>>
    /\ Msg(p, q).type = "unlock"
    /\ holder' = DropLocks(holder, q, Msg(p, q).caps, Msg(p, q).op)
    /\ Consume(p, q)
    /\ OnlyDb
    /\ UNCHANGED <<hasDesc, onCores, copies>>

\* retype_notify: the cap has descendants now.
RecvRetypeNotify(p, q) ==
    /\ chan[p][q] # <<>>
    /\ Msg(p, q).type = "retype_notify"
    /\ hasDesc' = [hasDesc EXCEPT ![q][Msg(p, q).cap] = TRUE]
    /\ Consume(p, q)
    /\ OnlyDb
    /\ UNCHANGED <<holder, onCores, copies>>

\* delete_notify: forget the cap.
RecvDeleteNotify(p, q) ==
    /\ chan[p][q] # <<>>
    /\ Msg(p, q).type = "delete_notify"
    /\ RemoveRecords(q, Msg(p, q).caps)
    /\ Consume(p, q)
    /\ OnlyDb
    /\ UNCHANGED copies

\* revoke_notify: forget the subtree and invalidate the copies held here.
RecvRevokeNotify(p, q) ==
    /\ chan[p][q] # <<>>
    /\ Msg(p, q).type = "revoke_notify"
    /\ RemoveRecords(q, Msg(p, q).caps)
    /\ copies' = [copies EXCEPT ![q] = @ \ Msg(p, q).caps]
    /\ op' = Lost(q, Msg(p, q).caps)
    /\ Consume(p, q)
    /\ UNCHANGED <<calls, replies, staticUsed, waiters, retypes>>

Receive(p, q) ==
    \/ RecvLockReq(p, q)
    \/ RecvLockReply(p, q)
    \/ RecvUnlock(p, q)
    \/ RecvRetypeNotify(p, q)
    \/ RecvDeleteNotify(p, q)
    \/ RecvRevokeNotify(p, q)

-----------------------------------------------------------------------------
(* Specification                                                            *)

Init ==
    /\ op = [c \in Clients |-> None]
    /\ calls = [c \in Clients |-> 0]
    /\ replies = [c \in Clients |-> 0]
    /\ staticUsed = [p \in Cores |-> [k \in Kinds |-> FALSE]]
    /\ holder = [p \in Cores |-> [x \in Caps |-> None]]
    /\ hasDesc = [p \in Cores |-> [x \in Caps |-> FALSE]]
    /\ onCores = [p \in Cores |-> [x \in Caps |-> {q \in Cores : x \in InitCopies[q]}]]
    /\ waiters = [p \in Cores |-> [x \in Caps |-> <<>>]]
    /\ chan = [p \in Cores |-> [q \in Cores |-> <<>>]]
    /\ copies = InitCopies
    /\ retypes = [x \in Caps |-> 0]

Next ==
    \/ \E c \in Clients, x \in Caps :
          \/ <<"retype", x>> \in Calls /\ RemoteCapRetype(c, x)
          \/ <<"delete", x>> \in Calls /\ RemoteCapDelete(c, x)
          \/ <<"revoke", x>> \in Calls /\ RemoteCapRevoke(c, x)
    \/ \E c \in Clients :
          \/ RemoteCapRetypePhase2(c)
          \/ RemoteCapDeletePhase2(c)
          \/ RemoteCapRevokePhase2(c)
    \/ \E p \in Cores, x \in Caps : GrantWaiter(p, x)
    \/ \E p, q \in Cores : Receive(p, q)

\* Each monitor's event loop keeps dispatching: a due continuation runs, a
\* granted waiter is woken and a queued message is handled.  Clients are
\* not obliged to call.
Fairness ==
    /\ \A c \in Clients : WF_vars(RemoteCapRetypePhase2(c) \/ RemoteCapDeletePhase2(c)
                                  \/ RemoteCapRevokePhase2(c))
    /\ \A p \in Cores, x \in Caps : WF_vars(GrantWaiter(p, x))
    /\ \A p, q \in Cores : WF_vars(Receive(p, q))

Spec == Init /\ [][Next]_vars /\ Fairness

-----------------------------------------------------------------------------
(* Properties                                                               *)

TypeOK ==
    /\ op \in [Clients -> OpRecord \cup {None}]
    /\ calls \in [Clients -> 0..MaxCalls]
    /\ replies \in [Clients -> 0..MaxCalls]
    /\ staticUsed \in [Cores -> [Kinds -> BOOLEAN]]
    /\ holder \in [Cores -> [Caps -> OpIds \cup {None}]]
    /\ hasDesc \in [Cores -> [Caps -> BOOLEAN]]
    /\ onCores \in [Cores -> [Caps -> SUBSET Cores]]
    /\ waiters \in [Cores -> [Caps -> Seq(OpIds)]]
    /\ chan \in [Cores -> [Cores -> Seq(Msgs)]]
    /\ copies \in [Cores -> SUBSET Caps]
    /\ retypes \in [Caps -> Nat]

\* The operation id is that of a call still being served.
Live(id) == op[id[1]] # None /\ op[id[1]].id = id

\* A message on its way to core q will free q's lock on x held by id.
Releasing(q, x, id) ==
    \E p \in Cores : \E i \in 1..Len(chan[p][q]) :
        LET m == chan[p][q][i] IN
        \/ m.type = "unlock" /\ m.op = id /\ x \in m.caps
        \/ m.type \in {"delete_notify", "revoke_notify"} /\ x \in m.caps

\* The call has the whole lock: its continuation is due, no peer denied,
\* and the copy the call was made on has not been deleted or revoked.
HasWholeLock(c) ==
    /\ op[c] # None
    /\ op[c].st = "cont"
    /\ ~op[c].denied
    /\ op[c].live

\* Two calls on the same cap never hold its whole lock at once, so the
\* kernel operations the phase-2 continuations run on one cap are
\* serialized across all cores that hold a copy.
MutualExclusion ==
    \A c1, c2 \in Clients :
        (c1 # c2 /\ HasWholeLock(c1) /\ HasWholeLock(c2)) => op[c1].cap # op[c2].cap

\* While a revoke holds its recursive lock, no other call holds the whole
\* lock on any cap of the revoked subtree (spec.md 4.4: the recursive lock
\* prevents any concurrent retype/delete in the affected subtree).
SubtreeExclusion ==
    \A c1, c2 \in Clients :
        (c1 # c2 /\ HasWholeLock(c1) /\ HasWholeLock(c2) /\ op[c1].kind = "revoke")
            => op[c2].cap \notin ({op[c1].cap} \cup Descendants[op[c1].cap])

\* A cap is retyped at most once until it is deleted or revoked: the
\* phase-1 has_descendants check of remote_cap_retype is only advisory,
\* and two racing retypes are stopped by the re-check in phase 2 under the
\* lock, after the first retype's notification reached every copy.
RetypeOnceUntilRemoved ==
    \A x \in Caps : retypes[x] <= 1

\* The calls of kind k on core p that use the static record.
StaticHolders(p, k) ==
    {c \in Clients : op[c] # None /\ CoreOf(c) = p /\ op[c].kind = k /\ op[c].static}

\* The static record of each kind is used by at most one call at a time,
\* and static_<k>_state_used says exactly whether it is in use.
StaticPoolConsistent ==
    \A p \in Cores, k \in Kinds :
        /\ Cardinality(StaticHolders(p, k)) <= 1
        /\ staticUsed[p][k] = (StaticHolders(p, k) # {})

----------------------------------------------------------------------------
(* Refinement of AtomicCapOps                                               *)

\* A lock on x that core q's rcap_db still records for a call whose record
\* is gone, and that no message on its way will free.
Leaked(q, x) ==
    /\ holder[q][x] # None
    /\ ~Live(holder[q][x])
    /\ ~Releasing(q, x, holder[q][x])

\* The abstract lock owner of x: the call whose whole lock covers x, or
\* the client of a call that replied and left x locked on some core.  A
\* lock the rcap_db of a core grants on a cap that core no longer holds a
\* copy of guards nothing: the kernel operation under it fails.
LockOwner ==
    [x \in Caps |->
        IF \E c \in Clients : HasWholeLock(c) /\ x \in LockSet(op[c])
        THEN CHOOSE c \in Clients : HasWholeLock(c) /\ x \in LockSet(op[c])
        ELSE IF \E q \in Cores : Leaked(q, x)
        THEN LET q == CHOOSE q \in Cores : Leaked(q, x) IN holder[q][x][1]
        ELSE None]

\* The abstract outstanding call: a call that passed identification.
Request == [c \in Clients |-> IF op[c] = None THEN None ELSE <<op[c].kind, op[c].cap>>]

Abs == INSTANCE AtomicCapOps WITH owner <- LockOwner, req <- Request

\* The monitors implement atomic, lock-serialized capability operations:
\* a call's whole lock over its cap (and for a revoke over the subtree) is
\* taken in one step, by the last lock_reply or grant, only while no other
\* call holds any of it; only the call holding it changes what the kernels
\* hold of the cap, a retype only of a cap not retyped since it was
\* removed; and a call gives up its lock when it replies.  A lock that a
\* phase-2 continuation leaves held in some core's rcap_db after replying
\* stays owned by the finished call (LockOwner), which AtomicCapOps never
\* allows.
CapOpsAtomic == Abs!Spec

=============================================================================
