------------------------------- MODULE RamAlloc -------------------------------
(***************************************************************************)
(* The RAM allocator client of a domain, src/lib/barrelfish/ram_alloc.c.   *)
(*                                                                         *)
(* ram_alloc_set connects the domain to the memory server: it asks the     *)
(* monitor for the server's iref, binds in get_mem_iref_reply, and waits   *)
(* in the event loop until bind_continuation (or a failed mem_bind) sets   *)
(* mem_connect_done.  USER_PANIC_ERR on a failed mem_rpc_client_init      *)
(* aborts the domain and is left out.                                      *)
(*                                                                         *)
(* Threads then call ram_alloc_remote and ram_free_remote, which send one *)
(* RPC at a time under ram_alloc_lock.  The RPC that returns a RAM cap     *)
(* takes a slot from the default slot allocator.  As the comment of        *)
(* ram_alloc_remote says, the slot allocator grows when it hands out its   *)
(* last slot (space = 1), and growing calls ram_alloc; under the lock      *)
(* that call blocks on the lock its own thread holds.  ram_alloc_remote    *)
(* therefore grows the allocator before it takes the lock when space = 1. *)
(* space counts the free slots; growing refills it to SlotsPerCNode.       *)
(*                                                                         *)
(* The local allocator of the file is ram_alloc_fixed with ram_free_fixed: *)
(* it hands out the slots of cnode_base one after the other, guarded only *)
(* by an assert, and cannot free.  A failed assert aborts the domain.     *)
(***************************************************************************)
EXTENDS Naturals, FiniteSets

CONSTANTS
    Threads,        \* the domain's threads
    Allocators,     \* the threads that call ram_alloc; the others call ram_free
    SlotsPerCNode,  \* free slots after the slot allocator grew
    MaxCalls,       \* bound: calls per thread
    ObjsPerPage,    \* OBJSPERPAGE_CTE: the slots of cnode_base
    NoThread        \* model value: ram_alloc_lock is free

ASSUME Allocators \subseteq Threads /\ SlotsPerCNode \in Nat /\ SlotsPerCNode >= 2
       /\ MaxCalls \in Nat \ {0} /\ ObjsPerPage \in Nat \ {0}

VARIABLES
    func,      \* ram_alloc_func: "none", "remote" or "local"
    setPc,     \* ram_alloc_set: "start", "wait" or "returned"
    conn,      \* the connection: "none", "iref" (request sent), "binding", "ok", "err"
    space,     \* free slots of the default slot allocator
    lock,      \* the holder of ram_alloc_lock
    pc,        \* pc[t]: "idle", "lockwait", "rpc" or "selfwait"
    calls,     \* calls[t]: calls thread t made
    base_capnum, \* ram_alloc_state->base_capnum
    aborted    \* a failed assert ended the domain

rpc == <<func, setPc, conn, space, lock, pc, calls>>
local == <<base_capnum, aborted>>
vars == <<rpc, local>>

Op(t) == IF t \in Allocators THEN "alloc" ELSE "free"

-----------------------------------------------------------------------------
(* ram_alloc_set and the connection to the memory server                    *)

\* ram_alloc_set with a local allocator: install it and return.
ram_alloc_set_local ==
    /\ setPc = "start"
    /\ func' = "local"
    /\ setPc' = "returned"
    /\ UNCHANGED <<local, conn, space, lock, pc, calls>>

\* ram_alloc_set without one: send get_mem_iref_request, then wait;
\* a failed send returns at once.
ram_alloc_set_remote ==
    /\ setPc = "start"
    /\ \/ /\ conn' = "iref"
          /\ setPc' = "wait"
       \/ /\ setPc' = "returned"
          /\ UNCHANGED conn
    /\ UNCHANGED <<local, func, space, lock, pc, calls>>

\* get_mem_iref_reply: assert that the monitor knows the memory server's
\* iref (its answer is not under src/, so either can come), then bind to
\* the server; a failed mem_bind is recorded as the connection's outcome.
get_mem_iref_reply ==
    /\ conn = "iref" /\ ~aborted
    /\ \/ /\ aborted' = TRUE
          /\ UNCHANGED conn
       \/ /\ conn' \in {"binding", "err"}
          /\ UNCHANGED aborted
    /\ UNCHANGED <<base_capnum, func, setPc, space, lock, pc, calls>>

\* bind_continuation records the outcome of the bind.
bind_continuation ==
    /\ conn = "binding"
    /\ conn' \in {"ok", "err"}
    /\ UNCHANGED <<local, func, setPc, space, lock, pc, calls>>

\* Bug variant: the wait loops until the connection succeeded.
ram_alloc_set_returns_okonly ==
    /\ setPc = "wait"
    /\ conn = "ok"
    /\ setPc' = "returned"
    /\ func' = "remote"
    /\ UNCHANGED <<local, conn, space, lock, pc, calls>>

\* ram_alloc_set's wait ends: install ram_alloc_remote if connected.
ram_alloc_set_returns ==
    /\ setPc = "wait"
    /\ conn \in {"ok", "err"}
    /\ setPc' = "returned"
    /\ func' = IF conn = "ok" THEN "remote" ELSE func
    /\ UNCHANGED <<local, conn, space, lock, pc, calls>>

-----------------------------------------------------------------------------
(* ram_alloc_remote and ram_free_remote                                     *)

\* ram_alloc_remote up to thread_mutex_lock, with the pre-grow when
\* preGrow: with one slot left, slot_alloc and slot_free first, which
\* grows the allocator to refill slots by a ram_alloc that needs the lock;
\* a failed slot_alloc or slot_free returns the error.
RamAllocRemoteUpToLock(t, preGrow, refill) ==
    /\ func = "remote"
    /\ t \in Allocators
    /\ pc[t] = "idle"
    /\ calls[t] < MaxCalls
    /\ calls' = [calls EXCEPT ![t] = @ + 1]
    /\ \/ /\ space # 1 \/ ~preGrow
          /\ pc' = [pc EXCEPT ![t] = "lockwait"]
          /\ UNCHANGED space
       \/ /\ space = 1 /\ preGrow
          /\ lock = NoThread
          /\ space' = refill
          /\ pc' = [pc EXCEPT ![t] = "lockwait"]
       \/ /\ space = 1 /\ preGrow
          /\ UNCHANGED <<pc, space>>
    /\ UNCHANGED <<local, func, setPc, conn, lock>>

\* Bug variant: ram_alloc_remote without the slot-allocator pre-grow.
ram_alloc_remote_nogrow(t) == RamAllocRemoteUpToLock(t, FALSE, SlotsPerCNode)

\* Bug variant: the slot freed after growing is counted on top of the new
\* CNode's slots.
ram_alloc_remote_overfill(t) == RamAllocRemoteUpToLock(t, TRUE, SlotsPerCNode + 1)

ram_alloc_remote(t) == RamAllocRemoteUpToLock(t, TRUE, SlotsPerCNode)

\* ram_free_remote up to thread_mutex_lock.
ram_free_remote(t) ==
    /\ func = "remote"
    /\ t \notin Allocators
    /\ pc[t] = "idle"
    /\ calls[t] < MaxCalls
    /\ calls' = [calls EXCEPT ![t] = @ + 1]
    /\ pc' = [pc EXCEPT ![t] = "lockwait"]
    /\ UNCHANGED <<local, func, setPc, conn, space, lock>>

\* thread_mutex_lock(&ram_alloc_lock) returns; the RPC is sent.
thread_mutex_lock(t) ==
    /\ pc[t] = "lockwait"
    /\ lock = NoThread
    /\ lock' = t
    /\ pc' = [pc EXCEPT ![t] = "rpc"]
    /\ UNCHANGED <<local, func, setPc, conn, space, calls>>

\* Bug variant: ram_free_remote forgets thread_mutex_unlock.
RpcReturnsNoUnlock(t) ==
    /\ pc[t] = "rpc"
    /\ \/ /\ Op(t) = "alloc"
          /\ space > 1
          /\ space' = space - 1
          /\ lock' = NoThread
          /\ pc' = [pc EXCEPT ![t] = "idle"]
       \/ /\ Op(t) = "alloc"
          /\ space = 1
          /\ pc' = [pc EXCEPT ![t] = "selfwait"]
          /\ UNCHANGED <<space, lock>>
       \/ /\ Op(t) = "free"
          /\ pc' = [pc EXCEPT ![t] = "idle"]
          /\ UNCHANGED <<space, lock>>
    /\ UNCHANGED <<local, func, setPc, conn, calls>>

\* The RPC returns.  The allocate RPC's cap takes a slot: with more than
\* one left the thread unlocks and returns; with the last one the slot
\* allocator grows by calling ram_alloc, whose thread_mutex_lock waits on
\* the lock this thread holds.  ram_free's RPC takes no slot.
RpcReturns(t) ==
    /\ pc[t] = "rpc"
    /\ \/ /\ Op(t) = "alloc"
          /\ space > 1
          /\ space' = space - 1
          /\ lock' = NoThread
          /\ pc' = [pc EXCEPT ![t] = "idle"]
       \/ /\ Op(t) = "alloc"
          /\ space = 1
          /\ pc' = [pc EXCEPT ![t] = "selfwait"]
          /\ UNCHANGED <<space, lock>>
       \/ /\ Op(t) = "free"
          /\ lock' = NoThread
          /\ pc' = [pc EXCEPT ![t] = "idle"]
          /\ UNCHANGED space
    /\ UNCHANGED <<local, func, setPc, conn, calls>>

-----------------------------------------------------------------------------
(* ram_alloc_fixed and ram_free_fixed, installed by ram_alloc_set_local     *)

\* ram_alloc through ram_alloc_fixed: a page-sized request takes the next
\* slot of cnode_base, after an assert that one is left; any other size
\* returns LIB_ERR_RAM_ALLOC_WRONG_SIZE.  Nothing locks base_capnum, and
\* the call is one step.
ram_alloc_fixed(t, size_bits) ==
    /\ func = "local" /\ ~aborted
    /\ t \in Allocators /\ pc[t] = "idle" /\ calls[t] < MaxCalls
    /\ calls' = [calls EXCEPT ![t] = @ + 1]
    /\ IF size_bits # "page" THEN UNCHANGED local
       ELSE IF base_capnum < ObjsPerPage
          THEN /\ base_capnum' = base_capnum + 1
               /\ UNCHANGED aborted
          ELSE /\ aborted' = TRUE
               /\ UNCHANGED base_capnum
    /\ UNCHANGED <<func, setPc, conn, space, lock, pc>>

\* ram_free through ram_free_fixed: assert(!"NYI") aborts the domain.
ram_free_fixed(t) ==
    /\ func = "local" /\ ~aborted
    /\ t \notin Allocators /\ pc[t] = "idle" /\ calls[t] < MaxCalls
    /\ calls' = [calls EXCEPT ![t] = @ + 1]
    /\ aborted' = TRUE
    /\ UNCHANGED <<func, setPc, conn, space, lock, pc, base_capnum>>

-----------------------------------------------------------------------------

\* ram_alloc_init.
Init ==
    /\ func = "none"
    /\ setPc = "start"
    /\ conn = "none"
    /\ space = SlotsPerCNode
    /\ lock = NoThread
    /\ pc = [t \in Threads |-> "idle"]
    /\ calls = [t \in Threads |-> 0]
    /\ base_capnum = 0
    /\ aborted = FALSE

Next ==
    \/ ram_alloc_set_local
    \/ ram_alloc_set_remote
    \/ get_mem_iref_reply
    \/ bind_continuation
    \/ ram_alloc_set_returns
    \/ \E t \in Threads :
          \/ ram_alloc_remote(t)
          \/ ram_free_remote(t)
          \/ thread_mutex_lock(t)
          \/ RpcReturns(t)
          \/ \E size_bits \in {"page", "other"} : ram_alloc_fixed(t, size_bits)
          \/ ram_free_fixed(t)

\* The domain's start-up calls ram_alloc_set, messages are delivered and a
\* thread waiting on a free mutex gets it in time; threads are not obliged
\* to call.
Fairness ==
    /\ WF_vars(ram_alloc_set_local \/ ram_alloc_set_remote)
    /\ WF_vars(get_mem_iref_reply) /\ WF_vars(bind_continuation)
    /\ WF_vars(ram_alloc_set_returns)
    /\ \A t \in Threads : WF_vars(thread_mutex_lock(t)) /\ WF_vars(RpcReturns(t))

Spec == Init /\ [][Next]_vars /\ Fairness

-----------------------------------------------------------------------------
(* Properties                                                               *)

TypeOK ==
    /\ func \in {"none", "remote", "local"}
    /\ setPc \in {"start", "wait", "returned"}
    /\ conn \in {"none", "iref", "binding", "ok", "err"}
    /\ space \in 1..SlotsPerCNode
    /\ lock \in Threads \cup {NoThread}
    /\ pc \in [Threads -> {"idle", "lockwait", "rpc", "selfwait"}]
    /\ calls \in [Threads -> 0..MaxCalls]
    /\ base_capnum \in 0..ObjsPerPage /\ aborted \in BOOLEAN

\* Whenever a thread holds ram_alloc_lock for an allocate RPC, the slot
\* allocator has a slot to spare, so the slot the RPC takes never makes it
\* grow under the lock: the pre-grow of ram_alloc_remote is enough.
LockedAllocHasSpareSlot ==
    \A t \in Allocators : (pc[t] = "rpc" /\ lock = t) => space > 1

\* ram_alloc_set returns unless an assert ended the domain: every path of
\* the connection through get_mem_iref_reply and bind_continuation sets
\* mem_connect_done.
RamAllocSetReturns == <>(setPc = "returned" \/ aborted)

\* Every ram_alloc and ram_free call returns.
EveryCallReturns ==
    \A t \in Threads : (pc[t] # "idle") ~> (pc[t] = "idle")

=============================================================================
