--------------------------- MODULE MonitorBlockingRpc ---------------------------
(***************************************************************************)
(* The monitors' blocking RPC server, src/usr/monitor/monitor_rpc_server.c, *)
(* apart from the remote capability operations (MonitorCapOps): route ids, *)
(* IRQ vectors, the resource-control calls, alloc_monitor_ep and           *)
(* cap_identify, on the binding connect_callback sets up.                  *)
(*                                                                         *)
(* monitor_rpc_init exports the service; export_callback asserts success  *)
(* and publishes the iref; connect_callback installs rx_vtbl on a client's *)
(* binding.  The client is a blocking RPC client: it makes one call at a   *)
(* time and waits for the response.  Each handler sends the response       *)
(* itself, except rpc_rsrc_join on success, which hands the binding to the *)
(* resource-control layer (not under src/) to answer later; rsrc_manifest  *)
(* hands it over too when its rsrc_join succeeds, and responds.  Failed    *)
(* asserts and USER_PANIC_ERR abort the monitor.  Sending a response on    *)
(* the binding whose client waits for it is taken to succeed.             *)
(*                                                                         *)
(* Each core's monitor keeps its own current_route_id and nextvec.         *)
(* mon_allocate_route_id pre-increments current_route_id inside an assert *)
(* that keeps it below 0xffffff, and tags it with the core id in the top  *)
(* 8 bits of the 32-bit route id.  irq_handle_call takes vectors from      *)
(* nextvec and never reuses one.  The widths are the code's; counters      *)
(* start at values a monitor reaches after that many allocations           *)
(* (StartIds), so that the rollover assert is reached within a few calls.  *)
(***************************************************************************)
EXTENDS Naturals, FiniteSets

CONSTANTS
    Cores,         \* core ids of the monitors, one client binding each
    StartIds,      \* values current_route_id may have reached
    IrqTableSize,  \* vectors invoke_irqtable_set accepts
    MaxCalls       \* bound: calls per client

ASSUME Cores \subseteq Nat /\ StartIds \subseteq Nat /\ IrqTableSize \in Nat
       /\ MaxCalls \in Nat

RouteLimit == 16777215   \* 0xffffff

\* coreid << 24; coreid < 0xff, asserted, keeps it within 32 bits.
RouteTag(c) == c * 16777216

\* The calls of rx_vtbl this module serves.
Calls == {"route", "irq", "manifest", "join", "phase", "ep", "identify"}
NoCall == [k |-> "none", n |-> 0]

VARIABLES
    currentRouteId,  \* currentRouteId[c]: current_route_id of core c's monitor
    nextvec,         \* nextvec[c]: irq_handle_call's static nextvec
    irqTable,        \* irqTable[c]: vectors set in core c's IRQ table
    issued,          \* route ids handed out (history)
    replies,         \* allocate_route_id replies sent (history)
    aborted,         \* the monitors that aborted
    rpc,             \* rpc[c]: "exporting", "exported" or "bound"
    call,            \* call[c]: the call the client waits on: kind k, number n
    handled,         \* handled[c]: the monitor has run the call's handler
    owed,            \* owed[c]: the calls whose join the resource layer answers
    calls            \* calls[c]: calls client c made

ids == <<currentRouteId, nextvec, irqTable, issued, replies>>
binding == <<rpc, call, handled, owed, calls>>
vars == <<ids, aborted, binding>>

-----------------------------------------------------------------------------
(* Route ids                                                                *)

\* Bug variant: the rollover assert checks 25 bits.
mon_allocate_route_id_wide(c) ==
    LET next == currentRouteId[c] + 1 IN
    \/ /\ next < 2 * RouteLimit + 1
       /\ currentRouteId' = [currentRouteId EXCEPT ![c] = next]
       /\ issued' = issued \cup {RouteTag(c) + next}
       /\ replies' = replies + 1
       /\ UNCHANGED aborted
    \/ /\ ~(next < 2 * RouteLimit + 1)
       /\ currentRouteId' = [currentRouteId EXCEPT ![c] = next]
       /\ aborted' = aborted \cup {c}
       /\ UNCHANGED <<issued, replies>>

\* Bug variant: built with NDEBUG, the increment inside the assert is gone.
mon_allocate_route_id_ndebug(c) ==
    /\ issued' = issued \cup {RouteTag(c) + currentRouteId[c]}
    /\ replies' = replies + 1
    /\ UNCHANGED <<currentRouteId, aborted>>

\* mon_allocate_route_id: assert(coreid < 0xff) and
\* assert(++current_route_id < 0xffffff), then (coreid << 24) | id.  The
\* assert's increment happens before it aborts.  The id is below 2^24, so
\* the or is a sum.  The counter never gets near 2^32.
mon_allocate_route_id(c) ==
    LET next == currentRouteId[c] + 1 IN
    \/ /\ c >= 255
       /\ aborted' = aborted \cup {c}
       /\ UNCHANGED <<currentRouteId, issued, replies>>
    \/ /\ c < 255 /\ next < RouteLimit
       /\ currentRouteId' = [currentRouteId EXCEPT ![c] = next]
       /\ issued' = issued \cup {RouteTag(c) + next}
       /\ replies' = replies + 1
       /\ UNCHANGED aborted
    \/ /\ c < 255 /\ ~(next < RouteLimit)
       /\ currentRouteId' = [currentRouteId EXCEPT ![c] = next]
       /\ aborted' = aborted \cup {c}
       /\ UNCHANGED <<issued, replies>>

-----------------------------------------------------------------------------
(* The binding                                                              *)

\* monitor_rpc_init: the export is under way.
monitor_rpc_init == [c \in Cores |-> "exporting"]

\* export_callback: assert(err_is_ok(err)), then set_monitor_rpc_iref.
export_callback(c) ==
    /\ rpc[c] = "exporting" /\ c \notin aborted
    /\ \/ rpc' = [rpc EXCEPT ![c] = "exported"] /\ UNCHANGED aborted
       \/ aborted' = aborted \cup {c} /\ UNCHANGED rpc
    /\ UNCHANGED <<ids, call, handled, owed, calls>>

\* connect_callback: a client binds to the iref; rx_vtbl is installed.
connect_callback(c) ==
    /\ rpc[c] = "exported" /\ c \notin aborted
    /\ rpc' = [rpc EXCEPT ![c] = "bound"]
    /\ UNCHANGED <<ids, aborted, call, handled, owed, calls>>

\* The client makes a blocking call once its previous one was answered.
Call(c, k) ==
    /\ rpc[c] = "bound" /\ c \notin aborted
    /\ call[c] = NoCall /\ calls[c] < MaxCalls
    /\ call' = [call EXCEPT ![c] = [k |-> k, n |-> calls[c] + 1]]
    /\ handled' = [handled EXCEPT ![c] = FALSE]
    /\ calls' = [calls EXCEPT ![c] = @ + 1]
    /\ UNCHANGED <<ids, aborted, rpc, owed>>

\* rx_vtbl: the monitor's event loop hands the waiting call of kind k to
\* its handler, once.
Serve(c, k) ==
    /\ c \notin aborted
    /\ call[c].k = k /\ ~handled[c]
    /\ handled' = [handled EXCEPT ![c] = TRUE]

\* A response on client c's binding: the client takes it as the answer to
\* the call it waits on, whichever call it was sent for.
Reply(c) == call' = [call EXCEPT ![c] = NoCall]

-----------------------------------------------------------------------------
(* Handlers                                                                 *)

\* allocate_route_id: reply with a fresh route id, unless an assert of
\* mon_allocate_route_id aborts the monitor.
allocate_route_id(c) ==
    /\ Serve(c, "route")
    /\ mon_allocate_route_id(c)
    /\ IF c \in aborted' THEN UNCHANGED call ELSE Reply(c)
    /\ UNCHANGED <<nextvec, irqTable, rpc, owed, calls>>

\* irq_handle_call: vec = nextvec++; the kernel sets a vector inside its
\* table and refuses the others; the reply carries vec and the result.
irq_handle_call(c) ==
    LET vec == nextvec[c] IN
    /\ Serve(c, "irq")
    /\ nextvec' = [nextvec EXCEPT ![c] = @ + 1]
    /\ irqTable' = IF vec < IrqTableSize
                   THEN [irqTable EXCEPT ![c] = @ \cup {vec}]
                   ELSE irqTable
    /\ Reply(c)
    /\ UNCHANGED <<currentRouteId, issued, replies, aborted, rpc, owed, calls>>

\* rsrc_manifest: rsrc_new, rsrc_join(id, dispcap, b) and
\* rsrc_submit_manifest; each failure jumps to out, and every path sends
\* the one response (with the id, written or not, and the error).  A
\* successful rsrc_join has handed b to the resource layer, as in
\* rpc_rsrc_join.
rsrc_manifest(c) ==
    /\ Serve(c, "manifest")
    /\ Reply(c)
    /\ \/ UNCHANGED owed
       \/ owed' = [owed EXCEPT ![c] = @ \cup {call[c].n}]
    /\ UNCHANGED <<ids, aborted, rpc, calls>>

\* rsrc_phase: assert(err_is_ok(rsrc_set_phase(id, phase))), so an id the
\* resource layer does not know aborts the monitor; else respond.
rsrc_phase(c) ==
    /\ Serve(c, "phase")
    /\ \/ Reply(c) /\ UNCHANGED aborted
       \/ aborted' = aborted \cup {c} /\ UNCHANGED call
    /\ UNCHANGED <<ids, rpc, owed, calls>>

\* Bug variant: rpc_rsrc_join never responds itself.
rpc_rsrc_join_silent(c) ==
    /\ Serve(c, "join")
    /\ \/ UNCHANGED owed
       \/ owed' = [owed EXCEPT ![c] = @ \cup {call[c].n}]
    /\ UNCHANGED <<ids, aborted, rpc, call, calls>>

\* rpc_rsrc_join: a failed rsrc_join is answered here; a successful one
\* keeps the binding b, and the resource layer answers it later.
rpc_rsrc_join(c) ==
    /\ Serve(c, "join")
    /\ \/ Reply(c) /\ UNCHANGED owed
       \/ owed' = [owed EXCEPT ![c] = @ \cup {call[c].n}] /\ UNCHANGED call
    /\ UNCHANGED <<ids, aborted, rpc, calls>>

\* The resource layer sends an rsrc_join response it owes on b.
RsrcJoinReply(c) ==
    /\ c \notin aborted
    /\ \E n \in owed[c] :
          /\ Reply(c)
          /\ owed' = [owed EXCEPT ![c] = @ \ {n}]
    /\ UNCHANGED <<ids, aborted, rpc, handled, calls>>

\* alloc_monitor_ep: whether monitor_client_lmp_accept succeeds or not, it
\* responds once, with the new endpoint or the error.
alloc_monitor_ep(c) ==
    /\ Serve(c, "ep")
    /\ Reply(c)
    /\ UNCHANGED <<ids, aborted, rpc, owed, calls>>

\* cap_identify: respond, then cap_destroy the cap; a failed destroy is a
\* USER_PANIC_ERR after the response went out.
cap_identify(c) ==
    /\ Serve(c, "identify")
    /\ Reply(c)
    /\ \/ UNCHANGED aborted
       \/ aborted' = aborted \cup {c}
    /\ UNCHANGED <<ids, rpc, owed, calls>>

-----------------------------------------------------------------------------

Init ==
    /\ currentRouteId \in [Cores -> StartIds]
    /\ nextvec = [c \in Cores |-> 0]
    /\ irqTable = [c \in Cores |-> {}]
    /\ issued = {}
    /\ replies = 0
    /\ aborted = {}
    /\ rpc = monitor_rpc_init
    /\ call = [c \in Cores |-> NoCall]
    /\ handled = [c \in Cores |-> TRUE]
    /\ owed = [c \in Cores |-> {}]
    /\ calls = [c \in Cores |-> 0]

\* What core c's monitor does: its event loop, and the resource layer in it.
Monitor(c) ==
    \/ export_callback(c)
    \/ connect_callback(c)
    \/ allocate_route_id(c)
    \/ irq_handle_call(c)
    \/ rsrc_manifest(c)
    \/ rsrc_phase(c)
    \/ rpc_rsrc_join(c)
    \/ RsrcJoinReply(c)
    \/ alloc_monitor_ep(c)
    \/ cap_identify(c)

Next == \E c \in Cores : Monitor(c) \/ \E k \in Calls : Call(c, k)

\* A monitor's event loop handles every message that arrives, and the
\* resource layer answers the joins it took over; clients need not call.
Spec == Init /\ [][Next]_vars /\ \A c \in Cores : WF_vars(Monitor(c))

-----------------------------------------------------------------------------
(* Properties                                                               *)

TypeOK ==
    /\ currentRouteId \in [Cores -> 0..RouteLimit]
    /\ nextvec \in [Cores -> Nat]
    /\ irqTable \in [Cores -> SUBSET (0..(IrqTableSize - 1))]
    /\ issued \subseteq Nat
    /\ replies \in Nat
    /\ aborted \subseteq Cores
    /\ rpc \in [Cores -> {"exporting", "exported", "bound"}]
    /\ call \in [Cores -> {NoCall} \cup [k : Calls, n : 1..MaxCalls]]
    /\ handled \in [Cores -> BOOLEAN]
    /\ owed \in [Cores -> SUBSET (1..MaxCalls)]
    /\ calls \in [Cores -> 0..MaxCalls]

\* No route id is handed out twice, by one monitor or by two: every
\* allocate_route_id reply carries an id no earlier reply of any core
\* carried.  The core tag in the top 8 bits and the rollover assert keep
\* the per-core counters apart.
RouteIdsUnique == Cardinality(issued) = replies

\* Every blocking call is answered, unless the monitor aborted: every path
\* of every handler responds or leaves the response to the resource layer.
EveryCallAnswered ==
    \A c \in Cores : call[c] # NoCall ~> (call[c] = NoCall \/ c \in aborted)

=============================================================================
