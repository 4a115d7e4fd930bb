-------------------------------- MODULE Boot --------------------------------
(***************************************************************************)
(* Boot/liveness tracker of the bootstrap (BSP) monitor.                   *)
(*                                                                         *)
(* boot_core_request, intern_new_monitor, get_num_connections and          *)
(* boot_initialize_request are translated from src/usr/monitor/boot.c.     *)
(* The boot manager sends one request at a time and waits for its reply    *)
(* (boot.c lines 128-129).  The other cores' side is not under src/ and    *)
(* is modelled from spec.md 4.6: a spawned monitor initializes and binds   *)
(* to the BSP, and a monitor told of a new one connects to it, the BSP     *)
(* counting each such connection in seen_connections.                      *)
(*                                                                         *)
(* The waits of the handlers run messages_wait_and_handle_next, so other   *)
(* events interleave with them; a send that is busy (FLOUNDER_ERR_TX_BUSY) *)
(* is a wait of that kind.  Each send of intern_new_monitor is one step.   *)
(***************************************************************************)
EXTENDS Integers, FiniteSets

CONSTANTS
    Cores,          \* core ids, the BSP's one included
    BSP,            \* my_core_id of the monitor that boots the others
    SpawnMayFail,   \* spawn_xcore_monitor may fail
    NotifyMayFail   \* a new_monitor_notify send may fail with an error other than TX_BUSY

ASSUME /\ Cores \subseteq Nat /\ BSP \in Cores
       /\ SpawnMayFail \in BOOLEAN /\ NotifyMayFail \in BOOLEAN

VARIABLES
    monitorsUp,     \* monitors_up[p]
    numMonitors,    \* num_monitors
    seen,           \* seen_connections
    pc,             \* the BSP handler running: at, the core it boots, the peers left to notify
    requested,      \* the cores the boot manager has sent boot_core_request for
    running,        \* cores whose monitor spawn_xcore_monitor started
    initialized,    \* cores whose monitor is bound to the BSP (intern[i].closure, initialize flag)
    pending,        \* pairs told to connect whose connection is not up yet
    conn            \* pairs whose monitors are connected

vars == <<monitorsUp, numMonitors, seen, pc, requested, running, initialized, pending, conn>>

Pcs == [at : {"idle", "wait_init", "notify", "init_wait", "done"},
        id : Cores, todo : SUBSET Cores]

Pairs == {{i, j} : i, j \in Cores} \ {{i} : i \in Cores}

-----------------------------------------------------------------------------

\* get_num_connections: connections among num monitors, none with the BSP.
RECURSIVE get_num_connections(_)
\* Bug variant: each new monitor is counted with one connection too many.
get_num_connections_off(num) ==
    IF num = 1 \/ num = 2 THEN 0
    ELSE IF num = 3 THEN 1
    ELSE (num - 1) + get_num_connections(num - 1)

get_num_connections(num) ==
    IF num = 1 \/ num = 2 THEN 0
    ELSE IF num = 3 THEN 1
    ELSE (num - 2) + get_num_connections(num - 1)

\* The handler has sent its boot_core_reply (send_boot_core_reply) and the
\* BSP monitor waits for the next request.
Idle == [at |-> "idle", id |-> BSP, todo |-> {}]

\* boot_core_request, up to the wait for the new monitor: reject the own
\* core and an unknown cpu type, mark the core up, spawn its monitor.
boot_core_request(id, knownType) ==
    /\ pc.at = "idle"
    /\ id \notin requested
    /\ requested' = requested \cup {id}
    /\ \/ /\ id = BSP \/ ~knownType
          /\ UNCHANGED <<monitorsUp, running, pc>>
       \/ /\ id # BSP /\ knownType
          /\ monitorsUp' = [monitorsUp EXCEPT ![id] = TRUE]
          /\ \/ /\ running' = running \cup {id}
                /\ pc' = [at |-> "wait_init", id |-> id, todo |-> {}]
             \/ /\ SpawnMayFail
                /\ UNCHANGED <<running, pc>>
    /\ UNCHANGED <<numMonitors, seen, initialized, pending, conn>>

\* Bug variant: intern_new_monitor without its i != id test.
BootWaitInitializedSelf ==
    /\ pc.at = "wait_init"
    /\ pc.id \in initialized
    /\ pc' = [pc EXCEPT !.at = "notify", !.todo = initialized]
    /\ UNCHANGED <<monitorsUp, numMonitors, seen, requested, running, initialized, pending, conn>>

\* The wait for intern_get_initialize ends: inform every monitor bound to
\* the BSP but the new one (intern_new_monitor).
BootWaitInitialized ==
    /\ pc.at = "wait_init"
    /\ pc.id \in initialized
    /\ pc' = [pc EXCEPT !.at = "notify", !.todo = initialized \ {pc.id}]
    /\ UNCHANGED <<monitorsUp, numMonitors, seen, requested, running, initialized, pending, conn>>

\* One new_monitor_notify of intern_new_monitor's loop, in core-id order;
\* an error other than TX_BUSY aborts the loop and the boot.
intern_new_monitor_send ==
    /\ pc.at = "notify"
    /\ pc.todo # {}
    /\ LET i == CHOOSE j \in pc.todo : \A k \in pc.todo : j <= k IN
       \/ /\ pending' = pending \cup {{i, pc.id}}
          /\ pc' = [pc EXCEPT !.todo = @ \ {i}]
       \/ /\ NotifyMayFail
          /\ pc' = Idle
          /\ UNCHANGED pending
    /\ UNCHANGED <<monitorsUp, numMonitors, seen, requested, running, initialized, conn>>

\* Bug variant: num_monitors++ forgotten.
BootCoreDoneUncounted ==
    /\ pc.at = "notify"
    /\ pc.todo = {}
    /\ pc' = Idle
    /\ UNCHANGED <<monitorsUp, numMonitors, seen, requested, running, initialized, pending, conn>>

\* intern_new_monitor succeeded: count the monitor and reply.
BootCoreDone ==
    /\ pc.at = "notify"
    /\ pc.todo = {}
    /\ numMonitors' = numMonitors + 1
    /\ pc' = Idle
    /\ UNCHANGED <<monitorsUp, seen, requested, running, initialized, pending, conn>>

\* boot_initialize_request, after the boot manager booted every core.
boot_initialize_request ==
    /\ pc.at = "idle"
    /\ requested = Cores
    /\ monitorsUp' = [monitorsUp EXCEPT ![BSP] = TRUE]
    /\ pc' = [pc EXCEPT !.at = "init_wait"]
    /\ UNCHANGED <<numMonitors, seen, requested, running, initialized, pending, conn>>

\* Bug variant: the wait loops while num_connections >= seen_connections.
BootInitializeReplyStrict ==
    /\ pc.at = "init_wait"
    /\ get_num_connections(numMonitors) < seen
    /\ pc' = [pc EXCEPT !.at = "done"]
    /\ UNCHANGED <<monitorsUp, numMonitors, seen, requested, running, initialized, pending, conn>>

\* Its wait ends once get_num_connections(num_monitors) are seen; reply.
BootInitializeReply ==
    /\ pc.at = "init_wait"
    /\ get_num_connections(numMonitors) <= seen
    /\ pc' = [pc EXCEPT !.at = "done"]
    /\ UNCHANGED <<monitorsUp, numMonitors, seen, requested, running, initialized, pending, conn>>

\* A spawned monitor initializes and binds to the BSP.
MonitorInitialized(id) ==
    /\ id \in running \ initialized
    /\ initialized' = initialized \cup {id}
    /\ UNCHANGED <<monitorsUp, numMonitors, seen, pc, requested, running, pending, conn>>

\* A notified monitor's connection to the new one is up and counted.
ConnectionUp(pr) ==
    /\ pr \in pending
    /\ pending' = pending \ {pr}
    /\ conn' = conn \cup {pr}
    /\ seen' = seen + 1
    /\ UNCHANGED <<monitorsUp, numMonitors, pc, requested, running, initialized>>

\* Boot is over: the BSP monitor goes on with its other work.
Booted ==
    /\ pc.at = "done"
    /\ UNCHANGED vars

Init ==
    /\ monitorsUp = [p \in Cores |-> FALSE]
    /\ numMonitors = 1
    /\ seen = 0
    /\ pc = Idle
    /\ requested = {}
    /\ running = {}
    /\ initialized = {}
    /\ pending = {}
    /\ conn = {}

Next ==
    \/ \E id \in Cores, knownType \in BOOLEAN : boot_core_request(id, knownType)
    \/ BootWaitInitialized
    \/ intern_new_monitor_send
    \/ BootCoreDone
    \/ boot_initialize_request
    \/ BootInitializeReply
    \/ \E id \in Cores : MonitorInitialized(id)
    \/ \E pr \in Pairs : ConnectionUp(pr)
    \/ Booted

\* The BSP monitor's handlers run to their end, the boot manager goes on
\* sending requests until every core had one, and the other monitors
\* initialize and connect.
Fairness ==
    /\ WF_vars(\E id \in Cores, knownType \in BOOLEAN : boot_core_request(id, knownType))
    /\ WF_vars(BootWaitInitialized) /\ WF_vars(intern_new_monitor_send)
    /\ WF_vars(BootCoreDone) /\ WF_vars(boot_initialize_request)
    /\ WF_vars(BootInitializeReply)
    /\ \A id \in Cores : WF_vars(MonitorInitialized(id))
    /\ \A pr \in Pairs : WF_vars(ConnectionUp(pr))

Spec == Init /\ [][Next]_vars /\ Fairness

-----------------------------------------------------------------------------
(* Properties                                                               *)

TypeOK ==
    /\ monitorsUp \in [Cores -> BOOLEAN]
    /\ numMonitors \in 1..Cardinality(Cores)
    /\ seen \in 0..Cardinality(Pairs)
    /\ pc \in Pcs
    /\ requested \subseteq Cores
    /\ running \subseteq Cores \ {BSP}
    /\ initialized \subseteq running
    /\ pending \subseteq Pairs /\ conn \subseteq Pairs

\* get_num_connections is the triangular number (n-1)(n-2)/2 of spec.md
\* 4.6 for 1 to 6 monitors (0, 0, 1, 3, 6, 10) and for the num_monitors
\* boot_initialize_request waits on.
ConnectionsClosedForm ==
    \A n \in (1..6) \cup {numMonitors} :
        get_num_connections(n) = ((n - 1) * (n - 2)) \div 2

\* When boot_initialize_request replies, every two monitors bound to the
\* BSP are connected to each other: counting seen_connections against
\* get_num_connections(num_monitors) gates the distributed protocols until
\* the full mesh is up, whatever order the connections came up in.
FullMeshAtInitialize ==
    pc.at = "done" =>
        \A i, j \in initialized : i # j => {i, j} \in conn

\* Boot ends: every boot_core_request is answered and the wait of
\* boot_initialize_request for the connections ends.
BootCompletes == <>(pc.at = "done")

=============================================================================
