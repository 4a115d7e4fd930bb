----------------------------- MODULE SpawnClient -----------------------------
(***************************************************************************)
(* The spawn client of a domain, src/lib/barrelfish/spawn_client.c.        *)
(*                                                                         *)
(* Callers (threads, or handlers the event loop runs) ask the spawn daemon *)
(* of a core to spawn a program (spawn_program), to use a local memory     *)
(* server (spawn_set_local_memserv, through bind_client), or spawn on      *)
(* every core (spawn_program_on_all_cores).  The RPC client of a core is   *)
(* made lazily: the daemon's iref is looked up under "spawn.<core>", the   *)
(* caller binds and waits in messages_wait_and_handle_next until           *)
(* spawn_bind_cont fills in its bindst, during which other callers run.    *)
(*                                                                         *)
(* client[c] is get_spawn_rpc_client(c): "none", "ok" (a client on a good  *)
(* binding) or "null" (a client initialized with a NULL binding, which the *)
(* build may accept).  USER_PANIC_ERR and failed asserts abort the domain: *)
(* panicked.                                                               *)
(***************************************************************************)
EXTENDS Naturals, FiniteSets, SequencesExt

CONSTANTS
    Procs,             \* callers of the spawn client
    MaxCpus,           \* MAX_CPUS: cores are 0 .. MaxCpus-1
    MyCore,            \* disp_get_core_id() of this domain
    Daemons,           \* the cores whose spawn daemon is registered
    TransportMayFail,  \* spawn_bind, the bind, malloc, RPC client init and RPCs may fail
    MaxCalls           \* bound: calls per caller

Cores == 0..(MaxCpus - 1)

ASSUME MyCore \in Cores /\ Daemons \subseteq Cores /\ TransportMayFail \in BOOLEAN
       /\ MaxCalls \in Nat \ {0}

VARIABLES
    client,    \* client[c]: get_spawn_rpc_client(c)
    panicked,  \* the domain aborted
    pc,        \* pc[p]: "idle", "bindwait", "rpc" or "loop"
    fn,        \* fn[p]: the call in progress, "spawn" or "memserv"
    core,      \* core[p]: its coreid
    bind,      \* bind[p]: the caller's last bindst: "none", "pending", "ok" or "err";
               \* only read while the caller waits for that bind
    loop,      \* loop[p]: spawn_program_on_all_cores of p
    calls      \* calls[p]: calls p made

vars == <<client, panicked, pc, fn, core, bind, loop, calls>>

NoLoop == [active |-> FALSE, same |-> FALSE, todo |-> {}, done |-> {}, result |-> "none"]

Loops == [active : BOOLEAN, same : BOOLEAN, todo : SUBSET Cores,
          done : SUBSET Cores, result : {"none", "ok", "err"}]

-----------------------------------------------------------------------------

\* The domain aborts (USER_PANIC_ERR, assert, a NULL binding dereferenced);
\* the caller's own variables are left to the action.
Panic ==
    /\ panicked' = TRUE
    /\ UNCHANGED <<client, bind, loop>>

\* Bug variant: spawn_program_on_all_cores goes on after any error.
FinishContinueOnError(p, c, res, lp) ==
    /\ pc' = [pc EXCEPT ![p] = IF lp[p].active THEN "loop" ELSE "idle"]
    /\ loop' = [lp EXCEPT ![p] =
                  IF ~@.active THEN @
                  ELSE IF res = "ok" THEN [@ EXCEPT !.done = @ \cup {c}]
                  ELSE @]
    /\ UNCHANGED <<client, panicked, bind>>

\* A call of p on core c returns res ("ok", "unknown" for
\* CHIPS_ERR_UNKNOWN_NAME, "err" for any other error), lp the loops so
\* far.  Inside spawn_program_on_all_cores an unknown name is skipped,
\* another error ends the loop with it, and success goes on.
Finish(p, c, res, lp) ==
    /\ pc' = [pc EXCEPT ![p] = IF lp[p].active /\ res # "err" THEN "loop" ELSE "idle"]
    /\ loop' = [lp EXCEPT ![p] =
                  IF ~@.active THEN @
                  ELSE IF res = "err" THEN [@ EXCEPT !.active = FALSE, !.result = "err"]
                  ELSE IF res = "ok" THEN [@ EXCEPT !.done = @ \cup {c}]
                  ELSE @]
    /\ UNCHANGED <<client, panicked, bind>>

\* The entry of spawn_program (f = "spawn") and of bind_client (f =
\* "memserv") on core c: use the core's client, or look the daemon up and
\* start binding.  A failed lookup returns its error; a failed spawn_bind
\* panics in spawn_program and is returned by bind_client.
Begin(p, f, c, lp) ==
    /\ fn' = [fn EXCEPT ![p] = f]
    /\ core' = [core EXCEPT ![p] = c]
    /\ \/ /\ client[c] # "none"
          /\ pc' = [pc EXCEPT ![p] = "rpc"]
          /\ loop' = lp
          /\ UNCHANGED <<client, panicked, bind>>
       \/ /\ client[c] = "none"
          /\ c \notin Daemons
          /\ Finish(p, c, "unknown", lp)
       \/ /\ client[c] = "none"
          /\ c \in Daemons
          /\ bind' = [bind EXCEPT ![p] = "pending"]
          /\ pc' = [pc EXCEPT ![p] = "bindwait"]
          /\ loop' = lp
          /\ UNCHANGED <<client, panicked>>
       \/ /\ client[c] = "none"
          /\ c \in Daemons /\ TransportMayFail
          /\ IF f = "spawn" THEN Panic /\ UNCHANGED pc
             ELSE Finish(p, c, "err", lp)

\* A call from an idle caller: spawn_program or spawn_set_local_memserv.
Call(p) ==
    /\ ~panicked
    /\ pc[p] = "idle"
    /\ calls[p] < MaxCalls
    /\ calls' = [calls EXCEPT ![p] = @ + 1]

spawn_program(p, c) == Call(p) /\ Begin(p, "spawn", c, loop)

spawn_set_local_memserv(p, c) == Call(p) /\ Begin(p, "memserv", c, loop)

\* Bug variant: the loop runs for c <= MAX_CPUS.
spawn_program_on_all_cores_past(p, same) ==
    /\ Call(p)
    /\ loop' = [loop EXCEPT ![p] = [NoLoop EXCEPT !.active = TRUE, !.same = same,
                                                  !.todo = 0..MaxCpus]]
    /\ pc' = [pc EXCEPT ![p] = "loop"]
    /\ UNCHANGED <<client, panicked, fn, core, bind>>

\* spawn_program_on_all_cores: loop over every core.
spawn_program_on_all_cores(p, same) ==
    /\ Call(p)
    /\ loop' = [loop EXCEPT ![p] = [NoLoop EXCEPT !.active = TRUE, !.same = same,
                                                  !.todo = Cores]]
    /\ pc' = [pc EXCEPT ![p] = "loop"]
    /\ UNCHANGED <<client, panicked, fn, core, bind>>

\* One iteration of its loop: at the end return SYS_ERR_OK; skip our own
\* core unless same_core; else call spawn_program on the next core.
AllCoresNext(p) ==
    LET c == CHOOSE x \in loop[p].todo : \A y \in loop[p].todo : x <= y
        next == [loop EXCEPT ![p].todo = @ \ {c}]
    IN /\ ~panicked
       /\ pc[p] = "loop"
       /\ \/ /\ loop[p].todo = {}
             /\ loop' = [loop EXCEPT ![p].active = FALSE, ![p].result = "ok"]
             /\ pc' = [pc EXCEPT ![p] = "idle"]
             /\ UNCHANGED <<client, panicked, fn, core, bind>>
          \/ /\ loop[p].todo # {}
             /\ ~loop[p].same /\ c = MyCore
             /\ loop' = next
             /\ UNCHANGED <<client, panicked, pc, fn, core, bind>>
          \/ /\ loop[p].todo # {}
             /\ loop[p].same \/ c # MyCore
             /\ Begin(p, "spawn", c, next)
       /\ UNCHANGED calls

\* Bug variant: spawn_bind_cont forgets retst->present = true.
spawn_bind_cont_nopresent(p) ==
    /\ ~panicked
    /\ bind[p] = "pending"
    /\ UNCHANGED vars

\* spawn_bind_cont: the bind completes and fills in the caller's bindst.
spawn_bind_cont(p) ==
    /\ ~panicked
    /\ bind[p] = "pending"
    /\ \E e \in IF TransportMayFail THEN {"ok", "err"} ELSE {"ok"} :
          bind' = [bind EXCEPT ![p] = e]
    /\ UNCHANGED <<client, panicked, pc, fn, core, loop, calls>>

\* spawn_program after its wait for the bind: a bind error panics; else an
\* RPC client is made on the binding and installed for the core, and a
\* failed spawn_rpc_client_init panics.
SpawnBindDone(p) ==
    LET c == core[p] IN
    /\ ~panicked
    /\ pc[p] = "bindwait" /\ fn[p] = "spawn"
    /\ bind[p] \in {"ok", "err"}
    /\ \/ /\ bind[p] = "ok"
          /\ client' = [client EXCEPT ![c] = "ok"]
          /\ pc' = [pc EXCEPT ![p] = "rpc"]
          /\ UNCHANGED <<panicked, bind>>
       \/ /\ bind[p] = "err" \/ TransportMayFail
          /\ panicked' = TRUE
          /\ UNCHANGED <<client, pc, bind>>
    /\ UNCHANGED <<fn, core, loop, calls>>

\* bind_client after its wait for the bind: spawn_b = bindst.b, then an RPC
\* client is made on bindst.b and installed, without a look at bindst.err.
\* After a failed bind bindst.b is NULL, and spawn_rpc_client_init on it
\* may crash, fail, or succeed and install a client on no binding.  A
\* failed malloc or init returns the error.
bind_client_done(p) ==
    LET c == core[p] IN
    /\ ~panicked
    /\ pc[p] = "bindwait" /\ fn[p] = "memserv"
    /\ bind[p] \in {"ok", "err"}
    /\ \/ /\ client' = [client EXCEPT ![c] = IF bind[p] = "ok" THEN "ok" ELSE "null"]
          /\ pc' = [pc EXCEPT ![p] = "rpc"]
          /\ UNCHANGED <<panicked, loop, bind>>
       \/ /\ bind[p] = "err" \/ TransportMayFail
          /\ Finish(p, c, "err", loop)
       \/ /\ bind[p] = "err"
          /\ panicked' = TRUE
          /\ UNCHANGED <<client, pc, bind, loop>>
    /\ UNCHANGED <<fn, core, calls>>

\* The RPC on the core's client: spawn_domain (a failed send panics, the
\* daemon's error is returned) or use_local_memserv.  A client without a
\* binding dereferences NULL.
Rpc(p) ==
    LET c == core[p] IN
    /\ ~panicked
    /\ pc[p] = "rpc"
    /\ \/ /\ client[c] = "null"
          /\ panicked' = TRUE
          /\ UNCHANGED <<client, pc, bind, loop>>
       \/ /\ client[c] = "ok"
          /\ \E res \in {"ok", "err"} :
                /\ fn[p] = "memserv" /\ res = "err" => TransportMayFail
                /\ Finish(p, c, res, loop)
       \/ /\ client[c] = "ok" /\ fn[p] = "spawn" /\ TransportMayFail
          /\ panicked' = TRUE
          /\ UNCHANGED <<client, pc, bind, loop>>
    /\ UNCHANGED <<fn, core, calls>>

-----------------------------------------------------------------------------
(* The spawn request spawn_program sends                                    *)
(*                                                                         *)
(* flounder cannot send an array of strings, so argv and envp go as one   *)
(* buffer each of '\0'-terminated strings, and an unqualified path is put *)
(* under $PATH.  A character is a number; 0 is '\0' and 47 is '/'.        *)

Nul == 0
Sep == 47

\* The first loop: argstrlen counts each string and its '\0'.
ArgStrLen(strs) == FoldLeft(LAMBDA n, s : n + Len(s) + 1, 0, strs)

\* The second loop: strcpy each string to argstrpos, then '\0' after it.
ArgStr(strs) == FoldLeft(LAMBDA buf, s : buf \o s \o <<Nul>>, <<>>, strs)

\* Bug variant: buflen leaves room for the terminator but not for the '/'.
SpawnPathNoSep(path, hasPath, searchpath) ==
    LET sp == IF hasPath THEN searchpath ELSE <<Sep>>
        buflen == Len(path) + Len(sp) + 1
    IN IF path # <<>> /\ path[1] = Sep THEN path
       ELSE SubSeq(sp \o <<Sep>> \o path, 1, buflen - 1)

\* The path spawn_domain gets: an absolute path as it is; else
\* "<PATH>/<path>", with "/" for an unset PATH, written by snprintf into
\* pathbuf[buflen], which keeps at most buflen - 1 characters.
SpawnPath(path, hasPath, searchpath) ==
    LET sp == IF hasPath THEN searchpath ELSE <<Sep>>
        buflen == Len(path) + Len(sp) + 2
    IN IF path # <<>> /\ path[1] = Sep THEN path
       ELSE SubSeq(sp \o <<Sep>> \o path, 1, buflen - 1)

\* Reference decoding of a buffer of '\0'-terminated strings, as the spawn
\* daemon reads it: the strings between the terminators.
RECURSIVE Unpack(_)
Unpack(buf) ==
    LET k == SelectInSeq(buf, LAMBDA ch : ch = Nul) IN
    IF buf = <<>> THEN <<>>
    ELSE IF k = 0 THEN <<buf>>
    ELSE <<SubSeq(buf, 1, k - 1)>> \o Unpack(SubSeq(buf, k + 1, Len(buf)))

\* Bounded inputs: strings of at most two characters other than '\0', and
\* vectors of at most two of them.
TestStrings == BoundedSeq({Sep, 97}, 2)
TestVectors == BoundedSeq(TestStrings, 2)

-----------------------------------------------------------------------------

Init ==
    /\ client = [c \in Cores |-> "none"]
    /\ panicked = FALSE
    /\ pc = [p \in Procs |-> "idle"]
    /\ fn = [p \in Procs |-> "spawn"]
    /\ core = [p \in Procs |-> MyCore]
    /\ bind = [p \in Procs |-> "none"]
    /\ loop = [p \in Procs |-> NoLoop]
    /\ calls = [p \in Procs |-> 0]

Next ==
    \E p \in Procs :
        \/ \E c \in Cores : spawn_program(p, c) \/ spawn_set_local_memserv(p, c)
        \/ \E same \in BOOLEAN : spawn_program_on_all_cores(p, same)
        \/ AllCoresNext(p)
        \/ spawn_bind_cont(p)
        \/ SpawnBindDone(p)
        \/ bind_client_done(p)
        \/ Rpc(p)

\* The event loop delivers the bind and the RPC replies, and a caller that
\* can go on does; callers are not obliged to call.
Fairness ==
    \A p \in Procs :
        /\ WF_vars(AllCoresNext(p)) /\ WF_vars(spawn_bind_cont(p))
        /\ WF_vars(SpawnBindDone(p)) /\ WF_vars(bind_client_done(p))
        /\ WF_vars(Rpc(p))

Spec == Init /\ [][Next]_vars /\ Fairness

-----------------------------------------------------------------------------
(* Properties                                                               *)

TypeOK ==
    /\ client \in [Cores -> {"none", "ok", "null"}]
    /\ panicked \in BOOLEAN
    /\ pc \in [Procs -> {"idle", "bindwait", "rpc", "loop"}]
    /\ fn \in [Procs -> {"spawn", "memserv"}]
    /\ core \in [Procs -> Cores]
    /\ bind \in [Procs -> {"none", "pending", "ok", "err"}]
    /\ loop \in [Procs -> Loops]
    /\ calls \in [Procs -> 0..MaxCalls]

\* spawn_program_on_all_cores returns SYS_ERR_OK only when the program was
\* spawned on every core with a spawn daemon (our own core only if
\* same_core), even when other callers made the cores' clients meanwhile.
AllCoresSpawned ==
    \A p \in Procs :
        loop[p].result = "ok" =>
            loop[p].done = Daemons \ (IF loop[p].same THEN {} ELSE {MyCore})

\* Every call returns unless the domain aborted: no caller waits for ever
\* in the nested event loop for its bind.
EveryCallReturns ==
    \A p \in Procs : (pc[p] # "idle") ~> (pc[p] = "idle" \/ panicked)

\* Every RPC client installed for a core sits on a binding: as
\* spawn_program does at lines 166-169, a client is made only after a
\* bind that succeeded.
\* The spawn request says what the caller asked: whenever a caller is about
\* to send spawn_domain, the argv and envp buffers it builds are exactly
\* argstrlen and envstrlen long (the asserts after the copy loops; the VLAs
\* are sized by the first loops) and read back as the vectors, an empty
\* string included; and pathbuf, sized buflen = strlen(path) +
\* strlen(searchpath) + 2, holds the whole of "<PATH>/<path>" for an
\* unqualified path.
RequestBuiltWhole ==
    /\ \A v \in TestVectors :
          Len(ArgStr(v)) = ArgStrLen(v) /\ Unpack(ArgStr(v)) = v
    /\ \A path, sp \in TestStrings, hasPath \in BOOLEAN :
          LET dir == IF hasPath THEN sp ELSE <<Sep>> IN
          SpawnPath(path, hasPath, sp) =
              IF path # <<>> /\ path[1] = Sep THEN path ELSE dir \o <<Sep>> \o path

SpawnRequestEncoding ==
    \A p \in Procs : pc[p] = "rpc" /\ fn[p] = "spawn" => RequestBuiltWhole

ClientsAreBound ==
    \A c \in Cores : client[c] # "null"

=============================================================================
