---------------------------- MODULE FlounderStubs ----------------------------
(***************************************************************************)
(* The flounder stub benchmarks, src/usr/bench/flounder_stubs/payload.c    *)
(* and empty.c.                                                            *)
(*                                                                         *)
(* payload.c: the domain started with one or two arguments is the server: *)
(* it reads benchmark_type from argv[1] (default "0"), spawns a copy of    *)
(* itself with three arguments, which runs as the client, exports the     *)
(* bench interface and registers it as "fsb server" in export_cb.  The    *)
(* client looks the name up with the blocking lookup, binds, and in       *)
(* bind_cb sends fsb_init_msg.  The server's experiment() then sends       *)
(* MAX_COUNT requests of the kind benchmark_type selects, one per reply,  *)
(* and stamps each round trip in timestamps[]; the client answers every   *)
(* request with the reply of the same kind.                                *)
(*                                                                         *)
(* empty.c runs the same protocol with the empty request only; its server *)
(* has one argument and spawns the client with two.  Built for Beehive   *)
(* (__BEEHIVE__) it does not spawn (the client domain is started on its    *)
(* own) and both ends hijack the binding's BMP channel once fsb_init_msg  *)
(* went over it: the client sends a raw message and waits for it to come  *)
(* back, for ever, and the server's fsb_init_msg never returns from a loop *)
(* that echoes each raw message it receives.                               *)
(*                                                                         *)
(* Every send uses NOP_CONT and asserts success; a failed assert, abort()  *)
(* or a crash on a bad binding ends the domain.  A time stamp is modelled *)
(* by what it orders: bench_tsc() read after `sent` requests went out and *)
(* `rcvd` replies came back is <<sent, rcvd>>.  Indexes past the end of    *)
(* timestamps[] are recorded in overrun.                                   *)
(***************************************************************************)
EXTENDS Naturals, Sequences

CONSTANTS
    MaxCount,   \* MAX_COUNT, the entries of timestamps[]
    ArgTypes,   \* values atoi(argv[1]) may give the payload server
    None        \* model value: an entry not written

ASSUME MaxCount \in Nat /\ MaxCount >= 2 /\ ArgTypes \subseteq Nat

\* The binaries and builds that run: payload.c has no Beehive code.
Builds == {<<"payload", FALSE>>, <<"empty", FALSE>>, <<"empty", TRUE>>}

\* The request experiment() sends for each benchmark_type (the switch).
RequestOf == <<"payload", "empty", "payload1", "payload2", "payload8", "payload16">>
KnownType(t) == t \in 0..5
Kind(t) == RequestOf[t + 1]

VARIABLES
    prog,       \* the binary: "payload" or "empty"
    beehive,    \* built with __BEEHIVE__
    srv,        \* the server: "main", "exporting", "serving", "echo" or "aborted"
    cli,        \* the client: "none", "lookup", "binding", "bound",
                \* "rawsend", "rawrecv" or "aborted"
    registered, \* the name service knows "fsb server"
    connected,  \* connect_cb accepted the client's binding
    c2s, s2c,   \* the binding's messages, client to server and back
    btype,      \* benchmark_type
    i, flag,    \* experiment()'s static i and flag
    t0, t1,     \* timestamps[j].time0 and .time1
    overrun,    \* indexes written past the end of timestamps[]
    done,       \* experiment() printed the results
    sent, rcvd  \* requests the server sent, replies it received

build == <<prog, beehive>>
exp == <<i, flag, t0, t1, overrun, done, sent, rcvd>>
vars == <<build, srv, cli, registered, connected, c2s, s2c, btype, exp>>

Msg(type, kind) == [type |-> type, kind |-> kind]
IsRaw(m) == m.type = "raw"

\* timestamps[k].timeX = v, for f the timeX column.
Stamp(f, k, v) == IF k < MaxCount THEN [f EXCEPT ![k] = v] ELSE f
Past(ks) == overrun' = overrun \cup {k \in ks : k >= MaxCount}

-----------------------------------------------------------------------------
(* experiment(), called with r replies received                             *)

\* The last round trip: stamp its end and print every page from
\* MAX_COUNT / 10 on.
Finish(r) ==
    /\ t1' = Stamp(t1, i, <<sent, r>>)
    /\ Past({i})
    /\ done' = TRUE
    /\ UNCHANGED <<srv, s2c, i, flag, t0, sent>>

\* Stamp the start (first call) or the end of round trip i and the start
\* of round trip i + 1.
Step(r) ==
    IF flag
    THEN /\ t1' = Stamp(t1, i, <<sent, r>>)
         /\ t0' = Stamp(t0, i + 1, <<sent, r>>)
         /\ Past({i, i + 1})
         /\ i' = i + 1
         /\ UNCHANGED flag
    ELSE /\ t0' = Stamp(t0, i, <<sent, r>>)
         /\ Past({i})
         /\ flag' = TRUE
         /\ UNCHANGED <<t1, i>>

\* payload.c: send the request benchmark_type selects; an unknown type
\* aborts.
Continue(r) ==
    /\ Step(r)
    /\ IF KnownType(btype)
       THEN /\ s2c' = Append(s2c, Msg("req", Kind(btype)))
            /\ sent' = sent + 1
            /\ UNCHANGED srv
       ELSE /\ srv' = "aborted"
            /\ UNCHANGED <<s2c, sent>>
    /\ UNCHANGED done

\* Bug variant: the finish test one entry late.
experiment_late(r) ==
    IF i = MaxCount THEN Finish(r) ELSE Continue(r)

experiment(r) ==
    IF i = MaxCount - 1 THEN Finish(r) ELSE Continue(r)

\* empty.c: the same steps, and always the empty request.
empty_experiment(r) ==
    IF i = MaxCount - 1
    THEN Finish(r)
    ELSE /\ Step(r)
         /\ s2c' = Append(s2c, Msg("req", "empty"))
         /\ sent' = sent + 1
         /\ UNCHANGED <<srv, done>>

-----------------------------------------------------------------------------
(* The server                                                               *)

\* payload.c main with argc in {1, 2}: benchmark_type, spawn_program of the
\* client (argc 3), bench_export; a failed assert aborts.
ServerMain(argc, t) ==
    /\ prog = "payload"
    /\ srv = "main"
    /\ btype' = IF argc = 1 THEN 0 ELSE t
    /\ \/ /\ cli' = "lookup"
          /\ srv' \in {"exporting", "aborted"}
       \/ /\ srv' = "aborted"
          /\ UNCHANGED cli
    /\ UNCHANGED <<build, registered, connected, c2s, s2c, exp>>

\* empty.c main with argc 1: spawn_program of the client (argc 2) unless
\* built for Beehive, then bench_export; a failed assert aborts.
EmptyServerMain ==
    /\ prog = "empty"
    /\ srv = "main"
    /\ \/ /\ cli' = IF beehive THEN cli ELSE "lookup"
          /\ srv' \in {"exporting", "aborted"}
       \/ /\ ~beehive
          /\ srv' = "aborted"
          /\ UNCHANGED cli
    /\ UNCHANGED <<build, registered, connected, c2s, s2c, btype, exp>>

\* Bug variant: export_cb without nameservice_register.
export_cb_unregistered ==
    /\ srv = "exporting"
    /\ srv' = "serving"
    /\ UNCHANGED <<build, cli, registered, connected, c2s, s2c, btype, exp>>

\* export_cb: a failed export or nameservice_register aborts.
export_cb ==
    /\ srv = "exporting"
    /\ \/ /\ srv' = "serving"
          /\ registered' = TRUE
       \/ /\ srv' = "aborted"
          /\ UNCHANGED registered
    /\ UNCHANGED <<build, cli, connected, c2s, s2c, btype, exp>>

\* connect_cb accepts the client's binding.
connect_cb ==
    /\ srv = "serving"
    /\ cli = "binding"
    /\ ~connected
    /\ connected' = TRUE
    /\ UNCHANGED <<build, srv, cli, registered, c2s, s2c, btype, exp>>

\* payload.c fsb_init_msg: remember the binding and start the experiment.
fsb_init_msg ==
    /\ prog = "payload"
    /\ srv = "serving"
    /\ c2s # <<>> /\ Head(c2s).type = "init"
    /\ c2s' = Tail(c2s)
    /\ experiment(rcvd)
    /\ UNCHANGED <<build, cli, registered, connected, btype, rcvd>>

\* payload.c fsb_<kind>_reply: every reply handler calls experiment().
fsb_reply ==
    /\ prog = "payload"
    /\ srv = "serving"
    /\ c2s # <<>> /\ Head(c2s).type = "rep"
    /\ c2s' = Tail(c2s)
    /\ rcvd' = rcvd + 1
    /\ experiment(rcvd + 1)
    /\ UNCHANGED <<build, cli, registered, connected, btype>>

\* empty.c fsb_init_msg: on Beehive, take the BMP channel away from
\* flounder and enter the echo loop; else start the experiment.
empty_fsb_init_msg ==
    /\ prog = "empty"
    /\ srv = "serving"
    /\ c2s # <<>> /\ Head(c2s).type = "init"
    /\ c2s' = Tail(c2s)
    /\ IF beehive
       THEN /\ srv' = "echo"
            /\ UNCHANGED <<s2c, i, flag, t0, t1, overrun, done, sent>>
       ELSE empty_experiment(rcvd)
    /\ UNCHANGED <<build, cli, registered, connected, btype, rcvd>>

\* empty.c fsb_empty_reply calls experiment().
fsb_empty_reply ==
    /\ prog = "empty"
    /\ srv = "serving"
    /\ c2s # <<>> /\ Head(c2s).type = "rep"
    /\ c2s' = Tail(c2s)
    /\ rcvd' = rcvd + 1
    /\ empty_experiment(rcvd + 1)
    /\ UNCHANGED <<build, cli, registered, connected, btype>>

\* Bug variant: the echo loop takes a message and sends nothing back.
EchoDrop ==
    /\ srv = "echo"
    /\ c2s # <<>>
    /\ c2s' = Tail(c2s)
    /\ UNCHANGED <<build, srv, cli, registered, connected, s2c, btype, exp>>

\* The Beehive echo loop: bmp_chan_recv, retried with thread_yield while
\* no message is there, then bmp_chan_send of the message received.
Echo ==
    /\ srv = "echo"
    /\ c2s # <<>>
    /\ c2s' = Tail(c2s)
    /\ s2c' = Append(s2c, Head(c2s))
    /\ UNCHANGED <<build, srv, cli, registered, connected, btype, exp>>

-----------------------------------------------------------------------------
(* The client                                                               *)

\* main of the client: nameservice_blocking_lookup returns once the server
\* registered, then bench_bind; a failure of either aborts.
ClientMain ==
    /\ cli = "lookup"
    /\ registered
    /\ cli' \in {"binding", "aborted"}
    /\ UNCHANGED <<build, srv, registered, connected, c2s, s2c, btype, exp>>

\* payload.c bind_cb sends fsb_init_msg without looking at binderr: after a
\* failed bind the send on the bad binding crashes or fails its assert.
bind_cb ==
    /\ prog = "payload"
    /\ cli = "binding"
    /\ \/ /\ connected
          /\ cli' = "bound"
          /\ c2s' = Append(c2s, Msg("init", "init"))
       \/ /\ cli' = "aborted"
          /\ UNCHANGED c2s
    /\ UNCHANGED <<build, srv, registered, connected, s2c, btype, exp>>

\* Bug variant: on Beehive the client enters its raw loop without sending
\* fsb_init_msg first.
empty_bind_cb_no_init ==
    /\ prog = "empty"
    /\ cli = "binding"
    /\ connected
    /\ cli' = IF beehive THEN "rawsend" ELSE "bound"
    /\ c2s' = IF beehive THEN c2s ELSE Append(c2s, Msg("init", "init"))
    /\ UNCHANGED <<build, srv, registered, connected, s2c, btype, exp>>

\* empty.c bind_cb: as in payload.c, and on Beehive (receive handler
\* deregistered) the client goes on to its raw send/receive loop.
empty_bind_cb ==
    /\ prog = "empty"
    /\ cli = "binding"
    /\ \/ /\ connected
          /\ cli' = IF beehive THEN "rawsend" ELSE "bound"
          /\ c2s' = Append(c2s, Msg("init", "init"))
       \/ /\ cli' = "aborted"
          /\ UNCHANGED c2s
    /\ UNCHANGED <<build, srv, registered, connected, s2c, btype, exp>>

\* fsb_<kind>_request: answer with the reply of the same kind.
fsb_request ==
    /\ cli = "bound"
    /\ s2c # <<>>
    /\ s2c' = Tail(s2c)
    /\ c2s' = Append(c2s, Msg("rep", Head(s2c).kind))
    /\ UNCHANGED <<build, srv, cli, registered, connected, btype, exp>>

\* The client's Beehive loop: bmp_chan_send of a raw message ...
RawSend ==
    /\ cli = "rawsend"
    /\ c2s' = Append(c2s, Msg("raw", "raw"))
    /\ cli' = "rawrecv"
    /\ UNCHANGED <<build, srv, registered, connected, s2c, btype, exp>>

\* ... then bmp_chan_recv, retried while no message is there, and
\* flounder_stub_bmp_process_header of what came.
RawRecv ==
    /\ cli = "rawrecv"
    /\ s2c # <<>>
    /\ s2c' = Tail(s2c)
    /\ cli' = "rawsend"
    /\ UNCHANGED <<build, srv, registered, connected, c2s, btype, exp>>

-----------------------------------------------------------------------------

Init ==
    /\ \E b \in Builds : prog = b[1] /\ beehive = b[2]
    /\ srv = "main"
    /\ cli = IF beehive THEN "lookup" ELSE "none"
    /\ registered = FALSE
    /\ connected = FALSE
    /\ c2s = <<>> /\ s2c = <<>>
    /\ btype = 0
    /\ i = 0 /\ flag = FALSE
    /\ t0 = [k \in 0..MaxCount - 1 |-> None]
    /\ t1 = [k \in 0..MaxCount - 1 |-> None]
    /\ overrun = {}
    /\ done = FALSE
    /\ sent = 0 /\ rcvd = 0

Next ==
    \/ \E argc \in {1, 2}, t \in ArgTypes : ServerMain(argc, t)
    \/ EmptyServerMain
    \/ export_cb
    \/ connect_cb
    \/ fsb_init_msg
    \/ fsb_reply
    \/ empty_fsb_init_msg
    \/ fsb_empty_reply
    \/ Echo
    \/ ClientMain
    \/ bind_cb
    \/ empty_bind_cb
    \/ fsb_request
    \/ RawSend
    \/ RawRecv

\* Each domain runs its message loop, or spins in its Beehive loop: a
\* handler whose message is there runs.
Spec == Init /\ [][Next]_vars /\ WF_vars(Next)

-----------------------------------------------------------------------------
(* Properties                                                               *)

TypeOK ==
    /\ build \in Builds
    /\ srv \in {"main", "exporting", "serving", "echo", "aborted"}
    /\ cli \in {"none", "lookup", "binding", "bound", "rawsend", "rawrecv", "aborted"}
    /\ registered \in BOOLEAN /\ connected \in BOOLEAN /\ done \in BOOLEAN
    /\ btype \in ArgTypes \cup {0}
    /\ i \in 0..MaxCount - 1 /\ flag \in BOOLEAN
    /\ t0 \in [0..MaxCount - 1 -> (Nat \X Nat) \cup {None}]
    /\ t1 \in [0..MaxCount - 1 -> (Nat \X Nat) \cup {None}]
    /\ overrun \subseteq Nat
    /\ sent \in Nat /\ rcvd \in Nat

\* experiment() never writes past timestamps[], and when it prints, every
\* page j it prints spans exactly round trip j: time0 was read after j
\* requests and j replies, time1 after the reply to request j + 1.
EachPageOneRoundTrip ==
    /\ overrun = {}
    /\ done => \A j \in (MaxCount \div 10)..(MaxCount - 1) :
                 t0[j] = <<j, j>> /\ t1[j] = <<j + 1, j + 1>>

\* The Beehive hijack of the BMP channel in empty.c stays in step with
\* flounder: the server's flounder stub never has a raw message in front
\* of it (fsb_init_msg goes out before the client's first raw send), the
\* client's raw loop only ever receives echoes, and the two loops pass one
\* raw message back and forth.
HijackInStep ==
    beehive =>
        /\ srv = "serving" /\ c2s # <<>> => ~IsRaw(Head(c2s))
        /\ \A k \in DOMAIN s2c : IsRaw(s2c[k])
        /\ Len(SelectSeq(c2s, IsRaw)) + Len(SelectSeq(s2c, IsRaw)) <= 1

\* Without Beehive the benchmark ends: the server prints its results unless
\* a domain aborted, so nobody waits for ever on the lookup, the bind or a
\* reply.
BenchmarkEnds == ~beehive => <>(done \/ "aborted" \in {srv, cli})

\* On Beehive the echo loops never stop: unless a domain aborted, the
\* client's raw message comes back again and again.
EchoLoopRuns ==
    beehive =>
        \/ <>("aborted" \in {srv, cli})
        \/ []<>(cli = "rawrecv") /\ []<>(cli = "rawsend")

=============================================================================
