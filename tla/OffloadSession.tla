--------------------------- MODULE OffloadSession ---------------------------
(***************************************************************************)
(* The offload path end to end: fpga_adapter_run (src/pg/src/              *)
(* fpga_adapter.cpp) prepares the transport and calls the client, which    *)
(* talks over the link to the kernel.  Requests follow one another, as the *)
(* adapter binds a fixed local UDP port while it runs; each may come from  *)
(* another backend process.  A session over UART is not modelled: the      *)
(* client keeps several frames under way, of which the bridge of the board *)
(* loses bytes (module UartBridge).                                        *)
(*                                                                         *)
(* Time.  The client's hard timeout, a setting, counts from the start of a *)
(* wait, whatever arrives, and may expire at any moment of it.  Joining    *)
(* the partitions of algorithm B may take longer than any timer.  All      *)
(* other frames and computations take milliseconds, against 5 s of the     *)
(* kernel's watchdog and 6.5 s of prepare_udp_session.  So these expire    *)
(* only while the board is still: nothing on its way to it, or a join in   *)
(* its hands.  Between sessions and while the transport is prepared the    *)
(* kernel may have been waiting for any time, and its watchdog may fire    *)
(* just when a RESET is on its way.                                        *)
(***************************************************************************)
EXTENDS FpgaClient, HashJoinKernel, SoftwareKernel

CONSTANTS
    Transports,     \* subset of {"udp", "simulation", "none"}
    max_batch_tuples, ack_window_frames,    \* the settings of that name
    Inputs,         \* requests: records [algorithm, inner, outer]
    SESSION_IDS,    \* size of the session id range (255 in the code)
    MaxSessions     \* bound on the requests of one behaviour

ASSUME SessionAssumption ==
    /\ Transports \subseteq {"udp", "simulation", "none"}
    /\ {max_batch_tuples, ack_window_frames} \subseteq Nat
    /\ {SESSION_IDS, MaxSessions} \subseteq Nat \ {0}

VARIABLES
    transport,      \* what the settings select; "none" is an unusable setting
    request,        \* the request being served
    counter,        \* next_session_id's counter in the serving process
    sessions,       \* requests so far
    resets,         \* RESET attempts of prepare_udp_session
    before,         \* history: the link and the board when the request came
    hasty           \* history: the client gave up while an answer was under way

adapter == <<transport, request, counter, sessions, resets, before>>

vars == <<link, kernel, sim, client, adapter, hasty>>

\* Only over UDP the adapter changes the defaults of ClientConfig.
AdapterConfig(t) ==
    [max_batch_tuples |-> max_batch_tuples, ack_window_frames |-> ack_window_frames,
     coalesce_config_first_inner |-> t = "udp",
     infer_done_from_probe_ack |-> t = "udp",
     reset_after_run |-> FALSE]

Init ==
    /\ LinkInit /\ KernelInit /\ ClientIdle /\ sim = NewSim
    /\ transport \in Transports /\ cfg = AdapterConfig(transport)
    /\ cpc = "closed" /\ active_session_id = 1
    /\ request \in Inputs /\ algorithm = "A" /\ inner = <<>> /\ outer = <<>>
    /\ counter = 0 /\ sessions = 0 /\ resets = 0
    /\ before = [drops |-> 0, ready |-> TRUE] /\ hasty = FALSE

-----------------------------------------------------------------------------
\* The first row of every key, in order.
Dedup(rows) ==
    LET isFirst(i) == \A j \in 1..(i - 1) : rows[j].key # rows[i].key
        kept == SelectSeq([i \in DOMAIN rows |-> i], isFirst)
    IN [n \in DOMAIN kept |-> rows[kept[n]]]

\* The kernel joins partitions, and reads nothing meanwhile; or it tries to
\* send what cannot be sent.
Joins == kpc \in {"GRACE_JOIN", "GRACE_LOAD", "STALLED"}

\* For as long as a timer takes the board reads nothing and sends nothing.
BoardStill == KernelQuiet \/ Joins

\* Nothing of an earlier session is on its way to the kernel or goes on in
\* it, and its next read begins with a header.
Ready == KernelQuiet /\ junk = 0

\* A backend calls fpga_adapter_run; in a fresh process the session counter
\* starts again.
Request ==
    /\ cpc \in {"closed", "returned", "threw"}
    /\ sessions < MaxSessions
    /\ sessions' = sessions + 1
    /\ \E req \in Inputs, c \in {0, counter} :
          /\ request' = req
          /\ algorithm' = req.algorithm
          /\ inner' = Dedup(req.inner) /\ outer' = req.outer
          /\ active_session_id' = (c % SESSION_IDS) + 1
          /\ counter' = c + 1
    /\ cpc' = "requested" /\ resets' = 0
    /\ before' = [drops |-> drops, ready |-> Ready] /\ hasty' = FALSE
    /\ credit' = 0 /\ sent' = 0 /\ inflight' = <<>> /\ acked_rows' = 0
    /\ results' = <<>> /\ last_probe_ack' = NoAck /\ attempts' = 0
    /\ UNCHANGED <<link, kernel, sim, cfg, transport>>

\* A step of the adapter that moves the session on to pc.
Moves(from, to) ==
    /\ cpc = from /\ cpc' = to
    /\ UNCHANGED <<args, credit, sent, inflight, acked_rows, results,
                   last_probe_ack, attempts, kernel, transport, request, counter,
                   sessions, before, hasty>>

\* The adapter's capacity check, on the deduplicated inner rows.
FitsMemory == IF algorithm = "A" THEN Len(inner) <= HT_MAX_ROWS
              ELSE grace_ddr_layout_fits(Len(inner), Len(outer))

\* Too many rows, an unknown transport or no device.
AdapterRefuses ==
    /\ ~FitsMemory \/ transport = "none"
    /\ Moves("requested", "threw")
    /\ UNCHANGED <<link, sim, resets>>

\* Every call constructs its own SoftwareKernel.
OpenSimulation ==
    /\ transport = "simulation" /\ FitsMemory
    /\ Moves("requested", "start")
    /\ sim' = NewSim /\ h2k' = <<>> /\ k2h' = <<>>
    /\ UNCHANGED <<drops, dups, resets>>

-----------------------------------------------------------------------------
(***************************************************************************)
(* prepare_udp_session.                                                    *)
(***************************************************************************)
\* drain_until_quiet, then the first RESET.
OpenUdp ==
    /\ transport = "udp" /\ FitsMemory
    /\ BoardStill
    /\ Moves("requested", "resetting")
    /\ k2h' = <<>>
    /\ resets' = 1
    /\ HostSends(<<ResetFrame>>)
    /\ UNCHANGED sim

\* Any frame but an IDLE ACK is skipped; whose ACK it is is not looked at.
GotIdle ==
    /\ k2h # <<>> /\ Head(k2h).type = "ACK" /\ Head(k2h).phase = "IDLE"
    /\ k2h' = Tail(k2h)
    /\ Moves("resetting", "draining")
    /\ UNCHANGED <<h2k, drops, dups, sim, resets>>

SkipFrame ==
    /\ k2h # <<>> /\ ~(Head(k2h).type = "ACK" /\ Head(k2h).phase = "IDLE")
    /\ k2h' = Tail(k2h)
    /\ Moves("resetting", "resetting")
    /\ UNCHANGED <<h2k, drops, dups, sim, resets>>

\* Defect: the RESET is repeated until it is answered.
ResetForever ==
    /\ BoardStill /\ k2h = <<>>
    /\ Moves("resetting", "resetting")
    /\ HostSends(<<ResetFrame>>)
    /\ UNCHANGED <<k2h, sim, resets>>

\* 6.5 s without one: a second RESET, and then the session starts anyway.
ResetTimeout ==
    /\ BoardStill /\ k2h = <<>>
    /\ \/ /\ resets < 2
          /\ Moves("resetting", "resetting")
          /\ resets' = resets + 1
          /\ HostSends(<<ResetFrame>>)
          /\ UNCHANGED <<k2h, sim>>
       \/ /\ resets = 2
          /\ Moves("resetting", "draining")
          /\ UNCHANGED <<link, sim, resets>>

DrainThenStart ==
    /\ BoardStill
    /\ Moves("draining", "start")
    /\ k2h' = <<>>
    /\ UNCHANGED <<h2k, drops, dups, sim, resets>>

AdapterStep == AdapterRefuses \/ OpenSimulation \/ OpenUdp \/ GotIdle \/ SkipFrame
               \/ DrainThenStart

-----------------------------------------------------------------------------
\* In a simulation send() has handled a frame before the client goes on.
ClientMoves ==
    /\ transport = "simulation" => h2k = <<>>
    /\ ClientStep
    /\ UNCHANGED <<kernel, sim, adapter, hasty>>

KernelMoves ==
    /\ transport # "simulation"
    /\ KernelStep
    /\ UNCHANGED <<sim, client, adapter, hasty>>

SimulationMoves ==
    /\ transport = "simulation"
    /\ SoftwareKernelSend
    /\ UNCHANGED <<kernel, client, adapter, hasty>>

\* No frame is under way that would end a wait, and no one is about to send.
Silence ==
    /\ KernelQuiet \/ kpc = "STALLED"
    /\ \A i \in DOMAIN k2h : k2h[i] = IdleAck
    /\ Collecting

\* In a simulation the answers are there before a wait begins.
ClientGivesUp ==
    /\ transport = "simulation" => h2k = <<>> /\ k2h = <<>>
    /\ HardTimeout
    /\ hasty' = ~Silence
    /\ UNCHANGED <<kernel, sim, adapter>>

OutsideSession ==
    cpc \in {"closed", "returned", "threw", "requested", "resetting", "draining", "start"}

WatchdogFires ==
    /\ transport # "simulation"
    /\ \/ kpc = "IDLE" \/ Silence
       \/ OutsideSession /\ \A i \in DOMAIN h2k : h2k[i].type = "RESET"
    /\ Watchdog
    /\ UNCHANGED <<sim, client, adapter, hasty>>

\* The bound on requests is reached: no one calls the adapter again.
AllServed == sessions = MaxSessions /\ ClientDone /\ UNCHANGED vars

Next == Request \/ AdapterStep \/ ResetTimeout \/ ClientMoves \/ ClientGivesUp
        \/ KernelMoves \/ SimulationMoves \/ WatchdogFires \/ AllServed

\* The host process and the kernel keep running and their timers expire.  The
\* client's is needed only when nothing else can happen.
Fairness ==
    /\ WF_vars(AdapterStep) /\ WF_vars(ResetTimeout)
    /\ WF_vars(ClientMoves) /\ WF_vars(Silence /\ ClientGivesUp)
    /\ WF_vars(KernelMoves) /\ WF_vars(SimulationMoves)

Spec == Init /\ [][Next]_vars /\ Fairness

-----------------------------------------------------------------------------
\* The shape of the client's and the kernel's state, with the sizes of the
\* kernel's result buffer and of the adapter's RESET loop.
TypeOK ==
    /\ cpc \in {"closed", "requested", "resetting", "draining", "start", "config",
                "build", "probe", "probed", "probe_end", "probe_ended", "final",
                "reset", "returned", "threw"}
    /\ kpc \in {"IDLE", "BUILD", "INSERT", "PROBE", "LOOKUP", "CLOSE",
                "GRACE_INNER", "GRACE_OUTER", "GRACE_JOIN", "GRACE_LOAD", "STALLED"}
    /\ ht \in Table /\ cfg \in ClientConfig
    /\ {credit, sent, acked_rows, junk} \subseteq Nat /\ resets \in 0..2
    /\ Len(ses.result_buf) < RESULT_FLUSH_PAIRS
    /\ inflight \in Seq(1..MaxBatch)
    /\ drops <= MaxDrops /\ dups <= MaxDups

\* What the executor relies on (fpga_executor.c lines 361-390): a request
\* ends with exactly the join of its own rows or with an error.  Lost
\* frames, watchdogs, retries and frames of earlier sessions never make
\* run_hash_join return fewer, more or other pairs.
Service == INSTANCE JoinService WITH
    outcome <- CASE cpc = "closed" -> "none"
                 [] cpc = "returned" -> "returned"
                 [] cpc = "threw" -> "failed"
                 [] OTHER -> "pending",
    answer <- IF cpc = "returned" THEN results ELSE <<>>

ImplementsJoinService == Service!Spec

\* Every request ends, whatever is lost: no wait of the adapter, the client
\* or the kernel is for ever (collect_until_ack's hard timeout, the 6.5 s of
\* prepare_udp_session and the kernel's watchdog see to it).
RequestsEnd == (cpc = "requested") ~> ClientDone

\* The rows can be inserted one after the other into an empty table.
Insertable(rows) ==
    FoldLeft(LAMBDA t, r : Build(t, r.key, r.tid), ZeroTable, rows).row_count = Len(rows)

\* The board has room for the rows of the request, and a datagram for the
\* matches of each partition.
Servable ==
    IF algorithm = "A" THEN Insertable(inner)
    ELSE LET K == PartitionCount(Len(inner))
         IN /\ grace_ddr_layout_fits(Len(inner), Len(outer))
            /\ MatchesSendable(inner, outer, K)
            /\ \A p \in 0..(K - 1) :
                  /\ Insertable(RowsIn(inner, p, K))
                  /\ Len(RowsIn(outer, p, K)) <= 2 * ((Len(outer) \div K) + 1)

\* A request over UDP during which nothing is lost, and no timeout expires
\* with an answer under way, fails only if the board has no room for its rows
\* or cannot send its matches: credits, windows and batched ACKs never make
\* run_hash_join throw, and neither does what earlier sessions left behind,
\* broken off in any phase but the join, of either algorithm, provided the
\* kernel has come to a header and reads it where it begins.
NoSpuriousFailure ==
    LET undisturbed == drops = before.drops /\ dups = 0 /\ before.ready /\ ~hasty
    IN cpc = "threw" /\ undisturbed /\ transport = "udp" => ~Servable

\* The client's window bounds what is on its way to the kernel (CONFIGURE
\* apart), although the credit of a batched ACK does not count the rows in
\* flight.
InFlightBounded ==
    Cardinality({i \in DOMAIN h2k : h2k[i].type \in {"INNER_DATA", "OUTER_DATA"}}) <= Window

\* What test_adapter_standalone.cpp checks (line 80: "CHECK(ok);") of a run in
\* simulation mode: the adapter does not fail.
SimulationSucceeds == ~(cpc = "threw" /\ transport = "simulation")

\* What the comment on MSG_RESET says (hash_join_types.hpp line 58: "abort
\* session and return to IDLE"): after prepare_udp_session's RESETs on a
\* faultless link the kernel is at IDLE, ready to read a frame.
ResetReachesIdle ==
    cpc = "start" /\ transport = "udp" /\ drops = 0 /\ dups = 0 => kpc = "IDLE" /\ junk = 0

\* What the comment on class FpgaClient says (fpga_client.hpp line 85):
\* "results contains all matching (inner_tid, outer_tid) pairs".
ReturnsAllPairs ==
    cpc = "returned" =>
        \A i \in DOMAIN inner, j \in DOMAIN outer :
            inner[i].key = outer[j].key =>
                Contains(results, [inner_tid |-> inner[i].tid, outer_tid |-> outer[j].tid])

=============================================================================
