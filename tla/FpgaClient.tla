----------------------------- MODULE FpgaClient -----------------------------
(***************************************************************************)
(* FpgaClient::run_hash_join (src/host/src/fpga_client.cpp): sends         *)
(* CONFIGURE, then the inner and the outer rows in batches under a credit  *)
(* and a window of unacknowledged frames, and collects the result pairs    *)
(* until the kernel reports DONE.                                          *)
(*                                                                         *)
(* cpc is the place in run_hash_join.  "config", "build", "probe",         *)
(* "probe_end", "final" and "reset" are calls of collect_until_ack, with   *)
(* the AckWaitKind the name suggests ("probe_end" is the second Probe      *)
(* wait).  The sending loops run to their end before a wait starts, so a   *)
(* frame is received only when nothing can be sent.  Metrics, logging and  *)
(* pauses between batches are left out.                                    *)
(***************************************************************************)
EXTENDS Link

CONSTANT
    RESET_ATTEMPTS      \* waits for the ACK of a RESET (8 in the code)

ASSUME ClientAssumption == RESET_ATTEMPTS \in Nat \ {0}

\* The settings of a client that run_hash_join looks at.
ClientConfig ==
    [max_batch_tuples : Nat, ack_window_frames : Nat,
     coalesce_config_first_inner : BOOLEAN, infer_done_from_probe_ack : BOOLEAN,
     reset_after_run : BOOLEAN]

VARIABLES
    cpc,
    cfg,                \* the ClientConfig
    algorithm,          \* "A" or "B"
    inner, outer,       \* the arguments: sequences of rows
    active_session_id,
    credit,             \* rows the client may send
    sent,               \* i_sent, then o_sent
    inflight,           \* batch sizes sent and not yet acknowledged
    acked_rows,
    results,
    last_probe_ack,
    attempts            \* waits of the RESET loop so far

client == <<cpc, cfg, algorithm, inner, outer, active_session_id, credit, sent,
            inflight, acked_rows, results, last_probe_ack, attempts>>

\* What does not change once the call has started.
args == <<cfg, algorithm, inner, outer, active_session_id>>

\* AckInfo{}: all fields zero.
NoAck == StatusFrame("ACK", "IDLE", 0, 0, 0, 0)

\* The constructor's defaults for a configuration that makes no sense.
MaxBatch == IF cfg.max_batch_tuples \in 1..RX_BUF_TUPLES
            THEN cfg.max_batch_tuples ELSE RX_BUF_TUPLES
Window == IF cfg.ack_window_frames = 0 THEN ACK_BATCH_FRAMES ELSE cfg.ack_window_frames

\* Defect: the difference is not checked.
MinusUnchecked(a, b) == a - b

\* Unsigned subtraction that stops at zero.
Minus(a, b) == IF a > b THEN a - b ELSE 0

-----------------------------------------------------------------------------
\* The value of the session-local variables when run_hash_join is entered.
ClientIdle ==
    /\ credit = 0 /\ sent = 0 /\ inflight = <<>> /\ acked_rows = 0
    /\ results = <<>> /\ last_probe_ack = NoAck /\ attempts = 0

ClientDone == cpc \in {"returned", "threw"}

\* Leaving run_hash_join runs ~SessionCleanup, which sends a RESET if asked to.
LeaveAs(outcome) ==
    /\ cpc' = outcome
    /\ IF cfg.reset_after_run THEN HostSends(<<ResetFrame>>)
                          ELSE UNCHANGED <<h2k, drops, dups>>

\* cleanup.dismiss() was called: leave without the RESET.
LeaveQuietlyAs(outcome) == cpc' = outcome /\ UNCHANGED <<h2k, drops, dups>>

\* CONFIGURE, with the first inner batch in the same datagram if configured.
SendConfigure ==
    /\ cpc = "start"
    /\ LET first == IF cfg.coalesce_config_first_inner
                    THEN Min({RX_BUF_TUPLES, MaxBatch, Len(inner)}) ELSE 0
           configure == ConfigureFrame(algorithm, Len(inner), Len(outer), active_session_id)
       IN /\ HostSends(IF first = 0 THEN <<configure>>
                       ELSE <<configure, DataFrame("INNER_DATA", SubSeq(inner, 1, first))>>)
          /\ sent' = first
          /\ inflight' = IF first = 0 THEN <<>> ELSE <<first>>
    /\ cpc' = "config"
    /\ UNCHANGED <<k2h, args, credit, acked_rows, results, last_probe_ack, attempts>>

\* The rows of the phase the client is in.
Rows == IF cpc = "build" THEN inner ELSE outer

\* Defect: only the credit bounds what is sent.
CanSendUnwindowed ==
    /\ cpc \in {"build", "probe"}
    /\ sent < Len(Rows) /\ credit # 0
    /\ ~(credit < MaxBatch /\ Len(Rows) - sent > credit)

\* The sending loop sends another batch: rows are left, the window and the
\* credit allow it, and it would not be a short one for lack of credit.
CanSend ==
    /\ cpc \in {"build", "probe"}
    /\ sent < Len(Rows) /\ Len(inflight) < Window /\ credit # 0
    /\ ~(credit < MaxBatch /\ Len(Rows) - sent > credit)

\* Defect: every batch starts at the first row.
NextRowsFromStart(batch) == SubSeq(Rows, 1, batch)

\* The rows of the next batch.
NextRows(batch) == SubSeq(Rows, sent + 1, sent + batch)

SendBatch ==
    /\ CanSend
    /\ LET batch == Min({credit, MaxBatch, Len(Rows) - sent})
           type == IF cpc = "build" THEN "INNER_DATA" ELSE "OUTER_DATA"
       IN /\ HostSends(<<DataFrame(type, NextRows(batch))>>)
          /\ sent' = sent + batch
          /\ credit' = Minus(credit, batch)
          /\ inflight' = Append(inflight, batch)
    /\ UNCHANGED <<cpc, k2h, args, acked_rows, results, last_probe_ack, attempts>>

\* Rows are left, nothing is in flight and no batch may be sent.
ZeroCredit ==
    /\ cpc \in {"build", "probe"} /\ ~CanSend
    /\ inflight = <<>> /\ sent < Len(Rows)
    /\ LeaveAs("threw")
    /\ UNCHANGED <<k2h, args, credit, sent, inflight, acked_rows, results,
                   last_probe_ack, attempts>>

\* Defect: the count of acknowledged rows is carried into the probe phase.
BuildDoneKeepsAcked ==
    /\ cpc = "build" /\ sent >= Len(inner) /\ inflight = <<>>
    /\ cpc' = "probe"
    /\ credit' = RX_CREDIT_TUPLES /\ sent' = 0
    /\ UNCHANGED <<link, args, inflight, acked_rows, results, last_probe_ack, attempts>>

\* Every inner row is acknowledged: the probe phase starts with full credit.
BuildDone ==
    /\ cpc = "build" /\ sent >= Len(inner) /\ inflight = <<>>
    /\ cpc' = "probe"
    /\ credit' = RX_CREDIT_TUPLES /\ sent' = 0 /\ acked_rows' = 0
    /\ UNCHANGED <<link, args, inflight, results, last_probe_ack, attempts>>

-----------------------------------------------------------------------------
(***************************************************************************)
(* collect_until_ack.                                                      *)
(***************************************************************************)
Collecting ==
    \/ cpc \in {"config", "probe_end", "final", "reset"}
    \/ cpc \in {"build", "probe"} /\ inflight # <<>> /\ ~CanSend

Receives(types) ==
    /\ Collecting
    /\ k2h # <<>> /\ Head(k2h).type \in types
    /\ k2h' = Tail(k2h)

\* Pairs are kept by the waits of the probe phase and dropped by the others.
CollectResult ==
    /\ Receives({"RESULT"})
    /\ results' = IF cpc \in {"probe", "probe_end", "final"}
                  THEN results \o Head(k2h).pairs ELSE results
    /\ UNCHANGED <<cpc, h2k, drops, dups, args, credit, sent, inflight,
                   acked_rows, last_probe_ack, attempts>>

CollectError ==
    /\ Receives({"ERROR"})
    /\ IF cpc = "reset" THEN LeaveQuietlyAs("threw") ELSE LeaveAs("threw")
    /\ UNCHANGED <<args, credit, sent, inflight, acked_rows, results,
                   last_probe_ack, attempts>>

\* A frame of another session is skipped, except by the Reset wait.
Stale(frame) == cpc # "reset" /\ frame.session_id # active_session_id

CollectStale ==
    /\ Receives({"ACK", "STATUS"}) /\ Stale(Head(k2h))
    /\ UNCHANGED <<h2k, drops, dups, client>>

\* The frame that ends the wait.
Accepts(ack) ==
    /\ Receives({"ACK", "STATUS"}) /\ ack = Head(k2h) /\ ~Stale(ack)

\* Defect: the wait for the CONFIGURE ACK is not timed.
TimedExceptConfig == Collecting /\ cpc # "config"

\* The waits that hard_timeout_ms bounds: all of them.
Timed == Collecting

\* No such frame within hard_timeout_ms.
HardTimeout ==
    /\ Timed
    /\ IF cpc = "reset" THEN LeaveQuietlyAs("returned") ELSE LeaveAs("threw")
    /\ UNCHANGED <<k2h, args, credit, sent, inflight, acked_rows, results,
                   last_probe_ack, attempts>>

-----------------------------------------------------------------------------
\* Rows in the first n batches of a queue.
RowsOf(queue, n) ==
    LET sum[i \in 0..n] == IF i = 0 THEN 0 ELSE sum[i - 1] + queue[i]
    IN sum[n]

\* apply_cumulative_ack: the batches that rows_processed covers.
AckedFrames(queue, acked, rows_processed) ==
    IF rows_processed <= acked THEN 0
    ELSE Max({n \in 0..Len(queue) : acked + RowsOf(queue, n) <= rows_processed})

ConfigAck ==
    /\ cpc = "config"
    /\ Accepts(Head(k2h))
    /\ credit' = IF inflight = <<>> THEN Head(k2h).credit
                 ELSE Minus(Head(k2h).credit, Head(inflight))
    /\ cpc' = "build"
    /\ UNCHANGED <<h2k, drops, dups, args, sent, inflight, acked_rows, results,
                   last_probe_ack, attempts>>

\* An ACK in the build or the probe phase.  DONE ends the probe phase
\* whatever is in flight; otherwise an ACK that covers no batch is an error.
DataAck ==
    /\ cpc \in {"build", "probe"}
    /\ Accepts(Head(k2h))
    /\ LET ack == Head(k2h)
           n == AckedFrames(inflight, acked_rows, ack.rows_processed)
           done == cpc = "probe" /\ ack.phase = "DONE"
       IN /\ credit' = ack.credit
          /\ acked_rows' = acked_rows + RowsOf(inflight, n)
          /\ inflight' = IF done THEN <<>> ELSE SubSeq(inflight, n + 1, Len(inflight))
          /\ last_probe_ack' = IF cpc = "probe" THEN ack ELSE last_probe_ack
          /\ IF done
             THEN cpc' = "probed" /\ UNCHANGED <<h2k, drops, dups>>
             ELSE IF n = 0
             THEN LeaveAs("threw")
             ELSE UNCHANGED <<cpc, h2k, drops, dups>>
    /\ UNCHANGED <<args, sent, results, attempts>>

\* Every outer row is acknowledged.
ProbeDone ==
    /\ cpc = "probe" /\ sent >= Len(outer) /\ inflight = <<>>
    /\ cpc' = "probed"
    /\ UNCHANGED <<link, args, credit, sent, inflight, acked_rows, results,
                   last_probe_ack, attempts>>

\* All rows are processed, yet the kernel still grants credit.
ProbeEndNeeded ==
    /\ algorithm = "A" /\ outer # <<>>
    /\ last_probe_ack.phase = "PROBING"
    /\ last_probe_ack.credit # 0
    /\ last_probe_ack.rows_processed >= Len(outer)

SendProbeEnd ==
    /\ cpc = "probed" /\ ProbeEndNeeded
    /\ HostSends(<<DataFrame("OUTER_DATA", <<>>)>>)
    /\ cpc' = "probe_end"
    /\ UNCHANGED <<k2h, args, credit, sent, inflight, acked_rows, results,
                   last_probe_ack, attempts>>

ProbeEndAck ==
    /\ cpc = "probe_end"
    /\ Accepts(Head(k2h))
    /\ last_probe_ack' = Head(k2h)
    /\ credit' = Head(k2h).credit
    /\ cpc' = "probe_ended"
    /\ UNCHANGED <<h2k, drops, dups, args, sent, inflight, acked_rows, results,
                   attempts>>

-----------------------------------------------------------------------------
(***************************************************************************)
(* The end of the session.                                                 *)
(***************************************************************************)
Ending == cpc = "probe_ended" \/ (cpc = "probed" /\ ~ProbeEndNeeded)

\* Defect: the count is not compared.
VerifiedBlindly(ack) == TRUE

\* verify_matched_count
Verified(ack) == ack.rows_matched = Len(results)

final_probe_ack ==
    /\ cfg.infer_done_from_probe_ack /\ algorithm = "A"
    /\ last_probe_ack.phase = "PROBING" /\ last_probe_ack.credit = 0
    /\ last_probe_ack.rows_processed >= Len(outer)
    /\ Verified(last_probe_ack)

\* The STATUS was the probe phase's last frame.
EndVerified ==
    /\ Ending /\ last_probe_ack.phase = "DONE"
    /\ LeaveAs(IF Verified(last_probe_ack) THEN "returned" ELSE "threw")
    /\ UNCHANGED <<k2h, args, credit, sent, inflight, acked_rows, results,
                   last_probe_ack, attempts>>

EndInferred ==
    /\ Ending /\ last_probe_ack.phase # "DONE" /\ final_probe_ack
    /\ HostSends(<<ResetFrame>>)
    /\ cpc' = "reset"
    /\ UNCHANGED <<k2h, args, credit, sent, inflight, acked_rows, results,
                   last_probe_ack, attempts>>

\* One turn of the loop that waits for the ACK of that RESET.
ResetAck ==
    /\ cpc = "reset"
    /\ Accepts(Head(k2h))
    /\ attempts' = attempts + 1
    /\ cpc' = IF Head(k2h).phase = "IDLE" THEN "returned"
              ELSE IF attempts' = RESET_ATTEMPTS THEN "threw"
              ELSE "reset"
    /\ UNCHANGED <<h2k, drops, dups, args, credit, sent, inflight, acked_rows,
                   results, last_probe_ack>>

EndUnconfirmed ==
    /\ Ending /\ last_probe_ack.phase # "DONE" /\ ~final_probe_ack
    /\ cpc' = "final"
    /\ UNCHANGED <<link, args, credit, sent, inflight, acked_rows, results,
                   last_probe_ack, attempts>>

FinalStatus ==
    /\ cpc = "final"
    /\ Accepts(Head(k2h))
    /\ LET ack == Head(k2h)
       IN LeaveAs(IF ack.phase = "DONE" /\ Verified(ack) THEN "returned" ELSE "threw")
    /\ UNCHANGED <<args, credit, sent, inflight, acked_rows, results,
                   last_probe_ack, attempts>>

ClientStep ==
    \/ SendConfigure \/ SendBatch \/ ZeroCredit \/ BuildDone
    \/ CollectResult \/ CollectError \/ CollectStale
    \/ ConfigAck \/ DataAck \/ ProbeDone \/ SendProbeEnd \/ ProbeEndAck
    \/ EndVerified \/ EndInferred \/ ResetAck \/ EndUnconfirmed \/ FinalStatus

=============================================================================
