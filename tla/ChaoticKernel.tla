--------------------------- MODULE ChaoticKernel ---------------------------
(***************************************************************************)
(* The client on its own, answered by a board that may write any           *)
(* well-formed frame at any time or nothing at all: what run_hash_join     *)
(* guarantees without trusting its peer, and the paths of the code that    *)
(* the present kernel never takes (an ACK that infers DONE, the explicit   *)
(* end of the probe phase).  Nobody reads h2k, which is therefore the      *)
(* record of everything the client has sent.                               *)
(***************************************************************************)
EXTENDS FpgaClient

CONSTANTS
    Configs,      \* the clients: members of ClientConfig
    Inputs,       \* arguments: records [algorithm, inner, outer]
    Replies       \* the frames the board may write

\* The rows of all arguments.
InputRows == UNION {ToSet(in.inner) \cup ToSet(in.outer) : in \in Inputs}

ASSUME ChaoticAssumption ==
    /\ Configs \subseteq ClientConfig
    /\ \A in \in Inputs : in.inner \in Seq(InputRows) /\ in.outer \in Seq(InputRows)
    /\ \A f \in Replies : f.type \in {"ACK", "STATUS"} =>
                             {f.rows_processed, f.credit} \subseteq Nat

vars == <<link, client>>

Init ==
    /\ LinkInit /\ ClientIdle
    /\ cfg \in Configs
    /\ \E in \in Inputs : /\ algorithm = in.algorithm
                          /\ inner = in.inner /\ outer = in.outer
    /\ active_session_id = 1
    /\ cpc = "start"

\* A bound on the pairs the board invents, to keep results finite.
TooManyPairs == Len(results) > Len(outer)

Board ==
    /\ Collecting /\ k2h = <<>> /\ ~TooManyPairs
    /\ \E f \in Replies : KernelSends(<<f>>)
    /\ UNCHANGED <<h2k, client>>

Client == ClientStep

GiveUp == HardTimeout

Finished == ClientDone /\ UNCHANGED vars

Next == Board \/ Client \/ GiveUp \/ Finished

Spec == Init /\ [][Next]_vars /\ WF_vars(Client) /\ WF_vars(GiveUp)

-----------------------------------------------------------------------------
\* The client's counters and queues keep their types under any replies.
TypeOK ==
    /\ {credit, sent, acked_rows} \subseteq Nat
    /\ inflight \in Seq(1..MaxBatch)
    /\ attempts \in 0..RESET_ATTEMPTS

\* In both data phases the batches in flight are the rows sent beyond the
\* acknowledged ones, within the window, whatever row counts the ACKs carry
\* (apply_cumulative_ack): otherwise an ACK would later be matched with the
\* wrong batches.
WindowAccounting ==
    cpc \in {"config", "build", "probe"} =>
        /\ acked_rows + RowsOf(inflight, Len(inflight)) = sent
        /\ Len(inflight) <= Window

\* The rows that all frames of a type sent so far carry.
RowsSent(type) ==
    FlattenSeq([i \in DOMAIN h2k |-> IF h2k[i].type = type THEN h2k[i].rows ELSE <<>>])

\* Every row is sent once and in order, whatever the credits granted; no
\* outer row is sent and no result returned before the last inner row.
RowsSentInOrder ==
    /\ IsPrefix(RowsSent("INNER_DATA"), inner)
    /\ IsPrefix(RowsSent("OUTER_DATA"), outer)
    /\ (RowsSent("OUTER_DATA") # <<>> \/ cpc = "returned") =>
            RowsSent("INNER_DATA") = inner

\* A RESET is the last frame run_hash_join sends, and with reset_after_run
\* exactly one is sent on every path out of it: by ~SessionCleanup, or by
\* send_reset when DONE was inferred (dismiss()).  Without reset_after_run
\* only the inferred DONE sends one.
ResetOnceOnExit ==
    LET resetsSent == {i \in DOMAIN h2k : h2k[i].type = "RESET"}
    IN /\ resetsSent \subseteq {Len(h2k)}
       /\ ClientDone /\ cfg.reset_after_run => resetsSent # {}
       /\ ~cfg.reset_after_run /\ ~cfg.infer_done_from_probe_ack => resetsSent = {}

\* run_hash_join comes to an end against any board: each of its waits is
\* bounded by hard_timeout_ms and each of its loops by the rows left.
ClientEnds == <>ClientDone

=============================================================================
