-------------------------- MODULE MCChaoticKernel --------------------------
(***************************************************************************)
(* Five inner rows in batches of at most two, three frames for a window of *)
(* two, and every report over small row counts and credits.                *)
(***************************************************************************)
EXTENDS ChaoticKernel

Row(x) == [key |-> "k", tid |-> x]
Pair == [inner_tid |-> "t1", outer_tid |-> "t2"]

FiveRows == <<Row("t1"), Row("t2"), Row("t3"), Row("t4"), Row("t5")>>

MCInputs ==
    {[algorithm |-> a, inner |-> FiveRows, outer |-> SubSeq(FiveRows, 4, 5)] : a \in {"A", "B"}}
    \cup {[algorithm |-> "A", inner |-> <<>>, outer |-> SubSeq(FiveRows, 2, 4)]}

Config(batch, window, udp, reset) ==
    [max_batch_tuples |-> batch, ack_window_frames |-> window,
     coalesce_config_first_inner |-> udp, infer_done_from_probe_ack |-> udp,
     reset_after_run |-> reset]

\* The adapter's UDP client, one that also resets, and one of UART with the
\* sizes left to the constructor.
MCConfigs == {Config(2, 2, TRUE, FALSE), Config(2, 2, TRUE, TRUE), Config(0, 0, FALSE, FALSE)}

MCReplies ==
    {StatusFrame("ACK", phase, processed, matched, grant, 1) :
        phase \in {"IDLE", "BUILDING", "PROBING", "DONE"},
        processed \in 0..5, matched \in 0..1, grant \in {0, 1, 3}}
    \cup {StatusFrame("STATUS", "DONE", 2, 1, 0, id) : id \in {1, 2}}
    \cup {ResultFrame(<<Pair>>), ErrorFrame("ERR_OVERFLOW")}

=============================================================================
