--------------------------- MODULE HashJoinKernel ---------------------------
(***************************************************************************)
(* hash_join_kernel (src/src/hash_join_kernel.cpp): the session loop that  *)
(* reads CONFIGURE, INNER_DATA and OUTER_DATA frames from rx and writes    *)
(* ACK, RESULT, STATUS and ERROR frames to tx.                             *)
(*                                                                         *)
(* The kernel is one sequential process.  In algorithm A a step reads one  *)
(* frame (the loop that copies its rows to rx_key_buf included), handles   *)
(* one row of it, or does what the loop does at the end of a batch; in     *)
(* algorithm B it handles one frame or joins one partition.  DEBUG, TIMING *)
(* and the registers are left out: no decision of the kernel reads them.   *)
(*                                                                         *)
(* A frame of the wrong type is refused after its 3-byte header, so its    *)
(* payload stays in rx and is read as if headers began there.  junk counts *)
(* those bytes.  Payload bytes are taken never to spell a CONFIGURE        *)
(* header; they may spell a RESET.                                         *)
(***************************************************************************)
EXTENDS GraceEngine

CONSTANTS
    RESULT_FLUSH_PAIRS,       \* pairs per full RESULT frame
    CONFIGURE_PAYLOAD_BYTES,  \* 13 on the wire
    TUPLE_BYTES,              \* bytes of a row on the wire: 10, or 14 for int64
    MAX_PROBE_FRAMES          \* trip count of probe_loop: 1000000 in the code

ASSUME KernelAssumption ==
    /\ {RESULT_FLUSH_PAIRS, CONFIGURE_PAYLOAD_BYTES, TUPLE_BYTES, MAX_PROBE_FRAMES}
           \subseteq Nat \ {0}
    /\ RESULT_FLUSH_PAIRS <= MAX_TX_PAIRS

HEADER_BYTES == 3

VARIABLES
    kpc,    \* where the session loop is
    ses,    \* the session variables
    ht,     \* the hash table, which outlives sessions
    grace,  \* the partitions in DDR2, which outlive sessions as well
    junk    \* bytes of rx in front of the next frame's header

kernel == <<kpc, ses, ht, grace, junk>>

\* The session variables, re-initialised on every turn of session_loop.
NewSession ==
    [session_id |-> 0, inner_total |-> 0, outer_total |-> 0,
     inner_received |-> 0, outer_received |-> 0, matched |-> 0,
     result_buf |-> <<>>, pending |-> 0, frame |-> 0, batch |-> <<>>,
     K |-> 1, outer_slot_w |-> 0, partition |-> 0]

KernelInit ==
    /\ kpc = "IDLE" /\ ses = NewSession
    /\ ht = ZeroTable /\ grace = reset_counts /\ junk = 0

-----------------------------------------------------------------------------
\* credit = min(total - received, RX_CREDIT_TUPLES).  The subtraction is
\* unsigned, so rows beyond the total make it a huge number.
CreditFor(total, received) ==
    IF received > total THEN RX_CREDIT_TUPLES
    ELSE Min({total - received, RX_CREDIT_TUPLES})

\* A batch of ACK_BATCH_FRAMES data frames is complete.
AckDue(pending) == pending >= ACK_BATCH_FRAMES

PayloadBytes(frame) ==
    CASE frame.type = "CONFIGURE" -> CONFIGURE_PAYLOAD_BYTES
      [] frame.type = "RESET" -> 0
      [] OTHER -> TUPLE_BYTES * Len(frame.rows)

\* A frame boundary with an aligned frame of one of the given types next.
Reads(pc, types) ==
    /\ kpc = pc /\ junk = 0
    /\ h2k # <<>> /\ Head(h2k).type \in types
    /\ h2k' = Tail(h2k)

\* session_done: back to the top of session_loop.
EndSession == kpc' = "IDLE" /\ ses' = NewSession

\* A header that the phase does not expect; the payload is left in rx.
Refuse(pc, types, err) ==
    /\ Reads(pc, types)
    /\ junk' = PayloadBytes(Head(h2k))
    /\ KernelSends(<<ErrorFrame(err)>>)
    /\ EndSession /\ UNCHANGED <<ht, grace>>

-----------------------------------------------------------------------------
(***************************************************************************)
(* CONFIGURE stage.                                                        *)
(***************************************************************************)
IdleAck == StatusFrame("ACK", "IDLE", 0, 0, RX_CREDIT_TUPLES, 0)

IdleReset ==
    /\ Reads("IDLE", {"RESET"})
    /\ ht' = Reset(ht)
    /\ KernelSends(<<IdleAck>>)
    /\ EndSession /\ UNCHANGED <<grace, junk>>

IdleRefuse == Refuse("IDLE", {"INNER_DATA", "OUTER_DATA"}, "ERR_INVALID_CMD")

\* A header taken from stray payload bytes, completed by the next frame's
\* first bytes when fewer than three are left.
IdleMisread ==
    /\ kpc = "IDLE" /\ junk > 0
    /\ \/ /\ junk >= HEADER_BYTES
          /\ junk' = junk - HEADER_BYTES
          /\ UNCHANGED h2k
       \/ /\ junk < HEADER_BYTES /\ h2k # <<>>
          /\ junk' = junk + PayloadBytes(Head(h2k))
          /\ h2k' = Tail(h2k)
    /\ \E looksLikeReset \in BOOLEAN :
          IF looksLikeReset
          THEN ht' = Reset(ht) /\ KernelSends(<<IdleAck>>)
          ELSE UNCHANGED ht /\ KernelSends(<<ErrorFrame("ERR_INVALID_CMD")>>)
    /\ EndSession /\ UNCHANGED grace

\* Defect: the partitions of the session before are kept.
KeepPartitions == UNCHANGED grace

\* build_inner_partitions starts with all counters at zero.
StartPartitions == grace' = reset_counts

\* The sizes fit the algorithm's memory.
Fits(cfg) ==
    CASE cfg.algorithm = "A" -> cfg.inner_count <= HT_MAX_ROWS
      [] cfg.algorithm = "B" -> KernelAccepts(cfg.inner_count, cfg.outer_count)
      [] OTHER -> FALSE

ConfigureRefuse ==
    /\ Reads("IDLE", {"CONFIGURE"}) /\ ~Fits(Head(h2k))
    /\ KernelSends(<<ErrorFrame(IF Head(h2k).algorithm \in {"A", "B"}
                                THEN "ERR_OVERFLOW" ELSE "ERR_INVALID_CMD")>>)
    /\ EndSession /\ UNCHANGED <<ht, grace, junk>>

\* Algorithm A starts with ht.reset(), algorithm B with reset_counts.
Configure ==
    /\ Reads("IDLE", {"CONFIGURE"}) /\ Fits(Head(h2k))
    /\ LET cfg == Head(h2k)
           K == PartitionCount(cfg.inner_count)
           linear == [NewSession EXCEPT !.session_id = cfg.session_id,
                                        !.inner_total = cfg.inner_count,
                                        !.outer_total = cfg.outer_count]
       IN /\ KernelSends(<<StatusFrame("ACK", "BUILDING", 0, 0, RX_CREDIT_TUPLES,
                                       cfg.session_id)>>)
          /\ IF cfg.algorithm = "A"
             THEN /\ kpc' = "BUILD" /\ ses' = linear
                  /\ ht' = Reset(ht) /\ UNCHANGED grace
             ELSE /\ kpc' = "GRACE_INNER"
                  /\ ses' = [linear EXCEPT !.K = K,
                                           !.outer_slot_w = outer_slot_w(cfg.outer_count, K)]
                  /\ StartPartitions /\ UNCHANGED ht
    /\ UNCHANGED junk

-----------------------------------------------------------------------------
(***************************************************************************)
(* BUILD phase.  "BUILD" is the top of build_loop, "INSERT" the inner      *)
(* batch loop.                                                             *)
(***************************************************************************)
InBuildLoop ==
    ses.frame <= HT_MAX_ROWS + 1 /\ ses.inner_received < ses.inner_total

BuildLoopExit ==
    /\ kpc = "BUILD" /\ ~InBuildLoop
    /\ kpc' = "PROBE"
    /\ ses' = [ses EXCEPT !.pending = 0, !.frame = 0]
    /\ UNCHANGED <<ht, grace, junk, link>>

BuildReset ==
    /\ InBuildLoop /\ Reads("BUILD", {"RESET"})
    /\ ht' = Reset(ht)
    /\ KernelSends(<<StatusFrame("ACK", "IDLE", 0, 0, 0, ses.session_id)>>)
    /\ EndSession /\ UNCHANGED <<grace, junk>>

BuildRefuse ==
    InBuildLoop /\ Refuse("BUILD", {"CONFIGURE", "OUTER_DATA"}, "ERR_BAD_STATE")

\* The rows are copied to rx_key_buf and rx_tid_buf without a check of their
\* number: a sender has to keep to RX_BUF_TUPLES.
BuildFrame ==
    /\ InBuildLoop /\ Reads("BUILD", {"INNER_DATA"})
    /\ kpc' = "INSERT"
    /\ ses' = [ses EXCEPT !.batch = Head(h2k).rows]
    /\ UNCHANGED <<k2h, drops, dups, ht, grace, junk>>

InsertRow ==
    /\ kpc = "INSERT" /\ ses.batch # <<>>
    /\ LET row == Head(ses.batch)
           err == BuildError(ht, row.key)
       IN /\ ht' = Build(ht, row.key, row.tid)
          /\ IF err # "ERR_NONE"
             THEN KernelSends(<<ErrorFrame(err)>>) /\ EndSession
             ELSE /\ ses' = [ses EXCEPT !.batch = Tail(@), !.inner_received = @ + 1]
                  /\ UNCHANGED <<kpc, k2h, drops, dups>>
    /\ UNCHANGED <<h2k, grace, junk>>

BuildFrameDone ==
    /\ kpc = "INSERT" /\ ses.batch = <<>>
    /\ kpc' = "BUILD"
    /\ LET pending == ses.pending + 1
           emit_ack == \/ AckDue(pending)
                       \/ ses.inner_received >= ses.inner_total
       IN /\ KernelSends(IF emit_ack
                         THEN <<StatusFrame("ACK", "BUILDING", ses.inner_received, 0,
                                            CreditFor(ses.inner_total, ses.inner_received),
                                            ses.session_id)>>
                         ELSE <<>>)
          /\ ses' = [ses EXCEPT !.pending = IF emit_ack THEN 0 ELSE pending,
                                !.frame = @ + 1]
    /\ UNCHANGED <<h2k, ht, grace, junk>>

-----------------------------------------------------------------------------
(***************************************************************************)
(* PROBE phase.  "PROBE" is the top of probe_loop, "LOOKUP" the outer      *)
(* batch loop and "CLOSE" a batch that ends the phase by being empty.      *)
(***************************************************************************)
InProbeLoop == ses.frame < MAX_PROBE_FRAMES /\ ses.outer_received < ses.outer_total

\* Defect: the flush is forgotten.
NothingFlushed(buf) == <<>>

\* flush_result_batch: nothing is sent for an empty buffer.
Flushed(buf) == IF buf = <<>> THEN <<>> ELSE <<ResultFrame(buf)>>

\* Defect: the buffer may hold one pair more than a frame.
FullWhenExceeded(buf) == Len(buf) > RESULT_FLUSH_PAIRS

\* The buffer holds a full RESULT frame.
BufferFull(buf) == Len(buf) >= RESULT_FLUSH_PAIRS

ProbeReset ==
    /\ InProbeLoop /\ Reads("PROBE", {"RESET"})
    /\ ht' = Reset(ht)
    /\ KernelSends(Flushed(ses.result_buf) \o
                   <<StatusFrame("ACK", "IDLE", ses.outer_received, ses.matched, 0,
                                 ses.session_id)>>)
    /\ EndSession /\ UNCHANGED <<grace, junk>>

ProbeRefuse ==
    InProbeLoop /\ Refuse("PROBE", {"CONFIGURE", "INNER_DATA"}, "ERR_INVALID_CMD")

\* The rows beyond outer_total are read, into the same buffers, and ignored.
ProbeFrame ==
    /\ InProbeLoop /\ Reads("PROBE", {"OUTER_DATA"})
    /\ LET rows == Head(h2k).rows
           process_count == Min({ses.outer_total - ses.outer_received, Len(rows)})
       IN /\ kpc' = IF rows = <<>> THEN "CLOSE" ELSE "LOOKUP"
          /\ ses' = [ses EXCEPT !.batch = SubSeq(rows, 1, process_count)]
    /\ UNCHANGED <<k2h, drops, dups, ht, grace, junk>>

LookupRow ==
    /\ kpc = "LOOKUP" /\ ses.batch # <<>>
    /\ LET row == Head(ses.batch)
           found == Found(ht, row.key)
           buf == IF found
                  THEN Append(ses.result_buf, [inner_tid |-> FoundTid(ht, row.key),
                                               outer_tid |-> row.tid])
                  ELSE ses.result_buf
           full == found /\ BufferFull(buf)
       IN /\ KernelSends(IF full THEN Flushed(buf) ELSE <<>>)
          /\ ses' = [ses EXCEPT !.batch = Tail(@), !.outer_received = @ + 1,
                                !.matched = IF found THEN @ + 1 ELSE @,
                                !.result_buf = IF full THEN <<>> ELSE buf]
    /\ UNCHANGED <<kpc, h2k, ht, grace, junk>>

\* The end of a batch: the DONE status, or an ACK every ACK_BATCH_FRAMES.
ProbeFrameDone ==
    /\ kpc = "CLOSE" \/ (kpc = "LOOKUP" /\ ses.batch = <<>>)
    /\ LET probe_done == kpc = "CLOSE" \/ ses.outer_received >= ses.outer_total
           pending == ses.pending + 1
           emit_ack == AckDue(pending)
           report(type, phase, credit) ==
               StatusFrame(type, phase, ses.outer_received, ses.matched, credit,
                           ses.session_id)
       IN IF probe_done
          THEN /\ KernelSends(Flushed(ses.result_buf) \o <<report("STATUS", "DONE", 0)>>)
               /\ EndSession
          ELSE /\ KernelSends(IF emit_ack
                              THEN <<report("ACK", "PROBING",
                                            CreditFor(ses.outer_total, ses.outer_received))>>
                              ELSE <<>>)
               /\ kpc' = "PROBE"
               /\ ses' = [ses EXCEPT !.pending = IF emit_ack THEN 0 ELSE pending,
                                     !.frame = @ + 1]
    /\ UNCHANGED <<h2k, ht, grace, junk>>

-----------------------------------------------------------------------------
(***************************************************************************)
(* Algorithm B.  "GRACE_INNER" and "GRACE_OUTER" are the tops of the two   *)
(* frame loops, whose headers are read without the watchdog; "GRACE_JOIN"  *)
(* is the top of join_partition_loop, "GRACE_LOAD" its join_build_loop and *)
(* "STALLED" a join_probe_loop that cannot go on.                          *)
(***************************************************************************)
InGraceLoop ==
    \/ /\ kpc = "GRACE_INNER"
       /\ ses.frame <= ses.inner_total + 1 /\ ses.inner_received < ses.inner_total
    \/ /\ kpc = "GRACE_OUTER"
       /\ ses.frame <= ses.outer_total + 1 /\ ses.outer_received < ses.outer_total

GraceReset ==
    /\ InGraceLoop /\ Reads(kpc, {"RESET"})
    /\ KernelSends(<<StatusFrame("ACK", "IDLE", 0, 0, 0, ses.session_id)>>)
    /\ EndSession /\ UNCHANGED <<ht, grace, junk>>

GraceRefuse ==
    /\ InGraceLoop
    /\ Refuse(kpc, {"CONFIGURE", IF kpc = "GRACE_INNER" THEN "OUTER_DATA" ELSE "INNER_DATA"},
              "ERR_BAD_STATE")

\* A data frame: its rows are written, up to the first that finds its
\* partition full.  Then the rest of the frame is read and discarded.
GraceFrame(parts, max_per_slot, phase, total, received) ==
    LET rows == Head(h2k).rows
        n == RowsWithRoom(parts, rows, ses.K, max_per_slot)
    IN IF n < Len(rows)
       THEN KernelSends(<<ErrorFrame("ERR_OVERFLOW")>>) /\ EndSession
       ELSE /\ KernelSends(<<StatusFrame("ACK", phase, received + n, 0,
                                         CreditFor(total, received + n), ses.session_id)>>)
            /\ ses' = [ses EXCEPT !.frame = @ + 1,
                         !.inner_received = IF phase = "BUILDING" THEN @ + n ELSE @,
                         !.outer_received = IF phase = "PROBING" THEN @ + n ELSE @]
            /\ UNCHANGED kpc

GraceInnerFrame ==
    /\ InGraceLoop /\ Reads("GRACE_INNER", {"INNER_DATA"})
    /\ GraceFrame(grace.inner, HT_MAX_ROWS, "BUILDING", ses.inner_total, ses.inner_received)
    /\ grace' = [grace EXCEPT !.inner =
                    PutRows(@, Head(h2k).rows,
                            RowsWithRoom(@, Head(h2k).rows, ses.K, HT_MAX_ROWS), ses.K)]
    /\ UNCHANGED <<ht, junk>>

GraceOuterFrame ==
    /\ InGraceLoop /\ Reads("GRACE_OUTER", {"OUTER_DATA"})
    /\ LET max_per_slot == ses.outer_slot_w \div GRACE_WORDS_PER_TUPLE
       IN /\ GraceFrame(grace.outer, max_per_slot, "PROBING", ses.outer_total, ses.outer_received)
          /\ grace' = [grace EXCEPT !.outer =
                          PutRows(@, Head(h2k).rows,
                                  RowsWithRoom(@, Head(h2k).rows, ses.K, max_per_slot), ses.K)]
    /\ UNCHANGED <<ht, junk>>

GraceLoopExit ==
    /\ kpc \in {"GRACE_INNER", "GRACE_OUTER"} /\ ~InGraceLoop
    /\ kpc' = IF kpc = "GRACE_INNER" THEN "GRACE_OUTER" ELSE "GRACE_JOIN"
    /\ ses' = [ses EXCEPT !.frame = 0]
    /\ UNCHANGED <<ht, grace, junk, link>>

\* Defect: the table is not reset between two partitions.
JoinOnTop ==
    /\ kpc = "GRACE_JOIN" /\ ses.partition < ses.K
    /\ kpc' = "GRACE_LOAD"
    /\ ses' = [ses EXCEPT !.batch = grace.inner[ses.partition]]
    /\ UNCHANGED <<ht, grace, junk, link>>

\* join_partition_loop turns to the next partition.
GraceJoin ==
    /\ kpc = "GRACE_JOIN" /\ ses.partition < ses.K
    /\ kpc' = "GRACE_LOAD"
    /\ ses' = [ses EXCEPT !.batch = grace.inner[ses.partition]]
    /\ ht' = Reset(ht)
    /\ UNCHANGED <<grace, junk, link>>

GraceLoadRow ==
    /\ kpc = "GRACE_LOAD" /\ ses.batch # <<>>
    /\ LET row == Head(ses.batch)
           err == BuildError(ht, row.key)
       IN /\ ht' = Build(ht, row.key, row.tid)
          /\ IF err # "ERR_NONE"
             THEN KernelSends(<<ErrorFrame(err)>>) /\ EndSession
             ELSE /\ ses' = [ses EXCEPT !.batch = Tail(@)]
                  /\ UNCHANGED <<kpc, k2h, drops, dups>>
    /\ UNCHANGED <<h2k, grace, junk>>

GraceProbe ==
    /\ kpc = "GRACE_LOAD" /\ ses.batch = <<>>
    /\ \E pairs \in {ProbePartition(ht, grace.outer[ses.partition])} :
          /\ ~TooLong(pairs)
          /\ KernelSends(ResultFrames(pairs))
          /\ ses' = [ses EXCEPT !.partition = @ + 1, !.matched = @ + Len(pairs)]
    /\ kpc' = "GRACE_JOIN"
    /\ UNCHANGED <<h2k, ht, grace, junk>>

\* tx_results blocks on a frame the transmitter never sends: the kernel is in
\* the middle of join_probe_loop for ever.
GraceStall ==
    /\ kpc = "GRACE_LOAD" /\ ses.batch = <<>>
    /\ TooLong(ProbePartition(ht, grace.outer[ses.partition]))
    /\ kpc' = "STALLED"
    /\ UNCHANGED <<ses, ht, grace, junk, link>>

\* The final STATUS: every partition joined; or, in algorithm A, no outer
\* rows expected or the trip count reached, when probe_loop is left at its
\* top with whatever result_buf holds unsent.
SessionDone ==
    /\ \/ kpc = "PROBE" /\ ~InProbeLoop
       \/ kpc = "GRACE_JOIN" /\ ses.partition = ses.K
    /\ KernelSends(<<StatusFrame("STATUS", "DONE", 0, ses.matched, 0, ses.session_id)>>)
    /\ EndSession /\ UNCHANGED <<h2k, ht, grace, junk>>

-----------------------------------------------------------------------------
\* The kernel is about to read the header of an aligned frame.
WaitsForFrame ==
    /\ junk = 0
    /\ \/ kpc = "IDLE"
       \/ kpc = "BUILD" /\ InBuildLoop
       \/ kpc = "PROBE" /\ InProbeLoop
       \/ InGraceLoop

\* The kernel has nothing to read and nothing to finish: it waits for a
\* frame, or for the rest of a header that stray bytes began.
KernelQuiet == h2k = <<>> /\ (WaitsForFrame \/ junk \in 1..(HEADER_BYTES - 1))

\* Defect: the probe loop reads its headers without the watchdog.
UnguardedProbe == WaitsForFrame /\ kpc \in {"IDLE", "BUILD"}

\* The kernel polls for the first byte and gives up after a time; algorithm B
\* and the rest of a header wait without a limit.
AtFrameBoundary == WaitsForFrame /\ kpc \in {"IDLE", "BUILD", "PROBE"}

\* rx_byte_guarded gives up after RX_WATCHDOG_CYCLES without a byte: frames
\* in h2k are then still on the wire.  An idle kernel repeats the ACK; one
\* unread copy at a time is enough, as the host never counts them.
Watchdog ==
    /\ AtFrameBoundary
    /\ kpc = "IDLE" => ~Contains(k2h, IdleAck)
    /\ KernelSends(<<StatusFrame("ACK", "IDLE", 0, 0, RX_CREDIT_TUPLES, ses.session_id)>>)
    /\ EndSession /\ UNCHANGED <<h2k, ht, grace, junk>>

LinearStep ==
    \/ BuildLoopExit \/ BuildReset \/ BuildRefuse \/ BuildFrame
    \/ InsertRow \/ BuildFrameDone
    \/ ProbeReset \/ ProbeRefuse \/ ProbeFrame \/ LookupRow \/ ProbeFrameDone

GraceStep ==
    \/ GraceReset \/ GraceRefuse \/ GraceInnerFrame \/ GraceOuterFrame
    \/ GraceLoopExit \/ GraceJoin \/ GraceLoadRow \/ GraceProbe \/ GraceStall

KernelStep ==
    \/ IdleReset \/ IdleRefuse \/ IdleMisread \/ ConfigureRefuse \/ Configure
    \/ LinearStep \/ GraceStep \/ SessionDone

=============================================================================
