---------------------------- MODULE ChaoticHost ----------------------------
(***************************************************************************)
(* The kernel on its own, driven by a host that may send any frame at any  *)
(* time or fall silent for ever: what the kernel guarantees without        *)
(* trusting its peer, but for one thing: no frame has more rows than the   *)
(* kernel's buffers hold.  There is no bound on the frames exchanged.      *)
(***************************************************************************)
EXTENDS HashJoinKernel, EquiJoin

CONSTANT Repertoires    \* of each host, the frames it may send

\* The frames a host has: an algorithm byte of any value, any sizes, any rows.
HostFrames ==
    [type : {"CONFIGURE"}, algorithm : STRING, inner_count : Nat, outer_count : Nat,
     session_id : Nat]
        \cup [type : {"INNER_DATA", "OUTER_DATA"},
              rows : {s \in Seq([key : Keys, tid : Tids]) : Len(s) <= RX_BUF_TUPLES}]
        \cup [type : {"RESET"}]

ASSUME RepertoiresAssumption == \A frames \in Repertoires : frames \subseteq HostFrames

VARIABLES
    repertoire,   \* the frames of this behaviour's host
    pairs,        \* result pairs read since the session was configured
    seen          \* history: the session's algorithm and the rows it has handled

vars == <<link, kernel, repertoire, pairs, seen>>

NothingSeen == [algorithm |-> "none", inner |-> <<>>, outer |-> <<>>]

Init == /\ LinkInit /\ KernelInit /\ repertoire \in Repertoires
        /\ pairs = <<>> /\ seen = NothingSeen

\* A frame is sent when the kernel waits for one; sent earlier, it would
\* have to wait until then.
HostWrites ==
    /\ KernelQuiet /\ k2h = <<>>
    /\ \E f \in repertoire : HostSends(<<f>>)
    /\ UNCHANGED <<k2h, kernel, repertoire, pairs, seen>>

\* A kernel that has stopped reads nothing of what the host sends.
HostWritesInVain == kpc = "STALLED" /\ UNCHANGED vars

\* The history ends with the last frame of the session.
HostReads ==
    /\ k2h # <<>>
    /\ k2h' = Tail(k2h)
    /\ IF kpc = "IDLE" /\ k2h' = <<>>
       THEN pairs' = <<>> /\ seen' = NothingSeen
       ELSE /\ pairs' = IF Head(k2h).type = "RESULT" THEN pairs \o Head(k2h).pairs
                        ELSE pairs
            /\ UNCHANGED seen
    /\ UNCHANGED <<h2k, drops, dups, kernel, repertoire>>

\* The rows a step of the kernel handles.
RowsOfStep == IF kpc \in {"INSERT", "LOOKUP"} THEN <<Head(ses.batch)>>
              ELSE Head(h2k).rows

Kernel ==
    /\ KernelStep
    /\ seen' = CASE kpc = "IDLE" /\ kpc' # "IDLE" ->
                        [NothingSeen EXCEPT !.algorithm = Head(h2k).algorithm]
                 [] ses'.inner_received > ses.inner_received ->
                        [seen EXCEPT !.inner = @ \o RowsOfStep]
                 [] ses'.outer_received > ses.outer_received ->
                        [seen EXCEPT !.outer = @ \o RowsOfStep]
                 [] OTHER -> seen
    /\ UNCHANGED <<repertoire, pairs>>

KernelWatchdog ==
    /\ h2k = <<>> /\ Watchdog
    /\ UNCHANGED <<repertoire, pairs, seen>>

Next == HostWrites \/ HostWritesInVain \/ HostReads \/ Kernel \/ KernelWatchdog

Spec == Init /\ [][Next]_vars /\ WF_vars(Kernel) /\ WF_vars(KernelWatchdog)

-----------------------------------------------------------------------------
\* The kernel's state keeps its shape under any frames: result_buf never
\* holds a full frame between two rows, and no partition more rows than its
\* slot in DDR2.
TypeOK ==
    /\ kpc \in {"IDLE", "BUILD", "INSERT", "PROBE", "LOOKUP", "CLOSE",
                "GRACE_INNER", "GRACE_OUTER", "GRACE_JOIN", "GRACE_LOAD", "STALLED"}
    /\ ht \in Table
    /\ {ses.inner_received, ses.outer_received, ses.matched, ses.pending, junk}
           \subseteq Nat
    /\ Len(ses.result_buf) < RESULT_FLUSH_PAIRS
    /\ \A p \in Partitions : Len(grace.inner[p]) <= HT_MAX_ROWS
    /\ kpc = "GRACE_OUTER" =>
          \A p \in 0..(ses.K - 1) :
              OuterAddress(p, Len(grace.outer[p]), ses.outer_slot_w)
                  <= Min({OuterAddress(p + 1, 0, ses.outer_slot_w),
                          GRACE_DDR2_TOTAL_WORDS})

\* From CONFIGURE to the end of the session the table (algorithm A) or the
\* partitions (algorithm B) hold exactly the rows this session has been
\* sent: rows of an aborted session (its RESET, error or watchdog) never
\* leak into the next one's lookups, and B keeps a partition's rows in the
\* order of their arrival, the first of a key in front.
MemoryIsOfSession ==
    /\ kpc \in {"BUILD", "INSERT", "PROBE", "LOOKUP", "CLOSE"} =>
          LET occupied == {s \in Slots : ht.valid[s]}
          IN /\ {[key |-> ht.key[s], tid |-> ht.tid[s]] : s \in occupied}
                     = ToSet(seen.inner)
             /\ Cardinality(occupied) = ses.inner_received
             /\ ht.row_count = ses.inner_received
    /\ kpc \in {"GRACE_INNER", "GRACE_OUTER", "GRACE_JOIN", "GRACE_LOAD"} =>
          \A p \in Partitions : /\ grace.inner[p] = RowsIn(seen.inner, p, ses.K)
                                /\ grace.outer[p] = RowsIn(seen.outer, p, ses.K)

\* The host is about to read a report on rows of the session.
Reporting ==
    /\ k2h # <<>> /\ Head(k2h).type \in {"ACK", "STATUS"}
    /\ Head(k2h).rows_processed > 0

\* rows_matched of the ACK of a RESET during the probe phase is the number of
\* pairs in the session's RESULT frames, and they all precede it.  In a
\* PROBING ACK fewer than RESULT_FLUSH_PAIRS may still be in result_buf; in
\* algorithm B no pair is counted before the partitions are joined.
ReportsCountResults ==
    Reporting =>
        LET missing == Head(k2h).rows_matched - Len(pairs)
        IN CASE Head(k2h).phase = "IDLE" -> missing = 0
             [] Head(k2h).phase = "PROBING" -> missing \in 0..(RESULT_FLUSH_PAIRS - 1)
             [] Head(k2h).phase = "DONE" -> missing = 0
             [] OTHER -> Head(k2h).rows_matched = 0

\* When the host reads DONE it has read exactly the join of the rows the
\* kernel was sent, whatever came before, whatever the batches, and in
\* algorithm B whatever the partitions; and rows_matched is its size, which
\* verify_matched_count on the host depends on.  (A probe_loop cut short by
\* its trip count reports DONE with no rows processed.)
DoneMeansJoined ==
    LET done == /\ k2h # <<>> /\ Head(k2h).type = "STATUS"
                /\ seen.algorithm = "A" => Head(k2h).rows_processed > 0
    IN done => /\ IsJoinOf(pairs, seen.inner, seen.outer)
               /\ Head(k2h).rows_matched = Len(pairs)

\* A session of algorithm A always ends, also when the host stops in the
\* middle of it: the watchdog of rx_byte_guarded brings the kernel back to
\* IDLE.  One of algorithm B ends, or waits for a frame that never comes, or
\* stops for ever, but that only with more matches in a partition than fit in
\* a datagram.
SessionsEnd == []<>(\/ kpc = "IDLE" \/ (InGraceLoop /\ h2k = <<>>)
                    \/ kpc = "STALLED" /\ ~MatchesSendable(seen.inner, seen.outer, ses.K))

=============================================================================
