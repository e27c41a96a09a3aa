----------------------------- MODULE UartBridge -----------------------------
(***************************************************************************)
(* uart_stream_bridge (src/rtl/uart_stream_bridge.v): one holding register *)
(* between the serial line and the kernel's rx, one shift register behind  *)
(* its tx.  A step is one clock.                                           *)
(*                                                                         *)
(* A byte takes BYTE_CLOCKS on the line in either direction (10 * CPB,     *)
(* 8680 in the code).  The host writes whenever it likes: nothing on the   *)
(* line holds it back, and its window of frames is wider than the          *)
(* register.  The kernel is sequential: in any clock it reads, writes a    *)
(* byte of an ACK, RESULT, DEBUG or other frame, or computes, in any order *)
(* and for any time.  The bytes of each direction are numbered.            *)
(***************************************************************************)
EXTENDS Integers

CONSTANTS
    BYTE_CLOCKS,
    MaxBytes      \* bound on the bytes of either direction

ASSUME UartAssumption == BYTE_CLOCKS \in Nat \ {0} /\ MaxBytes \in Nat

VARIABLES
    host,     \* bytes sent, clocks until another one can have arrived, last byte heard
    axis,     \* m_axis_tvalid and m_axis_tdata
    tx,       \* the byte in the transmitter and the clocks until it has been sent
    kernel,   \* what the kernel does, the last byte it got and those it has written
    away,     \* history: clocks since the kernel last read, up to BYTE_CLOCKS
    punctual  \* history: the kernel has never been away for BYTE_CLOCKS

vars == <<host, axis, tx, kernel, away, punctual>>

Init ==
    /\ host = [sent |-> 0, timer |-> 0, heard |-> 0]
    /\ axis = [tvalid |-> FALSE, tdata |-> 0]
    /\ tx = [timer |-> 0, tdata |-> 0]
    /\ kernel = [does |-> "read", got |-> 0, written |-> 0]
    /\ away = 0 /\ punctual = TRUE

-----------------------------------------------------------------------------
\* Defect: a byte is taken while another one is being shifted out.
AlwaysReady == TRUE

s_axis_tready == tx.timer = 0

\* The kernel waits in a read of rx.
m_axis_tready == kernel.does = "read"

\* The kernel accepts the byte in the register.
Accepts == axis.tvalid /\ m_axis_tready

\* The kernel gets rid of a byte.
Writes == kernel.does = "write" /\ s_axis_tready

\* A stop bit has been sampled: rdone is set.
rdone(sends) == sends /\ host.timer = 0 /\ host.sent < MaxBytes

\* Defect: tvalid stays after the byte has been accepted.
HoldAfterAccept(sends) ==
    axis' = IF rdone(sends) THEN [tvalid |-> TRUE, tdata |-> host.sent + 1] ELSE axis

\* Defect: a byte that comes in the clock of an acceptance is missed.
MissedOnAccept(sends) ==
    axis' = IF Accepts THEN [axis EXCEPT !.tvalid = FALSE]
            ELSE IF rdone(sends) THEN [tvalid |-> TRUE, tdata |-> host.sent + 1]
            ELSE axis

\* A byte that comes while the register is full replaces the one in it.
AxisClock(sends) ==
    axis' = IF rdone(sends) THEN [tvalid |-> TRUE, tdata |-> host.sent + 1]
            ELSE IF Accepts THEN [axis EXCEPT !.tvalid = FALSE]
            ELSE axis

TxClock ==
    tx' = IF Writes THEN [timer |-> BYTE_CLOCKS, tdata |-> kernel.written + 1]
          ELSE IF tx.timer = 0 THEN tx
          ELSE [tx EXCEPT !.timer = @ - 1]

\* What the kernel turns to: a byte it offers on tx stays until it is taken.
KernelClock(does) ==
    /\ kernel.does = "write" /\ ~Writes => does = "write"
    /\ does = "write" => kernel.written + (IF Writes THEN 1 ELSE 0) < MaxBytes
    /\ kernel' = [does |-> does,
                  got |-> IF Accepts THEN axis.tdata ELSE kernel.got,
                  written |-> IF Writes THEN kernel.written + 1 ELSE kernel.written]
    /\ away' = IF m_axis_tready THEN 0 ELSE IF away = BYTE_CLOCKS THEN away ELSE away + 1
    /\ punctual' = (punctual /\ away' < BYTE_CLOCKS)

\* The host's bytes follow one another no faster than the line carries them,
\* and it hears a byte when its stop bit has been sent.
HostClock(sends) ==
    host' = [sent |-> IF rdone(sends) THEN host.sent + 1 ELSE host.sent,
             timer |-> IF rdone(sends) THEN BYTE_CLOCKS - 1
                       ELSE IF host.timer = 0 THEN 0 ELSE host.timer - 1,
             heard |-> IF tx.timer = 1 /\ ~Writes THEN tx.tdata ELSE host.heard]

Clock(sends, does) == AxisClock(sends) /\ TxClock /\ KernelClock(does) /\ HostClock(sends)

Next == \E sends \in BOOLEAN, does \in {"read", "write", "compute"} : Clock(sends, does)

Spec == Init /\ [][Next]_vars

-----------------------------------------------------------------------------
\* Whatever the kernel is busy with, it gets the host's bytes in the order
\* they were sent and none twice: an overrun leaves a hole in the stream and
\* does nothing else to it.
BytesInOrder ==
    /\ axis.tvalid => kernel.got < axis.tdata
    /\ kernel.got <= host.sent /\ axis.tdata <= host.sent

\* The register loses a byte only to a kernel that has not read for as long
\* as a byte takes on the line.  As long as there was none, every byte sent
\* has been taken or is in the register.
StreamIntact ==
    punctual => host.sent = (IF axis.tvalid THEN axis.tdata ELSE kernel.got)
                /\ (axis.tvalid => axis.tdata = kernel.got + 1)

\* The other direction needs no such condition: every byte the kernel has
\* written has been heard by the host or is on the line, where it is next.
RepliesHeard ==
    kernel.written = host.heard + (IF tx.timer = 0 THEN 0 ELSE 1)
    /\ (tx.timer # 0 => tx.tdata = host.heard + 1)

\* What the comment on the register says (uart_stream_bridge.v lines 141-144):
\* "it is dropped.  At 115200 baud one byte takes ~87 us; the kernel (running
\* at 100 MHz) will always accept within a few nanoseconds": no byte comes
\* while another one is waiting.
KernelAcceptsInTime ==
    [][axis.tvalid /\ axis'.tdata # axis.tdata => Accepts]_vars

=============================================================================
