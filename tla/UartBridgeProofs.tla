-------------------------- MODULE UartBridgeProofs --------------------------
(***************************************************************************)
(* What uart_stream_bridge does to the two byte streams, for every byte    *)
(* time and any kernel and host.                                           *)
(***************************************************************************)
EXTENDS UartBridge, TLAPS

Types ==
    /\ host \in [sent : Nat, timer : 0..(BYTE_CLOCKS - 1), heard : Nat]
    /\ axis \in [tvalid : BOOLEAN, tdata : Nat]
    /\ tx \in [timer : 0..BYTE_CLOCKS, tdata : Nat]
    /\ kernel \in [does : {"read", "write", "compute"}, got : Nat, written : Nat]
    /\ away \in 0..BYTE_CLOCKS /\ punctual \in BOOLEAN

\* The age of a byte in the register: since it came the kernel has not read,
\* and the line has been busy with the next one.
ByteWaits == axis.tvalid => away + host.timer >= BYTE_CLOCKS - 1

IInv == Types /\ BytesInOrder /\ StreamIntact /\ RepliesHeard /\ ByteWaits

LEMMA InitInv == Init => IInv
BY UartAssumption
   DEF Init, IInv, Types, BytesInOrder, StreamIntact, RepliesHeard, ByteWaits

LEMMA TypesKept ==
    ASSUME Types, NEW sends \in BOOLEAN, NEW does \in {"read", "write", "compute"},
           Clock(sends, does)
    PROVE  Types'
<1> USE UartAssumption DEF Types
<1>1. axis' \in [tvalid : BOOLEAN, tdata : Nat]
  <2>1. host.sent + 1 \in Nat
    OBVIOUS
  <2>2. CASE rdone(sends)
    <3>1. axis' = [tvalid |-> TRUE, tdata |-> host.sent + 1]
      BY <2>2 DEF Clock, AxisClock
    <3> HIDE DEF Types
    <3> QED BY <2>1, <3>1
  <2>3. CASE ~rdone(sends) /\ Accepts
    <3>1. axis' = [axis EXCEPT !.tvalid = FALSE] /\ axis \in [tvalid : BOOLEAN, tdata : Nat]
      BY <2>3 DEF Clock, AxisClock
    <3> HIDE DEF Types
    <3> QED BY <3>1, Zenon
  <2>4. CASE ~rdone(sends) /\ ~Accepts
    BY <2>4 DEF Clock, AxisClock
  <2> QED BY <2>2, <2>3, <2>4
<1>2. tx' \in [timer : 0..BYTE_CLOCKS, tdata : Nat]
  BY DEF Clock, TxClock
<1>3. kernel' \in [does : {"read", "write", "compute"}, got : Nat, written : Nat]
  BY DEF Clock, KernelClock
<1>4. away' \in 0..BYTE_CLOCKS /\ punctual' \in BOOLEAN
  BY DEF Clock, KernelClock
<1>5. host' \in [sent : Nat, timer : 0..(BYTE_CLOCKS - 1), heard : Nat]
  BY DEF Clock, HostClock
<1> QED BY <1>1, <1>2, <1>3, <1>4, <1>5

\* The direction from the host to the kernel: a byte comes, or the one in the
\* register is taken, or both, or neither.
LEMMA RxKept ==
    ASSUME IInv, NEW sends \in BOOLEAN, NEW does \in {"read", "write", "compute"},
           Clock(sends, does)
    PROVE  (BytesInOrder /\ StreamIntact /\ ByteWaits)'
<1> USE UartAssumption
<1>1. Types /\ BytesInOrder /\ StreamIntact /\ ByteWaits
  BY DEF IInv
<1>2. /\ kernel'.got = IF Accepts THEN axis.tdata ELSE kernel.got
      /\ away' = IF m_axis_tready THEN 0 ELSE IF away = BYTE_CLOCKS THEN away ELSE away + 1
      /\ punctual' = (punctual /\ away' < BYTE_CLOCKS)
  BY DEF Clock, KernelClock
<1>3. /\ host'.sent = IF rdone(sends) THEN host.sent + 1 ELSE host.sent
      /\ host'.timer = IF rdone(sends) THEN BYTE_CLOCKS - 1
                       ELSE IF host.timer = 0 THEN 0 ELSE host.timer - 1
  BY DEF Clock, HostClock
<1>4. CASE rdone(sends)
  <2>1. axis' = [tvalid |-> TRUE, tdata |-> host.sent + 1] /\ host.timer = 0
    BY <1>4 DEF Clock, AxisClock, rdone
  <2>2. BytesInOrder' /\ ByteWaits'
    BY <1>1, <1>2, <1>3, <1>4, <2>1 DEF BytesInOrder, ByteWaits, Types
  <2>3. ASSUME punctual', axis.tvalid PROVE Accepts
    <3>1. away' < BYTE_CLOCKS
      BY <1>2, <2>3, Zenon
    <3>2. away >= BYTE_CLOCKS - 1
      BY <1>1, <2>1, <2>3 DEF ByteWaits, Types
    <3>3. m_axis_tready
      BY <1>1, <1>2, <3>1, <3>2 DEF Types
    <3> QED BY <2>3, <3>3 DEF Accepts
  <2>4. StreamIntact'
    BY <1>1, <1>2, <1>3, <1>4, <2>1, <2>3 DEF StreamIntact, Accepts, Types
  <2> QED BY <2>2, <2>4
<1>5. CASE ~rdone(sends) /\ Accepts
  <2>1. ~axis'.tvalid /\ axis'.tdata = axis.tdata
    BY <1>1, <1>5 DEF Clock, AxisClock, Types
  <2> QED BY <1>1, <1>2, <1>3, <1>5, <2>1
             DEF BytesInOrder, StreamIntact, ByteWaits, Accepts, Types
<1>6. CASE ~rdone(sends) /\ ~Accepts
  <2>1. axis' = axis
    BY <1>6 DEF Clock, AxisClock
  <2>2. axis.tvalid => ~m_axis_tready
    BY <1>6 DEF Accepts
  <2> QED BY <1>1, <1>2, <1>3, <1>6, <2>1, <2>2
             DEF BytesInOrder, StreamIntact, ByteWaits, Types
<1> QED BY <1>4, <1>5, <1>6

\* The direction from the kernel to the host.
LEMMA TxKept ==
    ASSUME IInv, NEW sends \in BOOLEAN, NEW does \in {"read", "write", "compute"},
           Clock(sends, does)
    PROVE  RepliesHeard'
BY UartAssumption
   DEF IInv, Types, RepliesHeard, Clock, TxClock, KernelClock, HostClock, Writes, s_axis_tready

LEMMA Inductive == Spec => []IInv
<1>1. ASSUME IInv, [Next]_vars PROVE IInv'
  <2>1. ASSUME NEW sends \in BOOLEAN, NEW does \in {"read", "write", "compute"},
               Clock(sends, does)
        PROVE  IInv'
    BY <1>1, <2>1, TypesKept, RxKept, TxKept DEF IInv
  <2>2. CASE UNCHANGED vars
    BY <1>1, <2>2
       DEF vars, IInv, Types, BytesInOrder, StreamIntact, RepliesHeard, ByteWaits
  <2> QED BY <1>1, <2>1, <2>2 DEF Next
<1> QED BY <1>1, InitInv, PTL DEF Spec

\* The kernel gets the host's bytes in order and none twice, whatever it is
\* doing meanwhile (RX handshake of uart_stream_bridge).
THEOREM BytesTakenInOrder == Spec => []BytesInOrder
BY Inductive, PTL DEF IInv

\* No byte is lost to a kernel that comes back to reading within the time of
\* a byte on the line.
THEOREM PunctualKernelLosesNothing == Spec => []StreamIntact
BY Inductive, PTL DEF IInv

\* The kernel's bytes reach the host, all of them and in order (transmitter
\* of uart_stream_bridge).
THEOREM RepliesReachHost == Spec => []RepliesHeard
BY Inductive, PTL DEF IInv

=============================================================================
