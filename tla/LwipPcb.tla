------------------------------- MODULE LwipPcb -------------------------------
(***************************************************************************)
(* A TCP connection of the IP stack in tun2socks (lwIP), as the code that  *)
(* uses it sees it: its protocol control block with the callbacks that are *)
(* registered, the receive window, the space left for sending, and the     *)
(* calls that change them.  A byte is a unit; sequence numbers, segments   *)
(* on the wire and retransmissions stay inside the stack.                  *)
(***************************************************************************)
EXTENDS Integers

CONSTANTS
  TCP_WND,        \* the largest receive window
  TCP_SND_BUF     \* the largest amount of data queued for sending

ASSUME PcbAssumption == {TCP_WND, TCP_SND_BUF} \subseteq Nat \ {0}

\* "FIN_SENT" stands for FIN_WAIT_1, FIN_WAIT_2, CLOSING and LAST_ACK, and
\* for a FIN that waits for memory (TF_CLOSEPEND); "PURGED" is out of every
\* list and freed by tcp_input on its way out (TF_CLOSED).
Pcb ==
  [state : {"SYN_RCVD", "ESTABLISHED", "CLOSE_WAIT", "FIN_SENT",
            "TIME_WAIT", "PURGED", "FREE"},
   recv : BOOLEAN, sent : BOOLEAN, errf : BOOLEAN,   \* callbacks registered
   rxclosed : BOOLEAN,                               \* TF_RXCLOSED
   refused : 0 .. TCP_WND,                           \* refused_data
   rcv_wnd : 0 .. TCP_WND,
   snd_buf : 0 .. TCP_SND_BUF]

NewPcb ==
  [state |-> "SYN_RCVD", recv |-> FALSE, sent |-> FALSE, errf |-> FALSE,
   rxclosed |-> FALSE, refused |-> 0,
   rcv_wnd |-> TCP_WND, snd_buf |-> TCP_SND_BUF]

Open(p) == p.state \in {"ESTABLISHED", "CLOSE_WAIT"}

NoCallbacks(p) == [p EXCEPT !.recv = FALSE, !.sent = FALSE, !.errf = FALSE]

bmin_int(a, b) == IF a < b THEN a ELSE b

tcp_recved(p, n) == [p EXCEPT !.rcv_wnd = bmin_int(@ + n, TCP_WND)]

\* input: tcp_input is working on this very pcb.  Data the application has
\* not confirmed turns the close into a reset.
tcp_close(p, input) ==
  LET unread == p.refused > 0 \/ p.rcv_wnd # TCP_WND
      next ==
        IF Open(p) /\ unread
        THEN IF p.state = "ESTABLISHED" THEN "TIME_WAIT"
             ELSE IF input THEN "PURGED" ELSE "FREE"
        ELSE IF Open(p) THEN "FIN_SENT" ELSE p.state
  IN  [p EXCEPT !.state = next, !.rxclosed = TRUE]

tcp_abort(p) == [p EXCEPT !.state = "FREE"]

\* What tcp_process and tcp_receive do with a segment that acknowledges
\* `acked' bytes and brings `data' bytes in sequence, perhaps with a FIN.
FitsWindow(p, data, fin) ==
  data + (IF fin THEN 1 ELSE 0) <= p.rcv_wnd

tcp_receive(p, acked, data, fin) ==
  [p EXCEPT !.snd_buf = @ + acked,
            !.rcv_wnd = @ - data - (IF fin THEN 1 ELSE 0),
            !.state = IF fin /\ @ = "ESTABLISHED" THEN "CLOSE_WAIT" ELSE @]

\* tcp_input confirms the FIN by itself before it tells the application.
ConfirmFin(p) == [p EXCEPT !.rcv_wnd = bmin_int(@ + 1, TCP_WND)]

=============================================================================
