-------------------------------- MODULE Tls --------------------------------
(***************************************************************************)
(* How a connection of the web server reads and writes through OpenSSL     *)
(* (connection_poll_cb, do_ssl_read and do_ssl_write of pcx-connection.c): *)
(* a read may want the socket to be writable and a write to be readable,   *)
(* and a write that was not done must be tried again with the same size    *)
(* while the write buffer grows. Sizes are counted in units.               *)
(***************************************************************************)
EXTENDS Integers, FiniteSets

CONSTANTS
    WriteBuf,       \* sizeof conn->write_buf
    MaxSaid         \* how much the conversation has to say to this connection

ASSUME WriteBufAssumption == WriteBuf \in Nat

VARIABLES
    conn            \* struct pcx_connection, as far as its socket goes

POLL_IN == "in"
POLL_OUT == "out"

TlsInit ==
    conn = [ssl_read_block |-> {}, ssl_write_block |-> {}, ssl_write_block_size |-> 0,
            write_buf_pos |-> 0, unsaid |-> 0, said |-> 0,
            flags |-> {POLL_IN},         \* of its poll source
            polled |-> {},          \* those that were polled
            again |-> 0,            \* the size that SSL_write wants to see again
            refused |-> FALSE,      \* it got another one
            closed |-> FALSE]

Ready(c) == c.write_buf_pos > 0 \/ c.unsaid > 0

(* Faulty: whatever a write waits for.                                      *)
UpdatePollFlagsReady(c) ==
    [c EXCEPT !.flags = (IF c.ssl_read_block # {} THEN c.ssl_read_block ELSE {POLL_IN})
                        \cup (IF Ready(c) THEN {POLL_OUT} ELSE {})]

UpdatePollFlags(c) ==
    [c EXCEPT !.flags =
        (IF c.ssl_read_block # {} THEN c.ssl_read_block ELSE {POLL_IN})
        \cup (IF c.ssl_write_block # {} THEN c.ssl_write_block
              ELSE IF Ready(c) THEN {POLL_OUT} ELSE {})]

(* do_ssl_read: some data, which may be answered, or what SSL_read waits    *)
(* for, or an error.                                                        *)
DoSslRead(c) ==
    {UpdatePollFlags([c EXCEPT !.ssl_read_block = {}, !.unsaid = @ + n, !.said = @ + n]) :
        n \in {n \in 0 .. 1 : c.said + n =< MaxSaid}}
    \cup {UpdatePollFlags([c EXCEPT !.ssl_read_block = {flag}]) : flag \in {POLL_IN, POLL_OUT}}
    \cup {[c EXCEPT !.closed = TRUE]}

(* do_ssl_write. SSL_write takes all or nothing.                            *)
DoSslWrite(c, size) ==
    {UpdatePollFlags([c EXCEPT !.write_buf_pos = @ - size, !.ssl_write_block = {},
                               !.again = 0, !.refused = @ \/ c.again \notin {0, size}]),
     [c EXCEPT !.closed = TRUE]}
    \cup {UpdatePollFlags([c EXCEPT !.ssl_write_block = {flag},
                                    !.ssl_write_block_size = size, !.again = size,
                                    !.refused = @ \/ c.again \notin {0, size}]) :
            flag \in {POLL_IN, POLL_OUT}}

(* handle_write: there may be nothing to say but private messages of others.*)
HandleWrite(c) ==
    LET space == WriteBuf - c.write_buf_pos
        n == IF c.unsaid < space THEN c.unsaid ELSE space
        filled == [c EXCEPT !.write_buf_pos = @ + n, !.unsaid = @ - n]
    IN UNION {IF d.write_buf_pos = 0 THEN {UpdatePollFlags(d)} ELSE DoSslWrite(d, d.write_buf_pos) :
              d \in {filled, [c EXCEPT !.unsaid = 0]}}

PollSocket == ~conn.closed /\ conn' = [conn EXCEPT !.polled = conn.flags]

(* connection_poll_cb, for what poll has found.                             *)
ConnectionPollCb ==
    /\ ~conn.closed
    /\ \E flags \in (SUBSET conn.polled) \ {{}} :
         LET c == [conn EXCEPT !.polled = {}] IN
         conn' \in IF c.ssl_read_block # {} /\ c.ssl_read_block \subseteq flags
                   THEN DoSslRead(c)
                   ELSE IF c.ssl_write_block # {} /\ c.ssl_write_block \subseteq flags
                   THEN DoSslWrite(c, c.ssl_write_block_size)
                   ELSE IF POLL_IN \in flags THEN DoSslRead(c)
                   ELSE HandleWrite(c)

(* The callback of another connection makes the conversation say something, *)
(* before or after this one was polled.                                     *)
MoreSaid ==
    /\ ~conn.closed /\ conn.said < MaxSaid
    /\ conn' = UpdatePollFlags([conn EXCEPT !.unsaid = @ + 1, !.said = @ + 1])

TlsNext == PollSocket \/ ConnectionPollCb \/ MoreSaid
TlsSpec == TlsInit /\ [][TlsNext]_conn

-----------------------------------------------------------------------------
(* Properties.                                                              *)

(* A write that OpenSSL could not do is tried again with its size, whatever *)
(* has been added to the buffer or read since; and the socket is polled for *)
(* what a read or a write waits for.                                        *)
RetriesAreTheSame ==
    /\ ~conn.refused
    /\ conn.again > 0 => conn.again =< conn.write_buf_pos
    /\ ~conn.closed => /\ conn.ssl_read_block \cup conn.ssl_write_block \subseteq conn.flags
                       /\ conn.again > 0 => conn.ssl_write_block # {}
=============================================================================
