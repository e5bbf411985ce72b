-------------------------------- MODULE Log --------------------------------
(***************************************************************************)
(* The log of pcx-log.c: the main thread appends lines to a buffer, and a  *)
(* thread of its own writes them to the file, outside the mutex, from the  *)
(* buffer it swapped for an empty one. What happens under the mutex is one *)
(* step. Lines are numbered in the order in which they are logged.         *)
(***************************************************************************)
EXTENDS Integers, Sequences

CONSTANT MaxLines
ASSUME LinesAssumption == MaxLines \in Nat

VARIABLES
    said,           \* how many lines were logged
    dropped,        \* the last line that was discarded without a thread to write it
    buffer,         \* pcx_log_buffer
    alternate,      \* alternate_buffer of the thread
    file,           \* what reached the file
    failed,         \* some write or flush has failed
    had_error,
    pcx_log_finished,
    thread,         \* where the thread is
    caller          \* where the main thread is

logVars == <<said, dropped, buffer, alternate, file, failed, had_error,
             pcx_log_finished, thread, caller>>

LogInit ==
    /\ said = 0 /\ dropped = 0
    /\ buffer = << >> /\ alternate = << >> /\ file = << >>
    /\ failed = FALSE /\ had_error = FALSE /\ pcx_log_finished = FALSE
    /\ thread = "none" /\ caller = "starting"

Prefix(s, n) == SubSeq(s, 1, n)

(* pthread_cond_signal is lost when the thread is not waiting.              *)
Signal == thread' = IF thread = "waiting" THEN "top" ELSE thread

-----------------------------------------------------------------------------
(* The main thread.                                                         *)

pcx_log ==
    /\ caller \in {"starting", "running"} /\ said < MaxLines
    /\ said' = said + 1 /\ buffer' = Append(buffer, said + 1)
    /\ Signal
    /\ UNCHANGED <<dropped, alternate, file, failed, had_error, pcx_log_finished, caller>>

(* The file is set before there is a thread: to close a log that was never  *)
(* started discards what was logged so far.                                 *)
pcx_log_set_file ==
    /\ caller = "starting"
    /\ buffer' = << >> /\ dropped' = said /\ pcx_log_finished' = FALSE
    /\ UNCHANGED <<said, alternate, file, failed, had_error, thread, caller>>

pcx_log_start ==
    /\ caller = "starting"
    /\ thread' = "top" /\ caller' = "running"
    /\ UNCHANGED <<said, dropped, buffer, alternate, file, failed, had_error,
                   pcx_log_finished>>

(* Faulty: nobody tells the thread.                                         *)
AskToFinishSilently ==
    /\ caller = "running"
    /\ pcx_log_finished' = TRUE /\ caller' = "joining"
    /\ UNCHANGED <<said, dropped, buffer, alternate, file, failed, had_error, thread>>

(* pcx_log_close, until pthread_join.                                       *)
AskToFinish ==
    /\ caller = "running"
    /\ pcx_log_finished' = TRUE /\ Signal /\ caller' = "joining"
    /\ UNCHANGED <<said, dropped, buffer, alternate, file, failed, had_error>>

(* The end of pcx_log_close; main gives up before it has started the log,   *)
(* or the thread is gone.                                                   *)
Close ==
    /\ \/ caller = "starting" /\ dropped' = said
       \/ caller = "joining" /\ thread = "gone" /\ UNCHANGED dropped
    /\ buffer' = << >> /\ thread' = "none" /\ caller' = "closed"
    /\ UNCHANGED <<said, alternate, file, failed, had_error, pcx_log_finished>>

-----------------------------------------------------------------------------
(* The thread, which holds the mutex at "top".                              *)

(* Faulty: what is in the buffer is left there.                             *)
LeavesAtOnce == pcx_log_finished

Leaves == pcx_log_finished /\ buffer = << >>

Leave ==
    /\ thread = "top" /\ Leaves
    /\ thread' = "gone"
    /\ UNCHANGED <<said, dropped, buffer, alternate, file, failed, had_error,
                   pcx_log_finished, caller>>

Wait ==
    /\ thread = "top" /\ ~pcx_log_finished /\ buffer = << >>
    /\ thread' = "waiting"
    /\ UNCHANGED <<said, dropped, buffer, alternate, file, failed, had_error,
                   pcx_log_finished, caller>>

(* A wait may end without a signal.                                         *)
WakeForNothing ==
    /\ thread = "waiting"
    /\ thread' = "top"
    /\ UNCHANGED <<said, dropped, buffer, alternate, file, failed, had_error,
                   pcx_log_finished, caller>>

Ignore ==
    /\ thread = "top" /\ buffer # << >> /\ had_error
    /\ buffer' = << >>
    /\ UNCHANGED <<said, dropped, alternate, file, failed, had_error,
                   pcx_log_finished, thread, caller>>

Swap ==
    /\ thread = "top" /\ buffer # << >> /\ ~had_error
    /\ buffer' = alternate /\ alternate' = buffer
    /\ thread' = "writing"
    /\ UNCHANGED <<said, dropped, file, failed, had_error, pcx_log_finished, caller>>

(* fwrite may write less, which is remembered; that fflush fails is not.    *)
Write ==
    /\ thread = "writing"
    /\ \/ file' = file \o alternate /\ UNCHANGED <<failed, had_error>>
       \/ /\ \E n \in 0 .. Len(alternate) - 1 : file' = file \o Prefix(alternate, n)
          /\ failed' = TRUE /\ had_error' \in {had_error, TRUE}
    /\ alternate' = << >> /\ thread' = "top"
    /\ UNCHANGED <<said, dropped, buffer, pcx_log_finished, caller>>

Thread == Leave \/ Wait \/ WakeForNothing \/ Ignore \/ Swap \/ Write

LogNext == \/ pcx_log \/ pcx_log_set_file \/ pcx_log_start \/ AskToFinish \/ Close
           \/ Thread

LogSpec == LogInit /\ [][LogNext]_logVars

(* The thread gets the processor and its writes return; main takes the end  *)
(* of the join.                                                             *)
LogFairness ==
    /\ WF_logVars(Leave \/ Wait \/ Ignore \/ Swap \/ Write)
    /\ WF_logVars(caller = "joining" /\ Close)

-----------------------------------------------------------------------------
(* Properties.                                                              *)

(* Every variable holds values of the type the code declares for it.        *)
LogTypeOK ==
    /\ said \in Nat /\ dropped \in Nat
    /\ buffer \in Seq(Nat) /\ alternate \in Seq(Nat) /\ file \in Seq(Nat)
    /\ failed \in BOOLEAN /\ had_error \in BOOLEAN /\ pcx_log_finished \in BOOLEAN
    /\ thread \in {"none", "top", "waiting", "writing", "gone"}
    /\ caller \in {"starting", "running", "joining", "closed"}

(* The lines of a log file are in the order in which they were logged,      *)
(* each at most once, also when writes fail half-way.                       *)
Ascending(s) == \A i, j \in 1 .. Len(s) : i < j => s[i] < s[j]

(* Until a write fails, the file and the two buffers hold between them all  *)
(* lines since the file was set, in their order and without a gap; when the *)
(* log is closed they are all in the file.                                  *)
LogWhole ==
    /\ Ascending(file)
    /\ ~failed => /\ Len(file \o alternate \o buffer) = said - dropped
                  /\ \A i \in 1 .. said - dropped :
                        (file \o alternate \o buffer)[i] = dropped + i
    /\ caller = "closed" /\ ~failed => Len(file) = said - dropped

(* To close the log ends, whatever was logged before and during it.         *)
LogCloses == []<>(caller # "joining")
=============================================================================
