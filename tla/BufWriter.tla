------------------------------ MODULE BufWriter ------------------------------
(***************************************************************************)
(* TtlBufWriter of src/comm.rs: the buffered writer under every connection *)
(* of the broker and of the asynchronous clients, with its flusher task    *)
(* and the task that works on drop.                                        *)
(*                                                                         *)
(* The writes are numbered; a number in buffer or in sink stands for the   *)
(* data of that write.  The lock is a fair one: lock holds the tasks that  *)
(* have asked for it, the first of them has it.                            *)
(***************************************************************************)
EXTENDS Naturals, Sequences, SequencesExt

CONSTANTS
  MaxWrites,   \* calls of write
  Cap,         \* capacity of the buffer, in writes
  Stalls       \* the peer may be slow or gone: writes and flushes fail or time out

ASSUME BufAssumption == MaxWrites \in Nat /\ Cap \in Nat \ {0} /\ Stalls \in BOOLEAN

VARIABLES
  n,        \* how many times write has been called
  wpc,      \* where write is
  flush,    \* its flush argument
  token,    \* whether the channel of the flusher holds its one token
  lock,     \* TtlBufWriter.writer: the holder of the mutex and those who wait
  fpc,      \* where the flusher is
  dpc,      \* where the task that works on drop is
  buffer,   \* BufWriter: what is buffered
  sink,     \* what has been written to the socket
  due,      \* history: scheduled writes that have returned
  missed    \* history: what was in the buffer when a flush was given up

bufVars == <<n, wpc, flush, token, lock, fpc, dpc, buffer, sink, due, missed>>

-----------------------------------------------------------------------------

Flush == {"No", "Scheduled", "Instant"}
Tasks == {"writer", "flusher", "dropper"}

BufTypeOK ==
  /\ n \in 0..MaxWrites
  /\ wpc \in {"idle", "write", "spill", "written", "flush"}
  /\ flush \in Flush
  /\ token \in BOOLEAN
  /\ lock \in Seq(Tasks)
  /\ fpc \in {"recv", "sleep", "flush", "aborted"}
  /\ dpc \in {"wait", "flush", "done"}
  /\ buffer \in Seq(1..n) /\ Len(buffer) <= Cap /\ sink \in Seq(1..n)
  /\ due \subseteq 1..n /\ missed \subseteq 1..n

BufInit ==
  /\ n = 0 /\ wpc = "idle" /\ flush = "No"
  /\ token = FALSE /\ lock = <<>>
  /\ fpc = "recv" /\ dpc = "wait"
  /\ buffer = <<>> /\ sink = <<>>
  /\ due = {} /\ missed = {}

Dropped == dpc # "wait"
Holds(t) == lock # <<>> /\ Head(lock) = t
Leave(t) == lock' = RemoveFirst(lock, t)

\* BufWriter writes its buffer out from the front; it may be interrupted.
Drain ==
  /\ buffer # <<>>
  /\ sink' = Append(sink, Head(buffer)) /\ buffer' = Tail(buffer)

-----------------------------------------------------------------------------
(* write, called by one owner (&mut self) *)

Write(f) ==
  /\ wpc = "idle" /\ ~Dropped /\ n < MaxWrites
  /\ n' = n + 1 /\ flush' = f
  /\ wpc' = "write" /\ lock' = Append(lock, "writer")
  /\ UNCHANGED <<token, fpc, dpc, buffer, sink, due, missed>>

\* write_all: the data goes into the buffer.  When it does not fit, for its
\* size or because the buffer is full, the buffer is written out first; data
\* larger than the buffer then goes to the socket.
WriteAll ==
  /\ \/ /\ wpc = "write" /\ Holds("writer") /\ Len(buffer) < Cap
        /\ buffer' = Append(buffer, n) /\ UNCHANGED sink
     \/ /\ wpc = "spill" /\ buffer = <<>>
        /\ \/ buffer' = <<n>> /\ UNCHANGED sink
           \/ sink' = Append(sink, n) /\ UNCHANGED buffer
  /\ wpc' = "written"
  /\ UNCHANGED <<n, flush, token, lock, fpc, dpc, due, missed>>
NoRoom ==
  /\ wpc = "write" /\ Holds("writer")
  /\ wpc' = "spill"
  /\ UNCHANGED <<n, flush, token, lock, fpc, dpc, buffer, sink, due, missed>>
Spill ==
  /\ wpc = "spill" /\ Drain
  /\ UNCHANGED <<n, wpc, flush, token, lock, fpc, dpc, due, missed>>

\* mutant: a flush is asked for only when the buffer was empty.
WriteEndFirst ==
  /\ wpc = "written" /\ flush # "Instant"
  /\ token' = (token \/ (flush = "Scheduled" /\ Len(buffer) = 1))
  /\ due' = IF flush = "Scheduled" THEN due \cup {n} ELSE due
  /\ wpc' = "idle" /\ Leave("writer")
  /\ UNCHANGED <<n, flush, fpc, dpc, buffer, sink, missed>>

\* A token is sent only if the channel is empty, so the send never waits.
WriteEnd ==
  /\ wpc = "written" /\ flush # "Instant"
  /\ token' = (token \/ flush = "Scheduled")
  /\ due' = IF flush = "Scheduled" THEN due \cup {n} ELSE due
  /\ wpc' = "idle" /\ Leave("writer")
  /\ UNCHANGED <<n, flush, fpc, dpc, buffer, sink, missed>>

WriteFlush ==
  /\ wpc \in {"written", "flush"} /\ flush = "Instant"
  /\ \/ /\ Drain /\ wpc' = "flush"
        /\ UNCHANGED lock
     \/ /\ buffer = <<>> /\ wpc' = "idle" /\ Leave("writer")
        /\ UNCHANGED <<buffer, sink>>
  /\ UNCHANGED <<n, flush, token, fpc, dpc, due, missed>>

\* The socket fails under write_all or under flush.  After write_all the
\* flush argument is honoured all the same.
WriteError ==
  /\ Stalls /\ wpc \in {"spill", "flush"}
  /\ token' = (token \/ flush = "Scheduled")
  /\ \/ /\ wpc = "spill" /\ flush = "Instant" /\ wpc' = "flush"
        /\ UNCHANGED lock
     \/ /\ wpc = "flush" \/ flush # "Instant"
        /\ wpc' = "idle" /\ Leave("writer")
  /\ UNCHANGED <<n, flush, fpc, dpc, buffer, sink, due, missed>>

\* The caller's timeout drops the future of write, wherever that waits.
WriteCancel ==
  /\ Stalls
  /\ wpc \in {"spill", "flush"} \/ (wpc = "write" /\ ~Holds("writer"))
  /\ wpc' = "idle" /\ Leave("writer")
  /\ UNCHANGED <<n, flush, token, fpc, dpc, buffer, sink, due, missed>>

-----------------------------------------------------------------------------
(* The flusher *)

\* The token is taken before the flush: a write that comes later leaves a new
\* one.
FlusherRecv ==
  /\ fpc = "recv" /\ token
  /\ token' = FALSE /\ fpc' = "sleep"
  /\ UNCHANGED <<n, wpc, flush, lock, dpc, buffer, sink, due, missed>>

\* mutant: the flusher waits for a full buffer.
FlusherLockFull ==
  /\ fpc = "sleep" /\ Len(buffer) = Cap
  /\ fpc' = "flush" /\ lock' = Append(lock, "flusher")
  /\ UNCHANGED <<n, wpc, flush, token, dpc, buffer, sink, due, missed>>

\* The timer has fired.
FlusherLock ==
  /\ fpc = "sleep"
  /\ fpc' = "flush" /\ lock' = Append(lock, "flusher")
  /\ UNCHANGED <<n, wpc, flush, token, dpc, buffer, sink, due, missed>>

FlusherFlush ==
  /\ fpc = "flush" /\ Holds("flusher")
  /\ \/ Drain /\ UNCHANGED <<fpc, lock>>
     \/ /\ buffer = <<>> /\ fpc' = "recv" /\ Leave("flusher")
        /\ UNCHANGED <<buffer, sink>>
  /\ UNCHANGED <<n, wpc, flush, token, dpc, due, missed>>

\* The lock or the flush takes longer than timeout, or the flush fails: the
\* flusher waits for the next token.
FlusherGiveUp ==
  /\ Stalls /\ fpc = "flush"
  /\ fpc' = "recv" /\ Leave("flusher")
  /\ missed' = missed \cup ToSet(buffer)
  /\ UNCHANGED <<n, wpc, flush, token, dpc, buffer, sink, due>>

-----------------------------------------------------------------------------
(* Drop *)

\* The flusher is aborted; the task that works on drop asks for the lock.
Drop ==
  /\ wpc = "idle" /\ ~Dropped
  /\ fpc' = "aborted" /\ dpc' = "flush"
  /\ lock' = Append(RemoveFirst(lock, "flusher"), "dropper")
  /\ UNCHANGED <<n, wpc, flush, token, buffer, sink, due, missed>>

DropFlush ==
  /\ dpc = "flush" /\ Holds("dropper")
  /\ \/ Drain /\ UNCHANGED <<dpc, lock>>
     \/ /\ buffer = <<>> /\ dpc' = "done" /\ Leave("dropper")
        /\ UNCHANGED <<buffer, sink>>
  /\ UNCHANGED <<n, wpc, flush, token, fpc, due, missed>>

DropGiveUp ==
  /\ Stalls /\ dpc = "flush" /\ Holds("dropper")
  /\ dpc' = "done" /\ Leave("dropper")
  /\ missed' = missed \cup ToSet(buffer)
  /\ UNCHANGED <<n, wpc, flush, token, fpc, buffer, sink, due>>

-----------------------------------------------------------------------------

WriteStep == WriteAll \/ NoRoom \/ Spill \/ WriteEnd \/ WriteFlush \/ WriteError \/ WriteCancel
Flusher   == FlusherRecv \/ FlusherLock \/ FlusherFlush \/ FlusherGiveUp
Dropper   == DropFlush \/ DropGiveUp

BufNext ==
  \/ \E f \in Flush : Write(f)
  \/ WriteStep \/ Flusher \/ Drop \/ Dropper

\* A write ends (its caller has a timeout), and the two tasks run.
BufSpec ==
  /\ BufInit /\ [][BufNext]_bufVars
  /\ WF_bufVars(WriteStep) /\ WF_bufVars(Flusher) /\ WF_bufVars(Dropper)

-----------------------------------------------------------------------------
(* Properties *)

\* What a scheduled write has left in the buffer is never forgotten: while
\* it is there, the channel holds a token, or the flusher has taken one and
\* not flushed yet, or the drop task is about to flush, or a flush was given
\* up since (TtlBufWriter::write, the flusher, Drop).
FlushComing ==
  \A c \in due \cap ToSet(buffer) :
    \/ token \/ fpc \in {"sleep", "flush"} \/ dpc = "flush"
    \/ c \in missed

\* A scheduled write reaches the socket, and dropping the writer sends what
\* is left, unless a flush was given up (write, the flusher, Drop).
WritesArrive ==
  /\ \A c \in 1..MaxWrites : c \in due ~> c \in ToSet(sink) \cup missed
  /\ Dropped ~> ToSet(buffer) \subseteq missed
=============================================================================
