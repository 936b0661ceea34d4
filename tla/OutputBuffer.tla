------------------------------ MODULE OutputBuffer ------------------------------
(***************************************************************************)
(* The output buffers: DynamicBuffer and DynamicStackBuffer, which grow,   *)
(* and FileBuffer, FileBuffer2 and FileBuffer3, which write to a file when *)
(* they are full.  They are used directly (Buffer.h) or through a          *)
(* BufferWriter, which keeps a position of its own and gives it to the     *)
(* buffer when that is full or flushed.                                    *)
(*                                                                         *)
(* A write copies what fits, has the buffer emptied or made larger, and    *)
(* goes on.  The system may take fewer bytes than it is given, or none:    *)
(* FileBuffer ignores it, FileBuffer2 ignores the one and throws at the    *)
(* other, FileBuffer3 writes until all is written or throws.  A file has   *)
(* the bytes of "out" but the untaken ones; a write that throws may leave  *)
(* a torn part in it.                                                      *)
(***************************************************************************)
EXTENDS Naturals, Sequences

CONSTANTS
  Kinds,       \* a subset of {"dynamic", "stdio", "once", "all"}
  Capacity, Lengths,
  Slack,       \* what ensureCapacityUnsafe() is asked for beyond what follows
  MaxCalls

BufferAssumption ==
  /\ Kinds \subseteq {"dynamic", "stdio", "once", "all"}
  /\ Capacity \in Nat \ {0} /\ Lengths \subseteq Nat /\ Slack \in Nat \ {0}

VARIABLES
  kind, writer,    \* which buffer, and whether a BufferWriter is used
  memory, capacity,
  position,        \* of the buffer
  ownPosition,     \* of the writer
  pending,         \* what the call in progress has still to copy
  step,            \* "idle", "copy", "filled", "flush", "close", "end", "destroy", "gone"
  given, out,      \* the bytes written to the buffer, and those it has got rid of
  untaken,         \* the places in out of bytes that the system did not take
  torn,            \* how many bytes a write had put into the file when it threw
  thrown,          \* a write to the file failed
  calls

vars == <<kind, writer, memory, capacity, position, ownPosition, pending, step, given, out, untaken, torn, thrown, calls>>
use == <<kind, writer>>
faults == <<untaken, torn, thrown>>

Init ==
  /\ kind \in Kinds /\ writer \in BOOLEAN
  /\ memory = <<>> /\ capacity = Capacity /\ position = 0 /\ ownPosition = 0
  /\ pending = <<>> /\ step = "idle" /\ given = <<>> /\ out = <<>>
  /\ untaken = {} /\ torn = 0 /\ thrown = FALSE /\ calls = 0

Position == IF writer THEN ownPosition ELSE position
Held == SubSeq(memory, 1, Position)
Room == capacity - Position
\* The position of the user moves, or that of both.
Move(p) == IF writer THEN ownPosition' = p /\ position' = position
           ELSE position' = p /\ ownPosition' = ownPosition
Synchronize(p) == position' = p /\ ownPosition' = p

\* After a write has thrown, a buffer is only destroyed.
Call == step = "idle" /\ ~thrown /\ calls < MaxCalls /\ calls' = calls + 1
Bytes(n) == [i \in 1 .. n |-> <<calls, i>>]

-----------------------------------------------------------------------------
(* Writing.                                                                *)

\* write(), writeByte() and writeRepeatedChar()
Write(n) ==
  /\ Call /\ pending' = Bytes(n) /\ given' = given \o Bytes(n) /\ step' = "copy"
  /\ UNCHANGED <<use, memory, capacity, position, ownPosition, out, faults>>

\* A buffer is never left full.
\* Wrong: it is, if what is written just fits.
FitsExactly(n) == n <= Room
Fits(n) == n < Room
Copied(n) == IF Fits(n) THEN n ELSE Room

Copy ==
  /\ step = "copy"
  /\ \E n \in {Copied(Len(pending))} :
       /\ memory' = Held \o SubSeq(pending, 1, n) \o SubSeq(memory, Position + n + 1, Len(memory)) /\ Move(Position + n)
       /\ pending' = SubSeq(pending, n + 1, Len(pending))
  /\ step' = IF Fits(Len(pending)) THEN "idle" ELSE "filled"
  /\ UNCHANGED <<use, capacity, given, out, faults, calls>>

\* ensureCapacityUnsafe() and putStringUnsafe(): callers ask for more than they
\* put, and for no more than an empty or a larger buffer has.  A buffer is not to
\* be filled by it, a BufferWriter minds only that it fits.
Short(n) == IF writer THEN Room < n + Slack ELSE Room <= n + Slack
Put(n) ==
  /\ Call /\ n + Slack < Capacity
  /\ pending' = Bytes(n) /\ given' = given \o Bytes(n)
  /\ step' = IF Short(n) THEN "filled" ELSE "copy"
  /\ UNCHANGED <<use, memory, capacity, position, ownPosition, out, faults>>

\* What follows when the buffer has room again, or is flushed.
AfterWrite == CASE step = "filled" -> "copy" [] step = "flush" -> "idle" [] step = "close" -> "end" [] OTHER -> "gone"

\* filled() of a buffer that grows.
Grow ==
  /\ step = "filled" /\ kind = "dynamic"
  /\ Synchronize(Position) /\ capacity' = 2 * capacity /\ step' = "copy"
  /\ UNCHANGED <<use, memory, pending, given, out, faults, calls>>

\* filled(), flush() and close() of a buffer with a file; its destructor writes
\* what the buffer knows of.  The system takes n of these bytes.
Outgoing == IF step \in {"filled", "flush"} THEN Held ELSE SubSeq(memory, 1, position)
\* Wrong: after the write the position stays.
EmptiedKept == Position
Emptied == 0

\* FileBuffer does not look at the result, FileBuffer2 throws only at an error.
Ignored(error) == kind = "stdio" \/ (kind = "once" /\ ~error)

WriteOut(n, error) ==
  /\ kind # "dynamic" /\ step \in {"filled", "flush", "close", "destroy"}
  /\ IF n = Len(Outgoing) \/ Ignored(error)
     THEN /\ out' = out \o Outgoing /\ Synchronize(Emptied) /\ step' = AfterWrite
          /\ untaken' = untaken \union (Len(out) + n + 1 .. Len(out) + Len(Outgoing))
          /\ UNCHANGED <<pending, torn, thrown>>
     ELSE /\ kind = "once" => n = 0
          /\ kind = "all" => error
          /\ IF step = "destroy" THEN step' = "gone" /\ out' = out \o SubSeq(Outgoing, 1, n) /\ torn' = torn
             ELSE step' = "idle" /\ out' = out /\ torn' = n
          /\ pending' = <<>> /\ thrown' = TRUE /\ UNCHANGED <<position, ownPosition, untaken>>
  /\ UNCHANGED <<use, memory, capacity, given, calls>>

-----------------------------------------------------------------------------
(* The other calls.                                                        *)

Flush ==
  /\ Call
  /\ IF kind = "dynamic" THEN Synchronize(Position) /\ step' = "idle"
     ELSE step' = "flush" /\ UNCHANGED <<position, ownPosition>>
  /\ UNCHANGED <<use, memory, capacity, pending, given, out, faults>>

\* clear() forgets what was written since the last flush.
Clear ==
  /\ Call /\ Move(0) /\ given' = out
  /\ UNCHANGED <<use, memory, capacity, pending, step, out, faults>>

\* close() of FileBuffer3 writes what the buffer knows of, that of FileBuffer2
\* only closes the file.  No other call but the destructor's may follow: that a
\* file is opened again is not modelled.
Close ==
  /\ Call /\ kind \in {"once", "all"}
  /\ step' = IF kind = "all" /\ position > 0 THEN "close" ELSE "end"
  /\ UNCHANGED <<use, memory, capacity, position, ownPosition, pending, given, out, faults>>

\* The destructors; takeBytes() of a buffer that grows has what is out.  A
\* FileBuffer2 that was closed before it was flushed writes to a closed file:
\* that throws, in a destructor.
ClosedTooEarly == step = "end" /\ kind = "once" /\ position > 0
Destroy ==
  /\ step \in {"idle", "end"}
  /\ step' = IF step = "idle" /\ kind \in {"once", "all"} /\ position > 0 THEN "destroy" ELSE "gone"
  /\ out' = IF kind = "dynamic" THEN SubSeq(memory, 1, position) ELSE out
  /\ thrown' = (thrown \/ ClosedTooEarly)
  /\ UNCHANGED <<use, memory, capacity, position, ownPosition, pending, given, untaken, torn, calls>>

Next ==
  \/ \E n \in Lengths : Write(n) \/ Put(n)
  \/ Copy \/ Grow \/ Flush \/ Clear \/ Close \/ Destroy
  \/ \E error \in BOOLEAN : \E n \in 0 .. Len(Outgoing) : WriteOut(n, error)

Spec == Init /\ [][Next]_vars

-----------------------------------------------------------------------------
(* Correctness.                                                            *)

\* What the buffer has got rid of, holds and has still to copy is what was
\* written, in order, whatever the system takes; after a write that threw it is
\* the first part of that, and nothing of it is left out (Buffer.h, BufferWriter.h).
Begins(s, t) == Len(s) <= Len(t) /\ SubSeq(t, 1, Len(s)) = s
InOrder ==
  step \in {"idle", "copy", "filled", "flush"} =>
    IF thrown THEN Begins(out \o Held, given) ELSE out \o Held \o pending = given

\* Between calls there is room for one byte at least (Buffer.h, lines 46-47).
RoomLeft == step = "idle" /\ ~thrown => Room > 0

\* When a buffer is gone, it has got rid of all that was written, but for what a
\* BufferWriter was not told to flush, for the last part in a FileBuffer, and for
\* what was to be written when a write threw; if the BufferWriter was cleared and
\* not flushed since, the buffer may have more.  A FileBuffer2 that was closed
\* before it was flushed throws (FileBuffer2.h, FileBuffer3.h, Buffer.cpp).
AllOut ==
  step = "gone" /\ (writer => position <= ownPosition) =>
    /\ Begins(out, given)
    /\ ~thrown => (~writer /\ kind # "stdio" => out = given) /\ Len(given) - Len(out) <= Len(memory)
    /\ kind = "once" /\ position > 0 => thrown

\* Only FileBuffer and FileBuffer2 lose what the system does not take, and never
\* make up for it; only a FileBuffer3 whose write threw puts a part into the file
\* twice, and no other part (Buffer.cpp, lines 37-39; FileBuffer2.h, lines 42-46;
\* FileBuffer3.h, lines 61-70).
OnceOnly ==
  /\ kind # "dynamic" => Begins(out, given)
  /\ untaken # {} => kind \in {"stdio", "once"}
  /\ torn # 0 => kind = "all" /\ thrown

\* What a program that writes to a file expects, and FileBuffer and FileBuffer2 do
\* not give: what they have got rid of is in the file.
AllTaken == untaken = {}

================================================================================
