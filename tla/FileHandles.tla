------------------------------ MODULE FileHandles ------------------------------
(***************************************************************************)
(* FileHandle on POSIX systems and on Windows (FileHandle_posix.inl,       *)
(* FileHandle_win.inl): two processes use one file name.  A handle is      *)
(* opened in a mode, reads, writes, locks parts of the file, sets its size *)
(* and is closed.  The calls that end in All repeat a system call until    *)
(* all bytes are transferred: a repetition is a step, and the other        *)
(* process can take steps in between.                                      *)
(*                                                                         *)
(* A byte is 0, or 10 p + i for byte i of the data that p writes.          *)
(***************************************************************************)
EXTENDS Naturals, Sequences, FiniteSets

CONSTANTS
  Procs,       \* positive integers
  Slots,       \* a process's FileHandle objects
  MaxSize,     \* of a file
  Platforms,   \* a subset of {"posix", "windows"}
  Menus,       \* what the calls are made with: [slots, calls, modes,
               \* transfers, regions, sizes, removes]
  Closed, Idle

Modes == [read : BOOLEAN, write : BOOLEAN, create : BOOLEAN, new : BOOLEAN, trunc : BOOLEAN]
Transfers == [op : {"read", "write"}, all : BOOLEAN, at : BOOLEAN, ofs : Nat, len : Nat]
Opened == [file : Nat, read : BOOLEAN, write : BOOLEAN, pos : Nat]
FilesAssumption ==
  /\ Platforms \subseteq {"posix", "windows"} /\ Procs \subseteq 1 .. 9 /\ Closed \notin Opened
  /\ \A m \in Menus : /\ \A p \in Procs : m.slots[p] \subseteq Slots
                      /\ m.modes \subseteq Modes /\ m.transfers \subseteq Transfers
                      /\ m.regions \subseteq SUBSET Nat /\ m.sizes \subseteq Nat

VARIABLES
  platform, menu,
  name,       \* the file that the name refers to, or 0
  disk,       \* the content of each file
  handles,    \* by process and slot: [file, read, write, pos], or Closed
  locks,      \* those in force: [proc, slot, file, bytes, shared]
  believed,   \* those obtained and neither unlocked nor closed
  call,       \* by process: the transfer in progress, or Idle
  result,     \* by process: what its last transfer was and returned
  shared,     \* <<p, f>>: p has had two handles of f at once
  calls

vars == <<platform, menu, name, disk, handles, locks, believed, call, result, shared, calls>>

Init ==
  /\ platform \in Platforms /\ menu \in Menus /\ name \in {0, 1} /\ disk = [f \in {name} \ {0} |-> <<0>>]
  /\ handles = [p \in Procs |-> [s \in Slots |-> Closed]]
  /\ locks = {} /\ believed = {} /\ shared = {}
  /\ call = [p \in Procs |-> Idle] /\ result = [p \in Procs |-> Idle]
  /\ calls = [p \in Procs |-> 0]

IsOpen(p, s) == handles[p][s] # Closed
Calls(p) == call[p] = Idle /\ calls[p] < menu.calls[p] /\ calls' = [calls EXCEPT ![p] = @ + 1]

-----------------------------------------------------------------------------
(* Opening and closing.                                                    *)

\* What OPEN_MODES has for the three flags: whether the file is created if
\* there is none, whether there must be none, and whether it is emptied.
\* Wrong: TRUNCATE takes the place of NEW.
DispositionSwapped(m) ==
  CASE m.trunc -> [creates |-> TRUE, new |-> TRUE, empties |-> FALSE]
    [] m.new -> [creates |-> m.create, new |-> FALSE, empties |-> TRUE]
    [] OTHER -> [creates |-> m.create, new |-> FALSE, empties |-> FALSE]
Disposition(m) ==
  IF m.new THEN [creates |-> TRUE, new |-> TRUE, empties |-> FALSE]
  ELSE [creates |-> m.create, new |-> FALSE, empties |-> m.trunc]

\* Windows empties a file only through a handle that may write, unless the
\* disposition is CREATE_ALWAYS.
Refused(m, d) == \/ name = 0 /\ ~d.creates
                 \/ name # 0 /\ d.new
                 \/ platform = "windows" /\ d.empties /\ ~d.creates /\ ~m.write

\* An access mode of none means reading.
Handle(f, m) == [file |-> f, read |-> m.read \/ ~m.write, write |-> m.write, pos |-> 0]

\* What the transfers in progress see when the content of files changes.
Watched(d, cs) ==
  [p \in Procs |-> IF cs[p] = Idle THEN Idle ELSE
     [cs[p] EXCEPT !.seen = [i \in DOMAIN @ |->
        @[i] \union {d[cs[p].file][j] : j \in {cs[p].ofs + i} \intersect DOMAIN d[cs[p].file]}]]]

Open(p, s, m) ==
  /\ Calls(p) /\ ~IsOpen(p, s)
  /\ \E d \in {Disposition(m)} :
       IF Refused(m, d)
       THEN UNCHANGED <<name, disk, handles, call, shared>> /\ result' = [result EXCEPT ![p] = Idle]
       ELSE \E f \in {IF name = 0 THEN Cardinality(DOMAIN disk) + 1 ELSE name} :
              /\ name' = f
              /\ disk' = [g \in DOMAIN disk \union {f} |-> IF g = f /\ (name = 0 \/ d.empties) THEN <<>> ELSE disk[g]]
              /\ handles' = [handles EXCEPT ![p][s] = Handle(f, m)]
              /\ call' = Watched(disk', call)
              /\ shared' = shared \union
                   {<<p, f>> : t \in {t \in Slots : IsOpen(p, t) /\ handles[p][t].file = f}}
              /\ result' = [result EXCEPT ![p] =
                   [op |-> "open", mode |-> m, existed |-> name # 0,
                    kept |-> name # 0 /\ disk'[f] = disk[f], empty |-> disk'[f] = <<>>]]
  /\ UNCHANGED <<platform, menu, locks, believed>>

\* POSIX gives up every lock that the process has on the file, Windows those
\* obtained through this handle.
Close(p, s) ==
  /\ Calls(p) /\ IsOpen(p, s)
  /\ handles' = [handles EXCEPT ![p][s] = Closed]
  /\ locks' = {l \in locks : l.proc # p \/ (IF platform = "posix" THEN l.file # handles[p][s].file ELSE l.slot # s)}
  /\ believed' = {l \in believed : l.proc # p \/ l.slot # s}
  /\ UNCHANGED <<platform, menu, name, disk, call, result, shared>>

\* Another program removes the file (File::remove): handles keep it.
RemoveName ==
  /\ name # 0 /\ name' = 0 /\ Cardinality(DOMAIN disk) < 2
  /\ UNCHANGED <<platform, menu, disk, handles, locks, believed, call, result, shared, calls>>

Farther(n, m) == IF n < m THEN m ELSE n
Resized(content, n) == [i \in 1 .. n |-> IF i \in DOMAIN content THEN content[i] ELSE 0]

\* setSize and truncate.
SetSize(p, s, n) ==
  /\ Calls(p) /\ IsOpen(p, s) /\ handles[p][s].write
  /\ disk' = [disk EXCEPT ![handles[p][s].file] = Resized(@, n)]
  /\ call' = Watched(disk', call)
  /\ UNCHANGED <<platform, menu, name, handles, locks, believed, result, shared>>

-----------------------------------------------------------------------------
(* Locks.                                                                  *)

Overlap(a, b) == a.file = b.file /\ a.bytes \intersect b.bytes # {} /\ ~(a.shared /\ b.shared)
Lock(p, s, bytes, sh) == [proc |-> p, slot |-> s, file |-> handles[p][s].file, bytes |-> bytes, shared |-> sh]

\* The locks without these bytes, where they are among mine.
Without(ls, mine, bytes) ==
  (ls \ mine) \union {[l EXCEPT !.bytes = @ \ bytes] : l \in {l \in mine : ~(l.bytes \subseteq bytes)}}

\* A process's own locks on the same bytes are replaced (POSIX).
OthersLocks(p, s, bytes) == Without(locks, {l \in locks : l.proc = p /\ l.file = handles[p][s].file}, bytes)
OthersBeliefs(p, s, bytes) == Without(believed, {l \in believed : l.proc = p /\ l.slot = s}, bytes)

\* fcntl wants a handle that may write for an exclusive lock, and one that may
\* read for a shared lock.
\* Wrong: the two types of locks are taken for each other.
LockTypeSwapped(l) == [l EXCEPT !.shared = ~@]
LockType(l) == l

TryLock(p, s, bytes, sh) ==
  /\ Calls(p) /\ IsOpen(p, s)
  /\ \E l \in {LockType(Lock(p, s, bytes, sh))} :
       /\ IF platform = "posix"
          THEN /\ IF l.shared THEN handles[p][s].read ELSE handles[p][s].write
               /\ ~ \E o \in locks : o.proc # p /\ Overlap(o, l)
               /\ locks' = OthersLocks(p, s, bytes) \union {l}
          ELSE /\ ~ \E o \in locks : Overlap(o, l)
               /\ locks' = locks \union {l}
  /\ believed' = (IF platform = "posix" THEN OthersBeliefs(p, s, bytes) ELSE believed) \union {Lock(p, s, bytes, sh)}
  /\ UNCHANGED <<platform, menu, name, disk, handles, call, result, shared>>

\* Windows unlocks only a region that was locked as a whole.
TryUnlock(p, s, bytes) ==
  /\ Calls(p) /\ IsOpen(p, s)
  /\ IF platform = "posix"
     THEN locks' = OthersLocks(p, s, bytes) /\ believed' = OthersBeliefs(p, s, bytes)
     ELSE \E l \in locks : /\ l.proc = p /\ l.slot = s /\ l.bytes = bytes
                            /\ locks' = locks \ {l} /\ believed' = believed \ {l}
  /\ UNCHANGED <<platform, menu, name, disk, handles, call, result, shared>>

-----------------------------------------------------------------------------
(* Transfers: read, readAll, write, writeAll, and the same at an offset.   *)

\* t is [op, all, at, ofs, len]; seek is a transfer's first step.  A transfer of
\* no bytes does nothing.
BeginTransfer(p, s, t) ==
  /\ Calls(p) /\ IsOpen(p, s) /\ t.len > 0
  /\ IF t.op = "read" THEN handles[p][s].read ELSE handles[p][s].write
  /\ \E f \in {handles[p][s].file}, ofs \in {IF t.at THEN t.ofs ELSE handles[p][s].pos} :
       /\ t.op = "write" => ofs + t.len <= MaxSize
       /\ call' = Watched(disk, [call EXCEPT ![p] =
            [op |-> t.op, all |-> t.all, at |-> t.at, slot |-> s, file |-> f, ofs |-> ofs,
             len |-> t.len, total |-> 0, buf |-> <<>>, seen |-> [i \in 1 .. t.len |-> {}]]])
  /\ UNCHANGED <<platform, menu, name, disk, handles, locks, believed, result, shared>>

\* Wrong: a repetition starts at the offset of the call.
PlaceOfFirst(c) == c.ofs
Place(c) == c.ofs + c.total

Finish(p, c, ok, why) ==
  /\ call' = [Watched(disk', call) EXCEPT ![p] = Idle]
  /\ result' = [result EXCEPT ![p] = [op |-> c.op, all |-> c.all, len |-> c.len, total |-> c.total,
                                     buf |-> c.buf, seen |-> c.seen, ok |-> ok, why |-> why]]
Continue(p, c) == call' = Watched(disk', [call EXCEPT ![p] = c]) /\ result' = result

\* A system call has moved n bytes.
Moved(p, n, c) ==
  /\ handles' = IF c.at THEN handles ELSE [handles EXCEPT ![p][c.slot].pos = @ + n]
  /\ IF ~c.all \/ c.total = c.len THEN Finish(p, c, TRUE, "moved") ELSE Continue(p, c)

Rest(c) == c.len - c.total
ReadSome(p) ==
  /\ call[p] # Idle /\ call[p].op = "read"
  /\ \E c \in {call[p]} : \E n \in 1 .. Rest(c) :
       /\ Place(c) + n <= Len(disk[c.file])
       /\ disk' = disk
       /\ Moved(p, n, [c EXCEPT !.total = @ + n, !.buf = @ \o SubSeq(disk[c.file], Place(c) + 1, Place(c) + n)])
  /\ UNCHANGED <<platform, menu, name, locks, believed, shared, calls>>

\* The end of the file: an error only for the calls that want all bytes.
ReadNothing(p) ==
  /\ call[p] # Idle /\ call[p].op = "read" /\ Place(call[p]) >= Len(disk[call[p].file])
  /\ disk' = disk /\ Finish(p, call[p], ~call[p].all, "end")
  /\ UNCHANGED <<platform, menu, name, handles, locks, believed, shared, calls>>

Data(p, i) == 10 * p + i
WriteSome(p) ==
  /\ call[p] # Idle /\ call[p].op = "write"
  /\ \E c \in {call[p]} : \E n \in 1 .. Rest(c) :
       /\ disk' = [disk EXCEPT ![c.file] = [i \in DOMAIN Resized(@, Farther(Len(@), Place(c) + n)) |->
                     IF i \in Place(c) + 1 .. Place(c) + n THEN Data(p, c.total + i - Place(c))
                     ELSE Resized(@, Farther(Len(@), Place(c) + n))[i]]]
       \* what is seen once all is written includes the bytes just written
       /\ \E w \in {Watched(disk', call)[p]} :
            Moved(p, n, [c EXCEPT !.total = @ + n, !.seen = w.seen])
  /\ UNCHANGED <<platform, menu, name, locks, believed, shared, calls>>

\* An error, a full disk, or on POSIX a signal before the first byte: the calls
\* for all bytes repeat the last of these, so that it changes nothing.
Fail(p) ==
  /\ call[p] # Idle /\ disk' = disk /\ Finish(p, call[p], FALSE, "error")
  /\ UNCHANGED <<platform, menu, name, handles, locks, believed, shared, calls>>

Next ==
  \/ \E p \in Procs : \E s \in menu.slots[p] :
       \/ \E m \in menu.modes : Open(p, s, m)
       \/ Close(p, s)
       \/ \E n \in menu.sizes : SetSize(p, s, n)
       \/ \E r \in menu.regions, sh \in BOOLEAN : TryLock(p, s, r, sh)
       \/ \E r \in menu.regions : TryUnlock(p, s, r)
       \/ \E t \in menu.transfers : BeginTransfer(p, s, t)
  \/ \E p \in Procs : ReadSome(p) \/ ReadNothing(p) \/ WriteSome(p) \/ Fail(p)
  \/ menu.removes /\ RemoveName

Spec == Init /\ [][Next]_vars

-----------------------------------------------------------------------------
(* Correctness.                                                            *)

\* A transfer of all bytes succeeds only if each of them was moved, to or from
\* its own place, whatever part each system call took and whatever the other
\* process did meanwhile (FileHandle.h, lines 37-40); and it fails only for an
\* error or the end of the file.
TransferExact ==
  \A p \in Procs : (result[p] # Idle /\ result[p].op # "open") =>
    LET r == result[p]
    IN  /\ r.ok /\ r.all => r.total = r.len
        /\ r.op = "read" => Len(r.buf) = r.total /\ \A i \in 1 .. r.total : r.buf[i] \in r.seen[i]
        /\ r.op = "write" /\ r.ok => \A i \in 1 .. r.total : Data(p, i) \in r.seen[i]
        /\ ~r.ok => r.why = "error" \/ r.total < r.len

\* The flags mean the same on both systems: NEW never opens a file that exists,
\* TRUNCATE leaves nothing, and without the two nothing is lost (FileHandle.h).
OpenedAsAsked ==
  \A p \in Procs : (result[p] # Idle /\ result[p].op = "open") =>
    LET r == result[p]
    IN  /\ r.mode.new => ~r.existed
        /\ r.mode.trunc \/ r.mode.new => r.empty
        /\ r.existed /\ ~r.mode.trunc => r.kept
        /\ ~r.existed => r.mode.create \/ r.mode.new

\* Two processes believe that they have locks that exclude each other only on
\* POSIX, and only if one of them has had two handles of the file, the closing
\* or locking of one of which takes away what the other holds (FileHandle.h).
LocksExclude ==
  \A a, b \in believed : a.proc # b.proc /\ Overlap(a, b) =>
     platform = "posix" /\ {<<a.proc, a.file>>, <<b.proc, b.file>>} \intersect shared # {}
================================================================================
