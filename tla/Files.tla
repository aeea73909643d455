------------------------------- MODULE Files --------------------------------
(***************************************************************************)
(* Files of the runtime (vibeio/fs/file.rs, open_options.rs,               *)
(* blocking/mod.rs).  A file is opened from its options; positional        *)
(* operations go to the ring, to a pool thread working on a duplicate of   *)
(* the descriptor, or run inline, and the exact forms repeat short         *)
(* transfers.  A future may be dropped while its pool job is still to run, *)
(* and the file after it; descriptor numbers are reused by other files.    *)
(***************************************************************************)
EXTENDS Integers, Sequences, FiniteSets, FiniteSetsExt

CONSTANTS Jobs,        \* futures of positional operations
          FileFds,     \* descriptor numbers, FileFd the file's own
          FileFd,
          OffsetMax,   \* stands for u64::MAX
          Offsets, Lengths,  \* of the positional operations
          SizeMax,     \* bytes a file may start with
          Interrupts   \* EINTR results a behaviour has

ASSUME FileIoAssumption ==
  FileFd \in FileFds /\ OffsetMax \in Nat /\ Offsets \subseteq 0..OffsetMax /\ Lengths \subseteq Nat /\ SizeMax \in Nat /\ Interrupts \in Nat

VARIABLES route,      \* how this file's operations run
          opened,     \* what open returned, with its options
          size, cursor, acked,
          fdTable,    \* descriptor -> "A" (the file), "B" (another) or "closed"
          future,     \* job -> its future
          work,       \* job -> its operation in the ring or the pool
          moved,      \* job -> bytes moved: <<index in the buffer, position, file>>
          interrupts

fileVars == <<route, opened, size, cursor, acked, fdTable, future, work, moved, interrupts>>

Options == [read : BOOLEAN, write : BOOLEAN, append : BOOLEAN, truncate : BOOLEAN,
            create : BOOLEAN, create_new : BOOLEAN]
NoFuture == [pc |-> "idle", kind |-> "read", start |-> 0, len |-> 0, off |-> 0, at |-> 0, exact |-> FALSE]
NoWork == [st |-> "none", fd |-> FileFd, res |-> 0]

FileIoInit ==
  /\ route \in {"completion", "pool", "inline"}
  /\ opened = [out |-> "none", size |-> 0] /\ size \in 0..SizeMax
  /\ cursor = 0 /\ acked = 0
  /\ fdTable = [f \in FileFds |-> "closed"]
  /\ future = [j \in Jobs |-> NoFuture] /\ work = [j \in Jobs |-> NoWork]
  /\ moved = [j \in Jobs |-> {}] /\ interrupts = 0

-----------------------------------------------------------------------------
(* Opening. *)

validate(o) ==
  LET writing == o.write \/ o.append IN
  /\ o.read \/ writing
  /\ (o.truncate \/ o.create \/ o.create_new) => writing
  /\ ~(o.append /\ o.truncate /\ ~o.create_new)

\* The O_ flags of the ring's open operation.
build_open_op(o) ==
  [append |-> o.append, trunc |-> o.truncate, creat |-> o.create_new \/ o.create, excl |-> o.create_new]

\* What open(2) does with them on a file of s bytes, or on none.
KernelOpen(flags, exists, s) ==
  IF exists /\ flags.creat /\ flags.excl THEN [out |-> "exists", size |-> s]
  ELSE IF ~exists /\ ~flags.creat THEN [out |-> "not found", size |-> 0]
  ELSE [out |-> "ok", size |-> IF exists /\ ~flags.trunc THEN s ELSE 0]

\* What std::fs::OpenOptions documents.
StdOpen(o, exists, s) ==
  IF o.create_new /\ exists THEN [out |-> "exists", size |-> s]
  ELSE IF ~exists /\ ~(o.create \/ o.create_new) THEN [out |-> "not found", size |-> 0]
  ELSE [out |-> "ok", size |-> IF exists /\ ~o.truncate THEN s ELSE 0]

\* OpenOptions::open; an append file starts with its cursor at the end.  A file that the
\* ring opened and the driver does not register is served as a blocking one.
open(o, exists) ==
  LET res == IF ~validate(o) THEN [out |-> "invalid", size |-> size]
             ELSE IF route = "completion" THEN KernelOpen(build_open_op(o), exists, size)
             ELSE StdOpen(o, exists, size)
  IN  /\ opened.out = "none"
      /\ opened' = [out |-> res.out, size |-> res.size, o |-> o, exists |-> exists, before |-> size]
      /\ IF res.out = "ok"
         THEN /\ size' = res.size /\ cursor' = IF o.append THEN res.size ELSE 0
              /\ fdTable' = [fdTable EXCEPT ![FileFd] = "A"]
              /\ route' \in {route} \cup (IF route = "completion" THEN {"pool", "inline"} ELSE {})
         ELSE UNCHANGED <<route, size, cursor, fdTable>>
      /\ UNCHANGED <<acked, future, work, moved, interrupts>>

\* The pool refuses the job and nothing was opened, or the length that an append needs
\* cannot be had and the file is closed again.
open_fails(o, exists) ==
  /\ opened.out = "none" /\ validate(o)
  /\ \/ route = "pool" /\ UNCHANGED size
     \/ LET res == StdOpen(o, exists, size) IN o.append /\ res.out = "ok" /\ size' = res.size
  /\ opened' = [out |-> "failed", size |-> size', o |-> o, exists |-> exists, before |-> size]
  /\ UNCHANGED <<route, cursor, fdTable, acked, future, work, moved, interrupts>>

\* The operations that follow are those of a file open for both directions.
ReadWrite == [read |-> TRUE, write |-> TRUE, append |-> FALSE, truncate |-> FALSE, create |-> TRUE,
              create_new |-> FALSE]
Usable == opened.out = "ok" /\ opened.o = ReadWrite

-----------------------------------------------------------------------------
(* Futures. *)

Active(j) == future[j].pc \in {"go", "wait"}
IsOpen == fdTable[FileFd] = "A"

read_exact_at(j, kind, off, len) ==
  /\ Usable /\ IsOpen /\ future[j].pc = "idle" /\ work[j].st = "none"
  /\ \A k \in Jobs : Active(k) => future[k].exact
  /\ future' = [future EXCEPT ![j] = [pc |-> "go", kind |-> kind, start |-> off, len |-> len,
                                      off |-> off, at |-> 0, exact |-> TRUE]]
  /\ UNCHANGED <<route, opened, size, cursor, acked, fdTable, work, moved, interrupts>>

\* AsyncRead::read, AsyncWrite::write: at the cursor, alone (&mut self).
read_write(j, kind, len) ==
  /\ Usable /\ IsOpen /\ future[j].pc = "idle" /\ work[j].st = "none" /\ \A k \in Jobs : ~Active(k)
  /\ future' = [future EXCEPT ![j] = [pc |-> "go", kind |-> kind, start |-> cursor, len |-> len,
                                      off |-> cursor, at |-> 0, exact |-> FALSE]]
  /\ UNCHANGED <<route, opened, size, cursor, acked, fdTable, work, moved, interrupts>>

Remaining(j) == future[j].len - future[j].at

\* What a syscall may return: a count, or a negative errno.
EIO == -1
EINTR == -2
Results(j) ==
  LET f == future[j]
      room == IF f.kind = "read" THEN (IF size > f.off THEN size - f.off ELSE 0)
              ELSE OffsetMax - f.off + 1
  IN  (IF room = 0 THEN {0} ELSE {}) \cup (1..Min({Remaining(j), room}))
        \cup {EIO} \cup (IF interrupts < Interrupts THEN {EINTR} ELSE {})
Count(r) == IF r \in {EIO, EINTR} THEN 0 ELSE r

\* The syscall of j moves c bytes between its buffer and the named file.
Syscall(j, r, file) ==
  LET f == future[j] IN
  /\ moved' = [moved EXCEPT ![j] = @ \cup {<<f.at + i, f.off + i, file>> : i \in 0..(Count(r) - 1)}]
  /\ size' = IF f.kind = "write" /\ file = "A" THEN Max({size, f.off + Count(r)}) ELSE size
  /\ interrupts' = IF r = EINTR THEN interrupts + 1 ELSE interrupts

\* Mutant: the buffer advances over a short transfer and the offset does not.
ExactStep_OffsetKept(f, r) ==
  IF r = EINTR THEN [f EXCEPT !.pc = "go"]
  ELSE IF r = EIO THEN [f EXCEPT !.pc = "error"]
  ELSE IF r = 0 THEN [f EXCEPT !.pc = "eof"]
  ELSE IF f.at + r = f.len THEN [f EXCEPT !.at = @ + r, !.pc = "ok"]
  ELSE [f EXCEPT !.at = @ + r, !.pc = "go"]

\* exact_at after one transfer: the buffer cursor and the offset move together,
\* the offset only while another transfer is needed.
ExactStep(f, r) ==
  IF r = EINTR THEN [f EXCEPT !.pc = "go"]
  ELSE IF r = EIO THEN [f EXCEPT !.pc = "error"]
  ELSE IF r = 0 THEN [f EXCEPT !.pc = "eof"]
  ELSE IF r > f.len - f.at THEN [f EXCEPT !.pc = "invalid"]
  ELSE IF f.at + r = f.len THEN [f EXCEPT !.at = @ + r, !.pc = "ok"]
  ELSE IF f.off + r > OffsetMax THEN [f EXCEPT !.at = @ + r, !.pc = "overflow"]
  ELSE [f EXCEPT !.at = @ + r, !.off = @ + r, !.pc = "go"]

\* A single transfer ends the cursor forms, which advance the cursor by it.
After(j, r) ==
  IF future[j].exact
  THEN future' = [future EXCEPT ![j] = ExactStep(@, r)] /\ UNCHANGED <<cursor, acked>>
  ELSE /\ future' = [future EXCEPT ![j].pc = IF r \in {EIO, EINTR} THEN "error" ELSE "ok"]
       /\ cursor' = Min({cursor + Count(r), OffsetMax}) /\ acked' = acked + Count(r)

\* An empty buffer makes no call.
attempt_empty(j) ==
  /\ future[j].pc = "go" /\ Remaining(j) = 0
  /\ future' = [future EXCEPT ![j].pc = "ok"]
  /\ UNCHANGED <<route, opened, size, cursor, acked, fdTable, work, moved, interrupts>>

attempt_inline(j) ==
  /\ route = "inline" /\ future[j].pc = "go" /\ Remaining(j) > 0
  /\ \E r \in Results(j) : Syscall(j, r, fdTable[FileFd]) /\ After(j, r)
  /\ UNCHANGED <<route, opened, fdTable, work>>

\* The ring takes its own reference to the file.
attempt_completion(j) ==
  /\ route = "completion" /\ future[j].pc = "go" /\ Remaining(j) > 0
  /\ future' = [future EXCEPT ![j].pc = "wait"]
  /\ work' = [work EXCEPT ![j] = [NoWork EXCEPT !.st = "ring"]]
  /\ UNCHANGED <<route, opened, size, cursor, acked, fdTable, moved, interrupts>>

\* The pool job owns a duplicate of the descriptor, or there is none to have.
attempt_pool(j) ==
  /\ route = "pool" /\ future[j].pc = "go" /\ Remaining(j) > 0
  /\ \/ \E f \in FileFds \ {FileFd} :
          /\ fdTable[f] = "closed" /\ fdTable' = [fdTable EXCEPT ![f] = fdTable[FileFd]]
          /\ work' = [work EXCEPT ![j] = [st |-> "queued", fd |-> f, res |-> 0]]
          /\ future' = [future EXCEPT ![j].pc = "wait"]
     \/ future' = [future EXCEPT ![j].pc = "error"] /\ UNCHANGED <<fdTable, work>>
  /\ UNCHANGED <<route, opened, size, cursor, acked, moved, interrupts>>

ring_completes(j) ==
  /\ work[j].st = "ring"
  /\ \E r \in Results(j) :
       /\ Syscall(j, r, "A")
       /\ work' = [work EXCEPT ![j] = IF Active(j) THEN [@ EXCEPT !.st = "done", !.res = r] ELSE NoWork]
  /\ UNCHANGED <<route, opened, cursor, acked, fdTable, future>>

pool_runs(j) ==
  /\ work[j].st = "queued"
  /\ \E r \in Results(j) :
       /\ Syscall(j, r, fdTable[work[j].fd])
       /\ work' = [work EXCEPT ![j] = IF Active(j) THEN [@ EXCEPT !.st = "done", !.res = r] ELSE NoWork]
  /\ fdTable' = [fdTable EXCEPT ![work[j].fd] = "closed"]
  /\ UNCHANGED <<route, opened, cursor, acked, future>>

\* The pool drops a job unrun: the buffer comes back with an error.
pool_refuses(j) ==
  /\ work[j].st = "queued"
  /\ fdTable' = [fdTable EXCEPT ![work[j].fd] = "closed"] /\ work' = [work EXCEPT ![j] = NoWork]
  /\ future' = IF Active(j) THEN [future EXCEPT ![j].pc = "error"] ELSE future
  /\ UNCHANGED <<route, opened, size, cursor, acked, moved, interrupts>>

poll_result(j) ==
  /\ work[j].st = "done" /\ future[j].pc = "wait" /\ After(j, work[j].res)
  /\ work' = [work EXCEPT ![j] = NoWork]
  /\ UNCHANGED <<route, opened, size, fdTable, moved, interrupts>>

\* Dropping a future asks the ring to cancel and leaves a pool job to run.
drop_job(j) ==
  /\ Active(j) /\ future' = [future EXCEPT ![j].pc = "dropped"]
  /\ work' = [work EXCEPT ![j] = IF work[j].st = "queued" THEN @ ELSE NoWork]
  /\ UNCHANGED <<route, opened, size, cursor, acked, fdTable, moved, interrupts>>
drop_ring_job(j) ==
  /\ Active(j) /\ work[j].st = "ring" /\ future' = [future EXCEPT ![j].pc = "dropped"]
  /\ UNCHANGED <<route, opened, size, cursor, acked, fdTable, work, moved, interrupts>>

\* File::drop, into_std: no future borrows the file any more.  A dropped operation that
\* is still in the ring keeps the file it was submitted with.
drop_file ==
  /\ IsOpen /\ \A j \in Jobs : ~Active(j)
  /\ fdTable' = [fdTable EXCEPT ![FileFd] = "closed"]
  /\ UNCHANGED <<route, opened, size, cursor, acked, future, work, moved, interrupts>>

\* Another part of the program opens a file of its own.
open_other ==
  /\ opened.out # "none" /\ \A f \in FileFds : fdTable[f] # "B"
  /\ \E f \in FileFds : fdTable[f] = "closed" /\ fdTable' = [fdTable EXCEPT ![f] = "B"]
  /\ UNCHANGED <<route, opened, size, cursor, acked, future, work, moved, interrupts>>

FileIoNext ==
  \/ \E o \in Options, exists \in BOOLEAN : open(o, exists) \/ open_fails(o, exists)
  \/ \E j \in Jobs :
       \/ \E kind \in {"read", "write"}, len \in Lengths :
            read_write(j, kind, len) \/ \E off \in Offsets : read_exact_at(j, kind, off, len)
       \/ attempt_empty(j) \/ attempt_inline(j) \/ attempt_completion(j) \/ attempt_pool(j)
       \/ ring_completes(j) \/ pool_runs(j) \/ pool_refuses(j) \/ poll_result(j)
       \/ drop_job(j) \/ drop_ring_job(j)
  \/ drop_file \/ open_other

FileIoSpec == FileIoInit /\ [][FileIoNext]_fileVars

-----------------------------------------------------------------------------
FileIoTypeOK ==
  /\ route \in {"completion", "pool", "inline"} /\ size \in 0..Max({SizeMax, OffsetMax + 1})
  /\ cursor \in 0..OffsetMax /\ acked \in Nat /\ interrupts \in 0..Interrupts
  /\ fdTable \in [FileFds -> {"A", "B", "closed"}]
  /\ \A j \in Jobs :
       /\ future[j].off \in 0..OffsetMax /\ future[j].at \in 0..future[j].len
       /\ work[j].st \in {"none", "ring", "queued", "done"}

\* Every byte a job moves, however its transfers were split, interrupted,
\* offloaded or abandoned, goes between index i of its buffer and position
\* start + i of the file it was started on, never another file's.
MovesWhereAsked ==
  \A j \in Jobs : \A x \in moved[j] :
    x[1] < future[j].len /\ x[2] = future[j].start + x[1] /\ x[3] = "A"

\* An exact operation that reports success has moved its whole buffer.
SuccessIsComplete ==
  \A j \in Jobs : future[j].exact /\ future[j].pc = "ok" =>
    {x[1] : x \in moved[j]} = 0..(future[j].len - 1)

\* The cursor is where the acknowledged transfers put it.
CursorExact == cursor = Min({acked, OffsetMax})

\* The ring's flags open a file exactly when, and as, std would (which opens it on the
\* other routes).
OpensLikeStd ==
  opened.out \notin {"none", "invalid", "failed"} =>
    [out |-> opened.out, size |-> opened.size] = StdOpen(opened.o, opened.exists, opened.before)

\* A descriptor of the file is open for the File or for a job still to run.
DescriptorsAccounted ==
  \A f \in FileFds \ {FileFd} : fdTable[f] = "A" <=> \E j \in Jobs : work[j].st = "queued" /\ work[j].fd = f

FileIoSafe ==
  /\ FileIoTypeOK /\ MovesWhereAsked /\ SuccessIsComplete /\ OpensLikeStd /\ DescriptorsAccounted
  /\ Usable => CursorExact

-----------------------------------------------------------------------------
(***************************************************************************)
(* The path operations of vibeio/fs/mod.rs and create_dir_all, which is    *)
(* built of them.  The names 1..Depth form one chain, name i lying in      *)
(* directory i - 1; name 0 is the root of an absolute path, or the empty   *)
(* path a relative one ends in.  Every operation is one future: the caller *)
(* asks, the kernel (completion driver), a pool thread or a smol thread    *)
(* performs it once, the caller is told.  Between those steps the other    *)
(* tasks run, so each await of create_dir_all is a place where the tree    *)
(* may change.  Paths, modes and timestamps are left out; a path that      *)
(* holds a NUL is refused before the kernel sees it.                       *)
(***************************************************************************)

CONSTANTS Makers,     \* the tasks that run create_dir_all
          Other,      \* the task that runs the other operations
          Depth,      \* length of the chain of names
          OtherBound  \* operations the other task performs, at most

ASSUME DirTreeAssumption == Depth \in Nat \ {0} /\ OtherBound \in Nat /\ Other \notin Makers

VARIABLES base,       \* "root": absolute path; "cwd": relative; "gone": directory removed
          tree,       \* tree[i]: what name i is
          serves,     \* who performs them: "pool" stands for smol's threads too
          ask,        \* ask[x]: the operation task x awaits
          maker,      \* maker[m]: the locals of create_dir_all
          told,       \* history: results the other task was given
          since       \* history: what happened since maker m was called

treeVars == <<base, tree, serves, ask, maker, told, since>>

Kinds == {"none", "dir", "file", "link", "dangling"}
Names == 1..Depth
NoAsk == [st |-> "idle", op |-> "none", name |-> 0, res |-> "none", did |-> 0]
NoMaker == [pc |-> "idle", target |-> 0, p |-> 0, stack |-> <<>>]

DirTreeInit ==
  /\ base \in {"root", "cwd"}
  /\ tree \in {t \in [Names -> {"none", "dir", "file"}] :
                 \A i \in Names : i > 1 /\ t[i] # "none" => t[i - 1] = "dir"}
  /\ serves \in {"ring", "pool"}
  /\ ask = [x \in Makers \cup {Other} |-> NoAsk]
  /\ maker = [m \in Makers |-> NoMaker]
  /\ told = 0
  /\ since = [m \in Makers |-> [hurt |-> FALSE, seen |-> FALSE]]

(***************************************************************************)
(* What the kernel does with a name.  A link leads to a directory that was *)
(* empty when the link was made.                                           *)
(***************************************************************************)
Leads(i) == tree[i] \in {"dir", "link"}
Lookup(i) ==
  IF base = "gone" THEN "ENOENT"
  ELSE IF \A j \in 1..(i - 1) : Leads(j) THEN "ok"
  ELSE LET first == CHOOSE j \in 1..(i - 1) : ~Leads(j) /\ \A k \in 1..(j - 1) : Leads(k)
       IN IF tree[first] = "file" THEN "ENOTDIR" ELSE "ENOENT"

Cut(i, kind) == [j \in Names |-> IF j < i THEN tree[j] ELSE IF j = i THEN kind ELSE "none"]
CallFailed(e) == [res |-> e, tree |-> tree]
DirMade(i, kind) == IF tree[i] = "none" THEN [res |-> "ok", tree |-> Cut(i, kind)] ELSE CallFailed("EEXIST")

mkdir(i) == DirMade(i, "dir")
linked(i) == DirMade(i, "file")
symlinked(i, kind) == DirMade(i, kind)
unlinked(i) ==
  CASE tree[i] = "none" -> CallFailed("ENOENT")
    [] tree[i] = "dir"  -> CallFailed("EISDIR")
    [] OTHER            -> [res |-> "ok", tree |-> Cut(i, "none")]
unlinked_dir(i) ==
  CASE tree[i] = "none"                            -> CallFailed("ENOENT")
    [] tree[i] \in {"file", "link", "dangling"}    -> CallFailed("ENOTDIR")
    [] i < Depth /\ tree[i + 1] # "none"           -> CallFailed("ENOTEMPTY")
    [] OTHER                                       -> [res |-> "ok", tree |-> Cut(i, "none")]
moved_away(i) ==
  IF tree[i] = "none" THEN CallFailed("ENOENT") ELSE [res |-> "ok", tree |-> Cut(i, "none")]
moved_onto(i) ==
  IF tree[i] = "dir" THEN CallFailed("EISDIR") ELSE [res |-> "ok", tree |-> Cut(i, "file")]
stat(i, follow) ==
  CASE tree[i] = "none"                 -> CallFailed("ENOENT")
    [] follow /\ tree[i] = "dangling"   -> CallFailed("ENOENT")
    [] follow /\ tree[i] = "link"       -> CallFailed("dir")
    [] OTHER                            -> CallFailed(tree[i])

Kernel(op, i) ==
  IF i = 0
    THEN CallFailed(IF base # "root" THEN "ENOENT"
                ELSE IF op = "metadata" THEN "dir" ELSE "EEXIST")
  ELSE IF Lookup(i) # "ok" THEN CallFailed(Lookup(i))
  ELSE CASE op = "create_dir"       -> mkdir(i)
         [] op = "metadata"         -> stat(i, TRUE)
         [] op = "symlink_metadata" -> stat(i, FALSE)
         [] op = "remove_file"      -> unlinked(i)
         [] op = "remove_dir"       -> unlinked_dir(i)
         [] op = "rename_from"      -> moved_away(i)
         [] op = "rename_to"        -> moved_onto(i)
         [] op = "hard_link"        -> linked(i)
         [] op = "symlink"          -> symlinked(i, "link")
         [] op = "symlink_nowhere"  -> symlinked(i, "dangling")

(***************************************************************************)
(* One path operation: poll_completion of the ring's operation, or         *)
(* run_blocking_fs when there is no completion driver.                     *)
(***************************************************************************)
Asked(op, i) == [st |-> "asked", op |-> op, name |-> i, res |-> "none", did |-> 0]
CallAnswered(x, r) == [ask EXCEPT ![x].st = "done", ![x].res = r]

\* History: since the call the chain was harmed, or the target was a directory.
Noted(t) ==
  [m \in Makers |->
     [hurt |-> since[m].hurt \/ \E i \in Names :
                 i <= maker[m].target /\ (t[i] \in {"file", "dangling"} \/ (tree[i] # "none" /\ t[i] # tree[i])),
      seen |-> since[m].seen \/ maker[m].target \in {i \in Names : t[i] \in {"dir", "link"}}]]

\* The kernel completes the entry, or a thread runs the closure.
performed(x) ==
  /\ ask[x].st \in {"asked", "dropped"}
  /\ LET r == Kernel(ask[x].op, ask[x].name) IN
       /\ tree' = r.tree
       /\ since' = Noted(r.tree)
       /\ ask' = IF ask[x].st = "dropped" THEN [ask EXCEPT ![x] = NoAsk]
                 ELSE [CallAnswered(x, r.res) EXCEPT ![x].did = @ + 1]
  /\ UNCHANGED <<base, serves, maker, told>>

\* run_blocking_fs: the pool drops the closure unrun, spawn_blocking fails;
\* the threads of smol::unblock never do.
pool_drops(x) ==
  /\ serves = "pool" /\ ask[x].st \in {"asked", "dropped"}
  /\ ask' = IF ask[x].st = "dropped" THEN [ask EXCEPT ![x] = NoAsk] ELSE CallAnswered(x, "EOTHER")
  /\ since' = IF x \in Makers THEN [since EXCEPT ![x].hurt = TRUE] ELSE since
  /\ UNCHANGED <<base, tree, serves, maker, told>>

\* The ring refuses a dropped operation it has not begun; a thread cannot.
ring_cancels(x) ==
  /\ serves = "ring" /\ ask[x].st = "dropped"
  /\ ask' = [ask EXCEPT ![x] = NoAsk]
  /\ UNCHANGED <<base, tree, serves, maker, told, since>>

create_dir(x, i) == ask' = [ask EXCEPT ![x] = Asked("create_dir", i)]
metadata(x, i) == ask' = [ask EXCEPT ![x] = Asked("metadata", i)]

\* A path that holds a NUL never reaches the kernel.
OtherAsks(op, i) ==
  /\ ask[Other].st = "idle" /\ told < OtherBound
  /\ ask' = [ask EXCEPT ![Other] = Asked(op, i)]
  /\ UNCHANGED <<base, tree, serves, maker, told, since>>
hard_link == \E i \in Names : OtherAsks("hard_link", i)
symlink == \E i \in Names : OtherAsks("symlink", i) \/ OtherAsks("symlink_nowhere", i)
rename == \E i \in Names : OtherAsks("rename_from", i) \/ OtherAsks("rename_to", i)
remove_dir == \E i \in Names : OtherAsks("remove_dir", i)
remove_file == \E i \in Names : OtherAsks("remove_file", i)
symlink_metadata == \E i \in Names : OtherAsks("symlink_metadata", i)
invalid_path ==
  /\ ask[Other].st = "idle" /\ told < OtherBound
  /\ ask' = [ask EXCEPT ![Other] = [Asked("create_dir", 1) EXCEPT !.st = "done", !.res = "EINVAL"]]
  /\ UNCHANGED <<base, tree, serves, maker, told, since>>
other_told ==
  /\ ask[Other].st = "done"
  /\ told' = told + 1
  /\ ask' = [ask EXCEPT ![Other] = NoAsk]
  /\ UNCHANGED <<base, tree, serves, maker, since>>
cwd_removed ==
  /\ base = "cwd" /\ ask[Other].st = "idle" /\ told < OtherBound /\ \A i \in Names : tree[i] = "none"
  /\ base' = "gone" /\ told' = told + 1
  /\ since' = [m \in Makers |-> [since[m] EXCEPT !.hurt = TRUE]]
  /\ UNCHANGED <<tree, serves, ask, maker>>

(***************************************************************************)
(* create_dir_all: up to the first directory that exists or can be made,   *)
(* then down again.                                                        *)
(***************************************************************************)
create_dir_all(m, target) ==
  /\ maker[m].pc = "idle" /\ ask[m].st = "idle"
  /\ maker' = [maker EXCEPT ![m] = [pc |-> "up", target |-> target, p |-> target, stack |-> <<>>]]
  /\ create_dir(m, target)
  /\ since' = [since EXCEPT ![m] = [hurt |-> base = "gone" \/ \E i \in 1..target : tree[i] \in {"file", "dangling"},
                                    seen |-> Leads(target)]]
  /\ UNCHANGED <<base, tree, serves, told>>

Awaits(m, pc) == maker[m].pc = pc /\ ask[m].st = "done"
Finish(m, how) ==
  /\ maker' = [maker EXCEPT ![m].pc = how]
  /\ ask' = [ask EXCEPT ![m] = NoAsk]

\* The next name of the stack is made, or the call is over.
Descend(m) ==
  IF maker[m].stack = <<>>
    THEN Finish(m, "ok")
    ELSE LET top == maker[m].stack[Len(maker[m].stack)] IN
         /\ maker' = [maker EXCEPT ![m].pc = "down", ![m].p = top,
                                   ![m].stack = SubSeq(@, 1, Len(@) - 1)]
         /\ create_dir(m, top)

AlreadyMade(pc, res) == res = "EEXIST"

create_dir_resolves(m) ==
  /\ maker[m].pc \in {"up", "down"} /\ ask[m].st = "done"
  /\ LET res == ask[m].res  pc == maker[m].pc  p == maker[m].p IN
       \/ res = "ok" /\ Descend(m)
       \/ /\ AlreadyMade(pc, res)
          /\ metadata(m, p)
          /\ maker' = [maker EXCEPT ![m].pc = IF pc = "up" THEN "upstat" ELSE "downstat"]
       \/ /\ pc = "up" /\ res = "ENOENT"
          /\ IF p = 0 THEN Finish(m, "err")
             ELSE /\ maker' = [maker EXCEPT ![m].p = p - 1, ![m].stack = Append(@, p)]
                  /\ create_dir(m, p - 1)
       \/ /\ res # "ok" /\ ~AlreadyMade(pc, res) /\ ~(pc = "up" /\ res = "ENOENT")
          /\ Finish(m, "err")
  /\ UNCHANGED <<base, tree, serves, told, since>>

metadata_resolves(m) ==
  /\ maker[m].pc \in {"upstat", "downstat"} /\ ask[m].st = "done"
  /\ IF ask[m].res = "dir" THEN Descend(m) ELSE Finish(m, "err")
  /\ UNCHANGED <<base, tree, serves, told, since>>

\* The task is dropped: what it awaits may still be performed.
drop_maker(m) ==
  /\ maker[m].pc \in {"up", "down", "upstat", "downstat"}
  /\ maker' = [maker EXCEPT ![m].pc = "dropped"]
  /\ ask' = [ask EXCEPT ![m] = IF @.st = "asked" THEN [@ EXCEPT !.st = "dropped"] ELSE NoAsk]
  /\ UNCHANGED <<base, tree, serves, told, since>>

DirTreeNext ==
  \/ \E x \in Makers \cup {Other} : performed(x) \/ pool_drops(x) \/ ring_cancels(x)
  \/ hard_link \/ symlink \/ rename \/ remove_dir \/ remove_file \/ symlink_metadata
  \/ invalid_path \/ other_told \/ cwd_removed
  \/ \E m \in Makers : \/ \E t \in Names : create_dir_all(m, t)
                       \/ create_dir_resolves(m) \/ metadata_resolves(m) \/ drop_maker(m)

DirTreeSpec == DirTreeInit /\ [][DirTreeNext]_treeVars

-----------------------------------------------------------------------------
DirTreeTypeOK ==
  /\ base \in {"root", "cwd", "gone"} /\ tree \in [Names -> Kinds]
  /\ serves \in {"ring", "pool"} /\ told \in 0..OtherBound
  /\ \A m \in Makers : maker[m].p \in 0..Depth /\ maker[m].target \in 0..Depth

\* A call nothing got in the way of succeeds and leaves every name of the
\* path a directory, whoever made them: another create_dir_all that wins a
\* race for one of the names is no failure.
UndisturbedSucceeds ==
  \A m \in Makers : ~since[m].hurt =>
    /\ maker[m].pc # "err"
    /\ maker[m].pc = "ok" => \A i \in 1..maker[m].target : Leads(i)

\* Whatever else happened, success means the path was a directory at some
\* moment of the call.
SuccessWasTrue == \A m \in Makers : maker[m].pc = "ok" => since[m].seen

\* The names still to be made are those between the one being tried and the
\* target: none is skipped, none tried twice on the way down.
StackIsTheRest ==
  \A m \in Makers : maker[m].pc \in {"up", "upstat", "down", "downstat"} =>
    LET n == Len(maker[m].stack) IN
      /\ n = maker[m].target - maker[m].p
      /\ \A k \in 1..n : maker[m].stack[k] = maker[m].target - k + 1

\* An operation reports success only if it was performed, and is performed
\* at most once; a refused path or a closure the pool dropped did nothing.
ReportsWhatHappened ==
  \A x \in Makers \cup {Other} :
    /\ ask[x].did <= 1
    /\ ask[x].st = "done" => (ask[x].did = 0 <=> ask[x].res \in {"EINVAL", "EOTHER"})

\* What fs::create_dir_all and the path operations promise.
DirTreeSafe == DirTreeTypeOK /\ UndisturbedSucceeds /\ SuccessWasTrue /\ StackIsTheRest /\ ReportsWhatHappened
=============================================================================
