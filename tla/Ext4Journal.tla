---------------------------- MODULE Ext4Journal ----------------------------
(***************************************************************************)
(* The journal of lwext4 (ext4_journal.c) between the block cache and the   *)
(* device: transactions of ext4.c, commit, checkpoint through the callback  *)
(* of a written buffer, revoke of freed blocks, abort, stop, and the replay *)
(* after a crash (jbd_recover).                                             *)
(*                                                                          *)
(* A step is one call of the interface. The writes it makes are queued in   *)
(* io in the order of the code and reach the media one by one; a crash      *)
(* loses the rest of them together with the memory.                         *)
(***************************************************************************)
EXTENDS Lists, Integers, SequencesExt

CONSTANTS
  Bitmap,      \* the block that says what the others are used for
  Pool,        \* the blocks it speaks of
  Values,      \* contents of a block
  Magic,       \* the contents whose first word is JBD_MAGIC_NUMBER
  Junk,        \* whatever a block holds that is not in use
  TagsPerBlock, RevokesPerBlock,   \* room in a descriptor and a revoke block
  Setups,      \* [writeBack, maxlen, values, pool, maxId, sessions]: cache mode, length
               \* of the journal, what is written where, bounds on transaction ids and
               \* on the sessions
  StopIn,      \* sessions that may end with jbd_journal_stop
  AbortFrees,  \* whether a transaction that freed a block may be aborted
  Unrevoked    \* whether a block may be freed that the log still has a copy of and
               \* that jbd_trans_try_revoke_block passes over

ASSUME JournalAssumption ==
  /\ Bitmap \notin Pool /\ IsFiniteSet(Pool)
  /\ TagsPerBlock \in Nat \ {0} /\ RevokesPerBlock \in Nat \ {0}
  /\ Junk \notin Values
  /\ \A c \in Setups : /\ c.writeBack \in BOOLEAN /\ c.maxlen \in Nat \ {0, 1}
                        /\ c.values \subseteq Values /\ c.pool \subseteq Pool
                        /\ {c.maxId, c.sessions} \subseteq Nat

Blocks == Pool \cup {Bitmap}
Uses == {"free", "meta", "data"}

\* Contents of any block; those of Bitmap are a function.
Contents == Values \cup {Junk} \cup [Pool -> Uses]

VARIABLES
  media,    \* the device: blocks, log (blocks of the journal file), jsb
  io,       \* writes issued and not yet on the media
  m,        \* memory of the process, Down when it is not there
  setup,    \* a member of Setups, fixed
  session,  \* [n: number of sessions, state: "dirty" | "recovered" | "open" | "stopped"]
  stable    \* not in the code: what a recovery of the media would show

vars == <<media, io, m, setup, session, stable>>

Down == [up |-> FALSE]
None == [t |-> 0, k |-> 0]      \* a null struct jbd_buf *
First == 1                      \* jbd_sb.first

----------------------------------------------------------------------------
(* The device *)

Write(to, at, val) == [to |-> to, at |-> at, val |-> val]

Perform(d, w) ==
  CASE w.to = "disk" -> [d EXCEPT !.disk[w.at] = w.val]
    [] w.to = "log"  -> [d EXCEPT !.log[w.at] = w.val]
    [] w.to = "jsb"  -> [d EXCEPT !.jsb = w.val]

\* What the process reads: the media after the writes it has issued.
Seen(queue) == ForEach(Perform, media, queue)

DataBlock(v) == [type |-> "data", seq |-> 0, val |-> v, tags |-> <<>>, revoked |-> {}]
Header(type, id) == [type |-> type, seq |-> id, val |-> Junk, tags |-> <<>>,
                     revoked |-> {}]

\* The next block of the log (the macro wrap).
Wrapped(i) == IF i >= setup.maxlen THEN i - (setup.maxlen - First) ELSE i

----------------------------------------------------------------------------
(* Memory: the cache, the transactions, the records of journaled blocks *)

NoBuf == [cached |-> FALSE]
Buf(v, refs) == [cached |-> TRUE, val |-> v, dirty |-> FALSE, upto |-> TRUE,
                 refs |-> refs, end |-> None]
NoRec == [t |-> 0, queue |-> <<>>]

\* A transaction as jbd_journal_new_trans leaves it; its name is the id it
\* gets if it commits, which no other transaction in memory has. freed is not
\* in the code: it says which blocks the file system must not use again yet.
NewTrans(id) == [id |-> id, start |-> 0, blocks |-> 0, data |-> 0, written |-> 0,
                 bufs |-> <<>>, revokes |-> {}, freed |-> {}]

NoTrans == NewTrans(0)

\* A jbd_buf of transaction t: the k-th block it dirtied, and its place in the log.
JbdBuf(t, k, b) == [t |-> t, k |-> k, lba |-> b, at |-> 0]
Key(j) == [t |-> j.t, k |-> j.k]

\* List q when j is taken out of it (TAILQ_REMOVE).
Without(q, j) ==
  IF \E i \in DOMAIN q : Key(q[i]) = Key(j)
  THEN RemoveAt(q, CHOOSE i \in DOMAIN q : Key(q[i]) = Key(j)) ELSE q

Fresh(start, id, sb) ==
  [up |-> TRUE, io |-> <<>>, buf |-> [b \in Blocks |-> NoBuf],
   rec |-> [b \in Blocks |-> NoRec], cp |-> <<>>, cur |-> NoTrans,
   start |-> start, last |-> start, tid |-> id, alloc |-> id, sb |-> sb, dirty |-> FALSE]

Issue(s, w) == [s EXCEPT !.io = Append(@, w)]

\* ext4_block_get: the contents a caller gets, from the cache or the device.
Loaded(s, b) == IF s.buf[b].cached /\ s.buf[b].upto THEN s.buf[b].val
                ELSE Seen(s.io).disk[b]

\* Buffer x, up to date with contents v and with one more reference.
Filled(x, v) == IF x.cached THEN [x EXCEPT !.val = v, !.upto = TRUE, !.refs = @ + 1]
                ELSE Buf(v, 1)
Got(s, b) == [s EXCEPT !.buf[b] = Filled(@, Loaded(s, b))]

\* jbd_journal_write_sb and jbd_write_sb.
TellSb(s) == [s EXCEPT !.sb = [start |-> s.start, seq |-> s.tid], !.dirty = TRUE]
WriteSb(s) == IF s.dirty THEN [Issue(s, Write("jsb", 0, s.sb)) EXCEPT !.dirty = FALSE]
              ELSE s

PositionOf(s, t) == CHOOSE i \in DOMAIN s.cp : s.cp[i].id = t

\* jbd_journal_free_trans of a transaction that has no buffers left.
FreeTrans(s, t) == [s EXCEPT !.rec = [b \in Blocks |-> IF @[b].t = t THEN NoRec ELSE @[b]]]

\* The log starts after the transaction t, which leaves the checkpoint queue.
StartAfter(s, t) ==
  FreeTrans([s EXCEPT !.start = Wrapped(t.start + t.blocks), !.tid = t.id + 1,
                      !.cp = RemoveAt(@, PositionOf(s, t.id))], t.id)

StartAt(s, t) == TellSb([s EXCEPT !.start = Wrapped(t.start), !.tid = t.id])

\* jbd_journal_purge_cp_trans without flush: skip what is written or revokes only.
PurgeHead(p, i) ==
  LET t == Head(p.s.cp)
  IN IF p.stop \/ p.s.cp = <<>> THEN p
     ELSE IF t.data = 0 \/ t.data = t.written
          THEN [s |-> TellSb(StartAfter(p.s, t)), stop |-> FALSE]
          ELSE [s |-> StartAt(p.s, t), stop |-> TRUE]
Purge(s) == ForEach(PurgeHead, [s |-> s, stop |-> FALSE], s.cp).s

----------------------------------------------------------------------------
(* jbd_trans_end_write: a journaled block has reached its place *)

\* j leaves its transaction and the record of its block.
Unlink(s, j) ==
  [s EXCEPT !.cp[PositionOf(s, j.t)].bufs = Without(@, j), !.rec[j.lba].queue = Without(@, j)]

\* The first transaction of the queue goes when its last block is written, and
\* the superblock follows.
EndFirst(s, t, first) ==
  IF first /\ t.written = t.data THEN WriteSb(TellSb(Purge(StartAfter(s, t)))) ELSE s

\* One more block of j's transaction is written.
CountWritten(s, j, first) ==
  LET i == PositionOf(s, j.t)
  IN EndFirst([s EXCEPT !.cp[i].written = @ + 1], [s.cp[i] EXCEPT !.written = @ + 1], first)

IsFirst(s, t) == s.cp # <<>> /\ Head(s.cp).id = t

\* The callback for a buffer an older transaction left in the record of the block.
EndOlder(s, j) == CountWritten(Unlink(s, j), j, IsFirst(s, j.t))

\* jbd_trans_finish_callback: all of them, and the callback is taken off.
EndOlders(s, b, hasBuf) ==
  [ForEach(EndOlder, s, s.rec[b].queue) EXCEPT !.buf[b] = IF hasBuf THEN [@ EXCEPT !.end = None] ELSE @]

EndWrite(s, j, hasBuf) ==
  CountWritten(IF s.rec[j.lba].t = j.t THEN EndOlders(Unlink(s, j), j.lba, hasBuf) ELSE Unlink(s, j),
               j, IsFirst(s, j.t))

----------------------------------------------------------------------------
(* The cache under the journal *)

\* The jbd_buf an end_write_arg points to.
EndOf(s, b) ==
  LET all == s.rec[b].queue
  IN all[CHOOSE i \in DOMAIN all : Key(all[i]) = s.buf[b].end]

\* ext4_block_flush_buf.
FlushBuf(s, b) ==
  LET clean == [Issue(s, Write("disk", b, s.buf[b].val)) EXCEPT !.buf[b].dirty = FALSE]
  IN IF ~(s.buf[b].dirty /\ s.buf[b].upto) THEN s
     ELSE IF s.buf[b].end = None THEN clean
     ELSE EndWrite(clean, EndOf(s, b), TRUE)

\* ext4_block_set: the last reference writes the buffer, leaves it to a later
\* write when the cache writes back, or drops it if it is not up to date.
Settled(s, b) == IF s.buf[b].refs > 0 \/ setup.writeBack THEN s ELSE FlushBuf(s, b)
DropStale(s, b) ==
  IF s.buf[b].refs = 0 /\ ~s.buf[b].upto THEN [s EXCEPT !.buf[b] = NoBuf] ELSE s
Put(s, b) == DropStale(Settled([s EXCEPT !.buf[b].refs = @ - 1], b), b)

\* ext4_bcache_invalidate_lba of one block.
Invalidate(s, b) ==
  IF s.buf[b].cached
  THEN [s EXCEPT !.buf[b] = [@ EXCEPT !.end = None, !.dirty = FALSE, !.upto = FALSE]]
  ELSE s

----------------------------------------------------------------------------
(* Changes within a transaction *)

Dirtied(s, b, end) == [s EXCEPT !.buf[b].dirty = TRUE, !.buf[b].upto = TRUE,
                                !.buf[b].end = end]

\* jbd_trans_set_block_dirty: the block joins the transaction.
SetDirty(s, b) ==
  LET joined(j) ==
        Dirtied([s EXCEPT !.rec[b] = [t |-> s.cur.id, queue |-> Append(@.queue, j)],
                          !.buf[b].refs = @ + 1,
                          !.cur.bufs = <<j>> \o @, !.cur.data = @ + 1,
                          !.cur.revokes = @ \ {b}], b, Key(j))
  IN IF s.buf[b].end.t = s.cur.id THEN s ELSE joined(JbdBuf(s.cur.id, s.cur.data + 1, b))

\* A caller gets the block, changes it, marks it dirty and releases it.
Change(s, b, v) == Put(SetDirty([Got(s, b) EXCEPT !.buf[b].val = v], b), b)

SetUse(s, b, use) ==
  Change(s, Bitmap, [p \in Pool |-> IF p = b THEN use ELSE Loaded(s, Bitmap)[p]])

\* Mutated form of TryRevoke: only blocks the transaction itself changed.
TryRevokeOwn(s, b) == IF s.rec[b].t = s.cur.id /\ Len(s.rec[b].queue) > 1
                      THEN [s EXCEPT !.cur.revokes = @ \cup {b}] ELSE s

\* The record of the block shows a change by another transaction than the open one.
OlderKnown(s, b) ==
  s.rec[b] # NoRec /\ (s.rec[b].t # s.cur.id \/ Len(s.rec[b].queue) > 1)

\* jbd_trans_try_revoke_block
TryRevoke(s, b) == IF OlderKnown(s, b) THEN [s EXCEPT !.cur.revokes = @ \cup {b}] ELSE s

----------------------------------------------------------------------------
(* Undoing *)

\* The block gets the contents that the older transaction of j logged.
RollBack(s, b, j) ==
  LET copy == Seen(s.io).log[j.at].val
  IN Put(Dirtied([s EXCEPT !.buf[b] = Filled(@, copy), !.rec[b].t = j.t], b, Key(j)), b)

\* Mutated form of GiveBack: the block is not rolled back.
GiveNothingBack(s, b, revoked) == s

\* jbd_trans_finish_callback with abort: who owns the block from now on.
GiveBack(s, b, revoked) ==
  LET r == s.rec[b]
  IN IF r.t # s.cur.id \/ r.queue = <<>> THEN s
     ELSE IF revoked THEN [s EXCEPT !.rec[b].t = Last(r.queue).t]
     ELSE RollBack(s, b, Last(r.queue))

\* j leaves the open transaction and the record of its block.
LeaveRecord(s, j) == [s EXCEPT !.rec[j.lba].queue = Without(@, j), !.buf[j.lba].end = None,
                               !.cur.bufs = Without(@, j)]

\* jbd_trans_remove_block_rec
Disowned(s, b) == IF s.rec[b].t = s.cur.id THEN [s EXCEPT !.rec[b] = NoRec] ELSE s

\* A buffer of the transaction that a commit finds clean is not logged.
DropClean(s, j) ==
  LET left == [LeaveRecord(s, j) EXCEPT !.cur.data = @ - 1]
  IN Put(Disowned(GiveBack(left, j.lba, j.lba \in s.cur.revokes), j.lba), j.lba)

\* A buffer of a transaction that is given up.
Undo(s, j) ==
  LET stale == [s EXCEPT !.buf[j.lba].dirty = FALSE, !.buf[j.lba].upto = FALSE]
  IN GiveBack(Put(LeaveRecord(stale, j), j.lba), j.lba, FALSE)

\* jbd_journal_free_trans with abort.
Aborted(s) ==
  [FreeTrans(ForEach(Undo, s, s.cur.bufs), s.cur.id) EXCEPT !.cur = NoTrans]

----------------------------------------------------------------------------
(* Checkpoint *)

\* A logged block goes to its place, from the log if the cache has a newer
\* version of it or none.
FlushFrom(s, j, had) ==
  IF had /\ s.buf[j.lba].upto /\ s.rec[j.lba].t = j.t THEN FlushBuf(s, j.lba)
  ELSE EndWrite(Issue(s, Write("disk", j.lba, Seen(s.io).log[j.at].val)), j, had)

FlushOne(s, j) ==
  IF s.buf[j.lba].cached
  THEN Put(FlushFrom([s EXCEPT !.buf[j.lba].refs = @ + 1], j, TRUE), j.lba)
  ELSE FlushFrom(s, j, FALSE)

\* jbd_journal_flush_trans
FlushTrans(s, t) == ForEach(FlushOne, s, t.bufs)

\* One turn of jbd_journal_purge_cp_trans with flush.
PurgeOnce(s) ==
  LET t == Head(s.cp)
  IN IF s.cp = <<>> THEN s
     ELSE IF t.data = 0 \/ t.data = t.written THEN TellSb(StartAfter(s, t))
     ELSE FlushTrans(s, t)

\* All its turns: a transaction takes at most two.
PurgeTwice(s, t) == PurgeOnce(PurgeOnce(s))
PurgeAll(s) == ForEach(PurgeTwice, s, s.cp)

----------------------------------------------------------------------------
(* Commit *)

\* The log goes on at its next block; a full one loses its oldest transaction to
\* the disk.
Advanced(s) == [s EXCEPT !.last = Wrapped(@ + 1), !.cur.blocks = @ + 1]
MakeRoom(s) == IF s.last = s.start THEN PurgeOnce(s) ELSE s

\* Mutated form of Alloc: nobody makes room.
AllocOnly(s) == Advanced(s)

\* jbd_journal_alloc_block: the block is s.last.
Alloc(s) == MakeRoom(Advanced(s))

Escaped(v) == IF v = Magic THEN Junk ELSE v

LogTo(s, at, block) == Issue(s, Write("log", at, block))

\* A block of the transaction begins in the log.
Opened(s) == LET at == s.last IN [Alloc(s) EXCEPT !.cur.start = IF @ = 0 THEN at ELSE @]

CloseDescriptor(p) ==
  IF p.desc = 0 THEN p.s
  ELSE LogTo(p.s, p.desc, [Header("desc", p.s.cur.id) EXCEPT !.tags = p.tags])

\* The journal remembers where in the log the copy of j is.
Copied(s, j, at) ==
  LET place(q) == [i \in DOMAIN q |-> IF Key(q[i]) = Key(j) THEN [q[i] EXCEPT !.at = at] ELSE q[i]]
  IN [s EXCEPT !.cur.bufs = place(@), !.rec[j.lba].queue = place(@)]

\* The buffer is copied to the log and gets a tag; s is p.s, after a new
\* descriptor when the old one was full.
LogCopy(p, s, j, full) ==
  LET v == s.buf[j.lba].val
      tag == [lba |-> j.lba, escape |-> v = Magic, last |-> p.i = s.cur.data - 1]
  IN [s |-> Copied(LogTo(Alloc(s), s.last, DataBlock(Escaped(v))), j, s.last),
      desc |-> IF full THEN p.s.last ELSE p.desc,
      tags |-> (IF full THEN <<>> ELSE p.tags) \o <<tag>>,
      i |-> p.i + 1]

\* jbd_journal_prepare for one buffer; p is [s, desc, tags, i].
LogBuffer(p, j) ==
  LET full == p.desc = 0 \/ Len(p.tags) = TagsPerBlock
  IN IF ~p.s.buf[j.lba].dirty THEN [p EXCEPT !.s = DropClean(p.s, j)]
     ELSE LogCopy(p, IF full THEN Opened(CloseDescriptor(p)) ELSE p.s, j, full)

\* The clean buffers at the tail go first, so that the last tag is known.
DropAtTail(p, j) == IF p.stop \/ p.s.buf[j.lba].dirty THEN [p EXCEPT !.stop = TRUE]
                    ELSE [p EXCEPT !.s = DropClean(p.s, j)]
DropTail(s) == ForEach(DropAtTail, [s |-> s, stop |-> FALSE], Reverse(s.cur.bufs)).s

LogBuffers(s) ==
  CloseDescriptor(ForEach(LogBuffer, [s |-> s, desc |-> 0, tags |-> <<>>, i |-> 0], s.cur.bufs))

Prepare(s) == LogBuffers(DropTail(s))

\* jbd_journal_prepare_revoke, a block of the log at a time.
LogRevokes(s, revoked) ==
  LogTo(Opened(s), s.last, [Header("revoke", s.cur.id) EXCEPT !.revoked = revoked])

PrepareRevoke(s) ==
  LET list == SetToSeq(s.cur.revokes)
      chunk(i) == {list[n] : n \in {n \in DOMAIN list : (n - 1) \div RevokesPerBlock = i - 1}}
      count == (Len(list) + RevokesPerBlock - 1) \div RevokesPerBlock
  IN ForEach(LogRevokes, s, [i \in 1 .. count |-> chunk(i)])

\* Revoked blocks have no copy to be written any more.
EndCopy(s, j) ==
  IF s.buf[j.lba].cached
  THEN Put(EndWrite([s EXCEPT !.buf[j.lba].refs = @ + 1], j, TRUE), j.lba)
  ELSE EndWrite(s, j, FALSE)

EndLast(s, b) == IF s.rec[b].queue = <<>> THEN s ELSE EndCopy(s, Last(s.rec[b].queue))
EndRevoked(s) == ForEach(EndLast, s, SetToSeq(s.cur.revokes))

\* jbd_journal_cp_trans: the references of the transaction go.
PutBuf(s, j) == Put(s, j.lba)
Release(s, t) == ForEach(PutBuf, s, t.bufs)

\* The committed transaction joins the checkpoint queue.
Enqueue(s) ==
  LET t == s.cur
      queued == [s EXCEPT !.cp = Append(@, t), !.cur = NoTrans]
  IN IF s.cp # <<>> THEN Release(queued, t)
     ELSE IF t.data > 0 THEN Release(WriteSb(StartAt(queued, t)), t)
     ELSE TellSb(StartAfter(queued, t))

\* __jbd_journal_commit_trans, once the buffers and revokes are in the log.
LogCommit(s) == LogTo(Alloc(s), s.last, Header("commit", s.cur.id))
Logged(s) ==
  IF s.cur.bufs = <<>> /\ s.cur.revokes = {}
  THEN [FreeTrans(s, s.cur.id) EXCEPT !.cur = NoTrans]
  ELSE Enqueue(EndRevoked([LogCommit(s) EXCEPT !.alloc = @ + 1]))

Committed(s) == Logged(PrepareRevoke(Prepare(s)))

----------------------------------------------------------------------------
(* Recovery *)

\* The tags jbd_iterate_block_table gives: it stops after one with the last flag.
TagsOf(h) == LET ends == {i \in DOMAIN h.tags : h.tags[i].last}
             IN IF ends = {} THEN h.tags ELSE SubSeq(h.tags, 1, CHOOSE i \in ends :
                                                        \A k \in ends : i <= k)

\* replay_block_tags: the i-th tag of descriptor h, which is at a block of the log.
ReplayTag(d, at, h, revokedBy, out, i) ==
  LET tags == TagsOf(h)
      val == IF tags[i].escape THEN Magic ELSE d.log[Wrapped(at + i)].val
  IN IF i > Len(tags) \/ revokedBy[tags[i].lba] >= h.seq THEN out
     ELSE Append(out, Write("disk", tags[i].lba, val))

\* jbd_replay_descriptor_block: the writes for one descriptor.
Replayed(d, at, h, revokedBy) ==
  LET replay(out, i) == ReplayTag(d, at, h, revokedBy, out, i)
  IN ForEach(replay, <<>>, [i \in 1 .. TagsPerBlock |-> i])

\* jbd_iterate_log at one block. The walk ends at a block that has no header of
\* the transaction it expects.
WalkOn(d, lastId, table, p) ==
  LET h == d.log[p.at]
      tags == IF h.type = "desc" THEN Len(TagsOf(h)) ELSE 0
      next == Wrapped(p.at + tags + 1)
  IN IF p.stop \/ p.id > lastId \/ h.type = "data" \/ h.seq # p.id
     THEN [p EXCEPT !.stop = TRUE]
     ELSE [at |-> next, stop |-> next = d.jsb.start,
           id |-> IF h.type = "commit" THEN p.id + 1 ELSE p.id,
           revokedBy |-> [b \in Blocks |-> IF b \in h.revoked THEN h.seq ELSE p.revokedBy[b]],
           out |-> IF h.type = "desc" THEN p.out \o Replayed(d, p.at, h, table) ELSE p.out]

\* From the start the superblock names up to transaction lastId; table says the
\* last transaction that revoked each block.
Walk(d, lastId, table) ==
  LET step(p, i) == WalkOn(d, lastId, table, p)
  IN ForEach(step, [at |-> d.jsb.start, id |-> d.jsb.seq, stop |-> FALSE,
                     revokedBy |-> [b \in Blocks |-> 0], out |-> <<>>],
              [i \in 1..setup.maxlen |-> i])

\* Mutated form of RecoveryWrites: the sequence starts again.
RecoveryForgetsIds(d) ==
  IF d.jsb.start = 0 THEN <<>>
  ELSE Walk(d, d.jsb.seq + setup.maxId, [b \in Blocks |-> 0]).out
         \o <<Write("jsb", 0, [start |-> 0, seq |-> 0])>>

\* jbd_recover: scan, collect what is revoked, replay; the writes it makes.
RecoveryWrites(d) ==
  LET nothing == [b \in Blocks |-> 0]
      replay(lastId) == Walk(d, lastId, Walk(d, lastId, nothing).revokedBy).out
      ended(lastId) == <<Write("jsb", 0, [start |-> 0, seq |-> lastId])>>
      from(scanned) == IF scanned > d.jsb.seq THEN replay(scanned - 1) \o ended(scanned - 1)
                       ELSE ended(scanned)
  IN IF d.jsb.start = 0 THEN <<>> ELSE from(Walk(d, d.jsb.seq + setup.maxId, nothing).id)

\* The contents as a program sees them: a block that is not in use has none.
Shown(f) == [b \in Pool |-> IF f[Bitmap][b] = "free" THEN "free" ELSE f[b]]

\* The device as a recovery would leave it.
Recovered(d) == ForEach(Perform, d, RecoveryWrites(d))

----------------------------------------------------------------------------
(* The interface *)

\* The new memory, its writes handed over to the device.
Run(s) == /\ m' = [s EXCEPT !.io = <<>>]
          /\ io' = s.io
          /\ UNCHANGED <<media, setup, session, stable>>

Ready == m.up /\ io = <<>>
InTrans == Ready /\ m.cur # NoTrans
Use(b) == Loaded(m, Bitmap)[b]

\* __ext4_trans_start.
Begin == /\ Ready /\ m.cur = NoTrans /\ m.alloc <= setup.maxId
         /\ Run([m EXCEPT !.cur = NewTrans(m.alloc)])

\* A block of metadata gets new contents.
ChangeMeta(b, v) == /\ InTrans /\ Use(b) = "meta" /\ v # Loaded(m, b)
                    /\ Run(Change(m, b, v))

\* A block is taken for metadata, whose first contents are journaled, or for
\* the data of a file, written straight to the device (ext4_fwrite). The
\* calls of ext4.c take no block they freed.
Available(b) == b \in setup.pool /\ Use(b) = "free" /\ b \notin m.cur.freed

AllocMeta(b, v) == /\ InTrans /\ Available(b)
                   /\ Run(Change(SetUse(m, b, "meta"), b, v))

AllocData(b, v) == /\ InTrans /\ Available(b)
                   /\ Run(Issue(SetUse(m, b, "data"), Write("disk", b, v)))

\* The log has a copy of the block in a transaction on the checkpoint queue, which a
\* recovery would replay.
InLog(b) == \E i \in DOMAIN media.log, k \in DOMAIN m.cp :
              /\ media.log[i].type = "desc" /\ media.log[i].seq = m.cp[k].id
              /\ \E n \in DOMAIN media.log[i].tags : media.log[i].tags[n].lba = b

\* ext4_balloc_free_block(s). The last guard is a bound of the model.
Free(b) ==
  /\ InTrans /\ Use(b) # "free"
  /\ Unrevoked \/ OlderKnown(m, b) \/ ~InLog(b)
  /\ \E s \in {Invalidate(TryRevoke(SetUse(m, b, "free"), b), b)} :
       Run([s EXCEPT !.cur.freed = @ \cup {b}])

\* __ext4_trans_stop and __ext4_trans_abort.
Commit == InTrans /\ Run(Committed(m))

Abort == InTrans /\ (AbortFrees \/ m.cur.freed = {}) /\ Run(Aborted(m))

\* ext4_block_cache_shake for one buffer: a clean one is dropped, a dirty one
\* is written first.
Evict(b) ==
  /\ Ready /\ m.buf[b].cached /\ m.buf[b].refs = 0
  /\ Run([FlushBuf(m, b) EXCEPT !.buf[b] = NoBuf])

\* ext4_block_cache_flush.
CacheFlush ==
  LET list == SetToSeq({b \in Blocks : m.buf[b].cached /\ m.buf[b].dirty
                                        /\ m.buf[b].refs = 0})
  IN Ready /\ list # <<>> /\ Run(ForEach(FlushBuf, m, list))

\* __ext4_journal_stop and the unmount that follows, when no transaction is open.
Stop ==
  /\ Ready /\ m.cur = NoTrans /\ session.n \in StopIn
  /\ io' = WriteSb([PurgeAll(m) EXCEPT !.sb = [start |-> 0, seq |-> 0], !.dirty = TRUE]).io
  /\ m' = Down
  /\ session' = [session EXCEPT !.state = "stopped"]
  /\ UNCHANGED <<media, setup, stable>>

\* The next write reaches the media.
PerformWrite == /\ io # <<>>
                /\ media' = Perform(media, Head(io))
                /\ io' = Tail(io)
                /\ stable' = Shown(Recovered(media').disk)
                /\ UNCHANGED <<m, setup, session>>

\* Power is lost.
Crash == /\ session.n < setup.sessions \/ session.state = "recovered"
         /\ m.up \/ io # <<>>
         /\ m' = Down /\ io' = <<>>
         /\ session' = [session EXCEPT !.state = "dirty"]
         /\ UNCHANGED <<media, setup, stable>>

\* __ext4_recover of the next mount.
Recover == /\ ~m.up /\ io = <<>> /\ session.state \in {"dirty", "stopped"}
           /\ io' = RecoveryWrites(media)
           /\ session' = [session EXCEPT !.state = "recovered"]
           /\ UNCHANGED <<media, m, setup, stable>>

\* __ext4_journal_start.
Open == /\ ~m.up /\ io = <<>> /\ session.state = "recovered" /\ session.n < setup.sessions
        /\ LET s == WriteSb(TellSb(Fresh(First, media.jsb.seq + 1, media.jsb)))
           IN m' = [s EXCEPT !.io = <<>>] /\ io' = s.io
        /\ session' = [n |-> session.n + 1, state |-> "open"]
        /\ UNCHANGED <<media, setup, stable>>

Init ==
  /\ setup \in Setups
  /\ media = [disk |-> [b \in Blocks |-> IF b = Bitmap THEN [p \in Pool |-> "free"] ELSE Junk],
              log |-> [i \in 1..(setup.maxlen - 1) |-> DataBlock(Junk)],
              jsb |-> [start |-> 0, seq |-> 1]]
  /\ io = <<>>
  /\ m = Down
  /\ session = [n |-> 0, state |-> "recovered"]
  /\ stable = Shown(media.disk)

Next ==
  \/ Begin \/ Commit \/ Abort \/ CacheFlush \/ Stop \/ PerformWrite \/ Crash \/ Recover \/ Open
  \/ \E b \in Pool : Free(b)
  \/ \E b \in Blocks : Evict(b)
  \/ \E b \in Pool, v \in setup.values : ChangeMeta(b, v) \/ AllocMeta(b, v) \/ AllocData(b, v)

Spec == Init /\ [][Next]_vars

----------------------------------------------------------------------------
(* What it is for *)

\* What the process sees: metadata through the cache, data on the device.
View == LET d == Seen(io).disk
            got == [b \in Blocks |-> IF m.buf[b].cached /\ m.buf[b].upto THEN m.buf[b].val
                                     ELSE d[b]]
        IN [b \in Blocks |-> IF b \in Pool /\ got[Bitmap][b] = "data" THEN d[b] ELSE got[b]]

working == IF m.up THEN Shown(View) ELSE stable
phase == CASE ~m.up -> "down"
           [] m.up /\ m.cur # NoTrans -> "txn"
           [] m.up /\ m.cur = NoTrans /\ io # <<>> -> "busy"
           [] m.up /\ m.cur = NoTrans /\ io = <<>> -> "idle"

\* Each buffer waiting for its place is known to the record of its block, and
\* the record belongs to a transaction in memory, so no callback meets a freed
\* one (jbd_trans_end_write, jbd_trans_remove_block_rec).
Known == {m.cp[i] : i \in DOMAIN m.cp} \cup {m.cur}
NoDangling ==
  m.up => /\ \A t \in Known : \A i \in DOMAIN t.bufs :
               \E k \in DOMAIN m.rec[t.bufs[i].lba].queue :
                  Key(m.rec[t.bufs[i].lba].queue[k]) = Key(t.bufs[i])
          /\ \A b \in Blocks :
               /\ m.rec[b].queue # <<>> => m.rec[b].t \in {t.id : t \in Known}
               /\ \A k \in DOMAIN m.rec[b].queue : \E t \in Known :
                    \E i \in DOMAIN t.bufs : t.bufs[i] = m.rec[b].queue[k]
               /\ (m.buf[b].cached /\ m.buf[b].end # None) =>
                     \E k \in DOMAIN m.rec[b].queue : Key(m.rec[b].queue[k]) = m.buf[b].end

\* No commit block on the media has an id that a coming transaction will get
\* ("To invalidate any stale records we need to start from the checkpoint
\* transaction ID of the previous journalling session plus 1").
NoStaleCommit ==
  (m.up /\ io = <<>>) => \A i \in DOMAIN media.log :
     media.log[i].type = "commit" => media.log[i].seq < m.alloc

\* A block that is freed while a transaction of the checkpoint queue has it in
\* the log is revoked ("If @lba still remains in an transaction on checkpoint
\* queue, add @lba as a revoked block to the transaction"). False: the record of the
\* block names only the last transaction that changed it, so an older copy that is
\* written, while its transaction waits for other blocks, is passed over when the
\* freeing transaction changed the block first, or one that was aborted did.
FreedIsRevoked ==
  [][\A b \in Pool : (Free(b) /\ InLog(b)) => b \in m'.cur.revokes]_vars

LogHasRoom == (m.up /\ m.cp # <<>>) => m.last # m.start

TagsEnd ==
  \A i \in DOMAIN media.log :
    LET tags == media.log[i].tags
    IN media.log[i].type = "desc" =>
         /\ Len(tags) = TagsPerBlock \/ Last(tags).last
         /\ \A k \in DOMAIN tags : tags[k].last => k = Len(tags)

\* The log does not close on the transactions it still has to keep (the assertion
\* of jbd_journal_alloc_block), and each descriptor can be walked: the last flag
\* is on its last tag or it is full (jbd_journal_prepare, jbd_iterate_block_table).
LogSound == LogHasRoom /\ TagsEnd

Store == INSTANCE TxnStore WITH States <- [Pool -> Values \cup {Junk, "free"}]

\* Every history of the journal, crashes included, is one of a store that
\* changes by whole transactions and keeps those whose commit returned
\* (jbd_journal_commit_trans, jbd_recover).
KeepsTransactions == Store!Spec

=============================================================================
