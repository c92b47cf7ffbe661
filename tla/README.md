# Formal models of FrobTADS

FrobTADS plays text adventures written in TADS 2 and TADS 3. It holds two virtual machines
(`src/tads2`, `src/tads3`), the TADS 3 compiler and a curses front end (`src/src`). This
directory models the part of it whose correctness no player can check and no test reaches
easily: the state of a game as the virtual machines keep it, take it back (undo), collect it
(garbage collection), save and restore it, and swap it out; and the threads of the TADS 3 network
server, with the event objects they wait on.

The models are written from the code. Every definition that stands for code is listed with
its lines in `PROJECT.json` (`map`); `hazards` there lists what can go wrong and which
property would notice; `findings` lists where the code and its own comments disagree.

## 1. The system and its parts

| Part | Code | State | Operations | Modelled |
|---|---|---|---|---|
| Undo manager | `tads3/vmundo.cpp` | a fixed circular array of slots, pointers to the oldest and current savepoint and to the next free slot, counters | create and drop savepoints, add a record, undo, drop everything, two calls from the collector | `UndoLog`, all of it |
| TadsObject | `tads3/vmtobj.cpp` | property entries with the flags "modified" and "has undo", the object's own "modified" flag | `set_prop`, `apply_undo`, `notify_new_savept`, `mark_refs`, `reset_to_image`, finalizer call | in `UndoLog`; the finalizer call in `ObjGC` |
| Object table and collector | `tads3/vmobj.cpp`, `vmobj.h` | pages of entries; free list, work queue, finalizer queue; reachability and finalization state of every entry | allocate, delete, the passes of the collector, run finalizers, save, restore, reset | `ObjGC`; as one step in `UndoLog` |
| Saving and restoring | `tads3/vmsave.cpp`, `vmobj.cpp` | table of contents, ID fixups | `save`, `restore` | `SaveRestore`; `save`'s use of the collector's marks in `ObjGC` |
| Post-load initialisation | `tads3/vmobj.cpp` | hash table of requests with a status each | request, remove, `ensure_post_load_init`, `do_all_post_load_init` | `SaveRestore` |
| LookupTable and other collections | `tads3/vmlookup.cpp`, `vmvec.cpp`, `vmdict.cpp`, ... | hash chains, weak values, undo records keyed by element | set, remove, iterate, apply undo, drop stale weak references | in `SaveRestore`: how WeakRefLookupTable and Dictionary save, restore and initialise; in `ObjGC` the weak reference |
| Variable-size heap | `tads3/vmobj.cpp` | blocks with free lists, one per size class | allocate, free, reallocate | no |
| Interpreter, stack, exceptions | `tads3/vmrun.cpp`, `vmstack.cpp` | stack, registers, frames | byte-code instructions | as "the program": any access it can make |
| Image loader, pools | `tads3/vmimage.cpp`, `vmpool.cpp` | code and constant pages | load once | its result is `Init` |
| Event objects | `tads3/unix/osnetunix.h`, `osnetunix.cpp` | a count under a mutex, a condition, a list of subscribed group events | `signal`, `reset`, `wait`, `test`, `multi_wait` | `OsEvent` |
| Network threads and message queue | `tads3/vmnet.*` | the list of server threads, the queue and its event, one completion event per request | listen, accept, read, post, get, flush, shut down | `HttpServer` |
| HTTP server built-ins | `tads3/vmhttpsrv.cpp`, `vmhttpreq.cpp`, `vmbifnet.cpp` | `completed`, background senders, the server's detached state | `getNetEvent`, replies whole, in chunks and in the background, `shutdown` | `HttpServer` |
| Reference counts | `tads3/vmrefcnt.*` | a counter per object | add, release | in `HttpServer` |
| Strings, numbers, dates, regular expressions, sorting | `tads3/vmstr.cpp`, `vmbignum.cpp`, `vmdate.cpp`, `vmregex.cpp`, `vmsort.cpp` | none of their own | pure functions | no |
| TADS 3 compiler | `tads3/tc*.cpp` | symbol tables, parse trees | translate once | no |
| TADS 2 undo | `tads2/obj.c` | a byte ring of records of different sizes | `objusav`, `objures`, `objundo`, `objulose` | no |
| TADS 2 memory cache and swap file | `tads2/mcm.c`, `mcs.c` | blocks in chunks, cache entries with locks and a use list, swap segments | lock, unlock, touch, allocate, reallocate, free, load, swap out and in, compact, revert | `SwapCache` |
| TADS 2 interpreter, fuses, daemons | `tads2/run.c`, `bif.c`, `execmd.c` | stack, fuse and daemon tables | run, set, remove, tick | no |
| TADS 2 parser, output, compiler | `tads2/vocab.c`, `output.c`, `prs.c`, ... | text buffers | language and layout | no |
| Front end | `src/*.cc` | curses windows | read keys, draw, timed input | no |

### How the parts interact

* The interpreter changes a property through `CVmObjTads::set_prop`, which asks the undo
  manager to remember the old value. The undo manager asks the object table (`is_obj_in_undo`)
  whether the object existed when the savepoint was set, and may throw away whole savepoints
  to find room while the caller is in the middle of its change.
* `savepoint()` calls `create_savept`, which calls back into every object
  (`notify_new_savept`) to clear its undo flags. `undo()` walks the array backwards and calls
  `apply_undo` of the owner of each record.
* An allocation may start a collection. The collector asks the undo manager twice: to mark the
  old values (they are roots) and, after the sweep, to forget the records of owners that are
  gone. It asks every object with weak references to drop those to objects about to go.
* The collector ends by running finalizers. These are ordinary program code: they may allocate,
  change properties, bring objects back to life, and collect again, all while the pass that
  runs them has not returned.
* `save` collects first, then uses the collector's queue and marks to find what to write, and
  must leave both as it found them. RESTART and RESTORE drop the undo list, then reset every
  image object.
* RESTORE reads new objects into the table while the old ones are still there, with the collector
  off, and translates every reference in the file. RESTORE and RESTART end with post-load
  initialisation, which runs initialisers in the order of a hash table; they ask for one another
  and call the program.
* In the network build, a listener thread starts a thread for every connection. These hand requests
  to the interpreter's thread through a message queue and wait, each on an event of its request,
  until the program has replied; a reply may be sent by yet another thread. Requests and threads
  are kept alive by reference counts. All of them wait with `multi_wait`, for their event or for
  the shutdown of the server. Everything else runs in one thread.
* The TADS 2 interpreter reaches every object through `mcmlck`, which may have to make room by
  moving or swapping out any object that is not locked.

### What makes it hard

Undo is a structure of untagged slots that only its own links give meaning to; capacity runs
out in the middle of other operations; stale flags mean lost undo records; object IDs are used
again. The collector threads three lists through one field, changes marks while other code
reads them, and calls the program back. Saving borrows its marks. Restoring mixes the IDs of two
sessions. The TADS 2 machine adds a memory whose blocks move under the program, and a swap file
that is compacted and renumbered behind its back. The network code has real threads: signals
between a test and a wait, a shutdown at any moment, two threads that let go of the same object.
`PROJECT.json` lists these as hazards, each at its line.

### What correct means

* Undo manager: a savepoint that is kept can be restored exactly; a savepoint that cannot is
  dropped; the chain of links matches the array; walks end.
* TadsObject: undo applies records in an order its entry array allows.
* Collector: it frees nothing that is referenced, keeps no garbage, calls each finalizer once
  before it frees, forgets every weak reference in time, and leaves the conditions the next
  pass starts from.
* Save and restore: what comes back is what was saved, under new IDs and with nothing of the old
  session in it; every object is initialised once, after those it needs.
* Events: no signal is slept through, no thread is left asleep while its event is up, no link to
  a stack variable outlives it.
* Network: no message is lost or delivered twice, replies do not mix on a socket, reference counts
  are exact, nobody waits for ever.
* TADS 2 cache: an object moved, resized or read back from swap is the one last written; a locked
  object stays where it is; an allocation fails only when there is no room.
* TADS 2 undo: the ring of undo records stays consistent.

## 2. The modules

| Module | What it is |
|---|---|
| `UndoLog` | the undo manager, the property setter and undo flags of TadsObject, and the collector's two calls into the undo list |
| `UndoSpec` | the promise: a bounded stack of snapshots |
| `UndoRefinement` | the refinement mapping from `UndoLog` to `UndoSpec` |
| `UndoLogMC` | instances and views for TLC |
| `UndoLogProofs` | theorems about the array of `UndoLog` and its chain |
| `UndoRestoreProofs` | theorems about what the records of `UndoLog` are worth; extends `UndoLogProofs` |
| `UndoRefinementProofs` | the proof that `UndoLog` implements `UndoSpec`; extends `UndoRefinement` and `UndoRestoreProofs` |
| `ObjGC` | the object table: allocation, a whole collection, finalizers, weak references, saving |
| `ObjGCMC` | a view for TLC |
| `ObjGCProofs` | theorems about `ObjGC` |
| `SaveRestore` | SAVE, RESTORE and RESTART with ID fixups and post-load initialisation; references over two sessions |
| `SaveRestoreMC` | image files and a view for TLC |
| `SaveRestoreProofs` | theorems about `SaveRestore` |
| `EventSpec` | the promise of the event objects: counts, waits, timeouts |
| `OsEvent` | the event objects on POSIX threads, with `multi_wait`; implements `EventSpec` |
| `OsEventMC` | an instance for TLC |
| `OsEventProofs` | theorems about `OsEvent`, the refinement among them |
| `HttpServer` | listener, server threads, background senders, the message queue and the built-ins of the program's thread, over events as in `EventSpec` |
| `HttpServerMC` | an instance for TLC |
| `HttpServerProofs` | theorems about `HttpServer` |
| `SwapCache` | the TADS 2 memory cache and its swap file |
| `SwapCacheMC` | an instance and a view for TLC |
| `SwapCacheProofs` | theorems about `SwapCache` |

Definitions marked "mutant of X" are deliberately wrong variants of the definition that follows
them, each the kind of mistake a maintainer could make. `PROJECT.json` (`mutants`) pairs each
property with one; with X replaced by it TLC finds that property violated. No module uses them.

### UndoLog

| Model | Code |
|---|---|
| `undo` (a record) | the fields of `CVmUndo`: `rec_arr_`, `cur_first_`, `oldest_first_`, `next_free_`, `savept_cnt_`, `cur_savept_` |
| `Link`, `Rec`, `Free` | the two arms of the union `CVmUndoMeta`; a slot never written. The code does not store which arm is meant; the model does, so that a walk that confuses them can be seen |
| `meta` | the pointer with which `undo_to_savept` walks backwards |
| `val`, `added`, `mod`, `prop_undo`, `obj_mod` | the property entries of a TadsObject, their order in the entry array, and its flags |
| `in_undo`, `inuse` | `in_undo_` and `!free_` of the object table's entries |
| `held` | what the VM stack, R0 and the globals refer to |
| `snap` | history: what each savepoint saw |
| `Savepoint`, `UndoBegin`, `UndoStep`, `UndoFinish` | `savepoint()`; `undo()` and its loop, one record a step |
| `SetProp` | `set_prop` with `mark_modified`: up to three records, any of which may drop savepoints |
| `Create`, `Release`, `Collect`, `ResetToImage` | allocation, the program letting go, a complete collection, RESTART |

`DropOldest`, `CreateSavept`, `AddRecord`, `PopSavept` and `EraseOwners` are functions from the
old `undo` to the new one, one for each method of `CVmUndo`. `alloc_rec`'s retry loop appears as
`WithRoom`: theorem `OneDropMakesRoom` shows it runs at most once.

Abstracted: values are objects, nil or "absent"; the kind of key of a record (property, index,
pointer) is not told apart; inheritance plays no part in undo. `discard_undo` does nothing for a
TadsObject. The collection is one step here because none of it runs between two steps of the
undo manager; `ObjGC` takes it apart.

### UndoSpec and the refinement

`UndoSpec` knows objects, their states and a stack of snapshots. It allows exactly what the
documentation of `savepoint()` and `undo()` allows: old snapshots disappear from the bottom, at
any time something is recorded; undo takes the top one and restores every object in it that
still exists. The mapping lets an undo take effect when the walk starts: in the middle of a
walk an object's abstract state is what the remaining records will make of it. That is why the
property `UndoRestores` speaks of every moment, also of the middle of a walk.

### ObjGC

| Model | Code |
|---|---|
| `free`, `reach`, `fin` | `free_`, `reachable_`, `finalize_state_` of the entries |
| `next_obj`, `prev_free` | `next_obj_`, `ptr_.prev_free_` |
| `first_free`, `gc_queue_head`, `finalize_queue_head` | the heads of the three lists that share `next_obj_` |
| `strong`, `weak` | one ordinary and one weak reference of each object |
| `stack`, `frames` | what stack, R0, imports and globals refer to; finalizers that are running |
| `undo_rec` | one undo record, standing for the list: its owner is weak, its old value is a root |
| `pc`, `scan`, `saving` | where the VM is: program, tracing, sweep, finalizers, saving; the entry of a scan |
| `calls` | history: finalizer calls per object |
| `AllocObj`, `SetStrong`, `SetWeak`, `Release`, `ApplyUndo` | the program, in the main line or in a finalizer |
| `GcBegin`, `TraceOne`, `Classify`, `SweepBegin`, `SweepOne`, `CleanUndo`, `RunFinalizer`, `FinalizerReturns`, `GcEnd` | `gc_pass_init`, `gc_pass_continue` by object, the scans of `gc_pass_finish` (the second by entry), `run_finalizers`, the return |
| `SaveBegin`, `SaveScanBegin`, `SaveOne`, `SaveEnd` | `CVmObjTable::save` |

`AddToGcQueue` is `add_to_gc_queue` called for a set of objects in the order of their IDs. It is
in closed form instead of a recursion so that it can be proved about.

Abstracted: the table is one page (an empty free list stops allocation; the code would add a
page); image objects cannot have finalizers pending when loaded; the globals are part of
`stack`, since both are only roots; an image file's imports are root objects.

### SaveRestore

| Model | Code |
|---|---|
| `kind`, `free`, `trans`, `changed` | entries of the object table; the free list in its order; `transient_`; `is_changed_since_load()` |
| `ref`, `weak` | a property, comparator or key; a word of a Dictionary or a value of a WeakRefLookupTable |
| `reg`, `status`, `calls` | `post_load_init_table_`, the status of its entries, the initialisers running |
| `ready` | objects whose cached pointers to other objects are valid |
| `file`, `todo`, `fixups` | the saved state; what is still to be read of it; `CVmObjFixup` |
| `target`, `inits`, `failed` | history: the game that should come back, initialisations per object |
| `Save` | `CVmObjTable::save` after its collection: table of contents, records |
| `Restore`, `ReadTocEntry`, `TocRead`, `ReadObject`, `ObjectsRead` | `CVmSaveFile::restore` and `CVmObjTable::restore`, an entry or record a step |
| `Restart` | `reset()` |
| `Found`, `Reach` | what is found by following references, in rounds; there are more rounds than objects |
| `Ascending`, `Descending` | the lists the loops over the table make: `save` writes the IDs in order; the sweep pushes dead entries on the free list |
| `Walk`, `Ensure`, `CircularInit`, `Compare`, `EndInit`, `LoadEnds` | `do_all_post_load_init`, `ensure_post_load_init`, a comparator's method called by a Dictionary's initialiser, the end |
| `Collect` | a collection by any allocation, while `gc_enabled_` |

A record may be unreadable in two ways the model keeps: a Dictionary writes a word's text before it
knows whether an object of the word is saved (`stray`), and `find_entry` has no end for an ID below
the first (`Searchable`). After either, what the code reads is undefined, so the model stops there,
and `FileReadable` says it never comes to that.

Abstracted: the walk's order is arbitrary (the code's is that of a hash table); one reference and
one weak reference per object; a comparator's method only allocates.

### EventSpec and OsEvent

| Model | Code |
|---|---|
| `cnt`, `mutex`, `subs` | `OS_Event::cnt`, its mutex, the list `sub_head ... sub_tail` |
| `group` | the count of a `multi_wait`'s `group_evt`; the thread's name stands for the event |
| `pc`, `objs`, `idx`, `timed`, `ret` | a thread's call: phase, list, `i`, whether a timeout was given, value |
| `sig`, `todo`, `waking` | a signaler's place in `signal()`: under the mutex, subscribers left, before `pthread_cond_signal` |
| `SignalLock`, `SignalSub`, `SignalUnlock`, `CondSignal`, `Reset` | `signal()`, in the steps another thread can see, and `reset()` |
| `Wait`, `EvtWait`, `EvtTimeout`, `Spurious`, `EvtTest` | `OS_Waitable::wait`, `evt_wait` round its loop, `test` |
| `MultiWait`, `Subscribe`, `Scan`, `GroupWait`, `GroupTimeout`, `GroupLate`, `Unsubscribe` | `OS_Waitable::multi_wait`, an object a step |

A step is what happens under one lock of an event's mutex. `signal()` holds its mutex while it
signals the subscribers and sets the condition only after letting go; both are kept. So are the
spurious ends of condition waits, and a consequence of the code's reading `errno` where the pthread
functions do not set it: a thread whose `errno` is still EINTR from an earlier call (`Interrupted`)
does not leave a timed wait before its event is up, and then reports the timeout all the same
(`EvtTimeout`, `GroupLate` and `GroupTimeout`).

`EventSpec` is what callers rely on: signals are counted; a wait ends with an event that is up
at that very moment, and consumes it if it is auto-reset, or with a timeout. In the mapping a
`multi_wait` ends when its scan finds an event; unsubscribing comes after the end.

### HttpServer

| Model | Code |
|---|---|
| `shutdown`, `pending`, `lpc`, `joined` | the listener's `shutdown_evt`, its sockets, its thread |
| `servers`, `spc`, `asked`, `trefs` | the list of `TadsServerThread`s, what each does, requests read, reference counts |
| `queue`, `arrivals` | `TadsMessageQueue` and the count of its event |
| `refs`, `signaled`, `completed` | `TadsHttpRequest`: reference count, `ev`, `completed` |
| `sender` | how many threads of `sendReplyAsync` there are for a request, in each phase |
| `vpc`, `vreq`, `objects`, `server` | the program's thread in a built-in, the HTTPRequest and HTTPServer objects |
| `ListenerWakes` ... `ListenerJoined` | `TadsListenerThread::thread_main` |
| `AddThread` ... `ThreadExits` | `TadsServerThread::thread_main`, `process_request`, `sys_thread_cleanup` |
| `GetNetEvent`, `QueueEvent`, `QueueTimeout`, `GetMessage` | `getNetEvent` |
| `SendReply`, `SendChunk`, `SendReplyAsync` and what follows each | the reply methods |
| `doubled` | history: requests to which a reply was begun while one was being sent in the background |
| `Shutdown`, `CollectServer`, `CollectRequest`, `Terminate`, `Flush` | `shutdown()`, deletion by the collector, the end of the VM |

Composition: this module uses events as `EventSpec` describes them, one step for a signal and
one for the end of a wait, and `OsEventProofs!Implements` shows that `OsEvent` keeps that
description. What `EventSpec` leaves open - which of several events that are up ends a
`multi_wait` - is open here too. That a wait ends at all is the liveness property `WaitEnds` of
`OsEvent`: it holds for every `multi_wait`, and for a plain wait on an auto-reset event, and
these are the waits modelled here. The exception, two plain waiters on one manual-reset event, can
be met by `done_evt` of a thread that both the listener and a `shutdown(true)` join; the model
gives `done_evt` one waiter a thread, and section 5 names the case.

A message's reference is handed on, not copied, by most calls; the model adds and releases exactly
where the code does, and `RefsExact` compares the numbers with who holds a reference.

Abstracted: what is in a request; sockets and their errors, except that reading and sending may
fail; several listeners. `MaxBackground` bounds the background replies to a request.

Two things the code does not do are not done here either. The reply methods look at `completed`, which
a background sender sets at its end only, so the program may reply to a request again while its first
reply is being sent, and two threads write to one socket; `doubled` notes these requests and
`ReplyInTurn` excepts them. And an HTTPRequest does not keep its HTTPServer object: requests are made
as objects without references, so the collector does not trace the one they have, and `CollectServer`
has no guard. What `getServer` returns afterwards is not followed.

### SwapCache

| Model | Code |
|---|---|
| `heap` | the chunks: blocks in address order with owner and contents, in cells |
| `chunks`, `mapped`, `flags`, `locks`, `siz`, `loc`, `lru` | `mcmcxmax`; the handle table; `mcmoflg`, `mcmolcnt`, `mcmosiz`, `mcmoloc` of an entry; the LRU list |
| `seg`, `file`, `top`, `max` | the segment descriptors, the swap file's cells, `mcscxtop`, `mcscxmax` |
| `call` | the allocation in progress: `mcmalo0` for a new object, a load or a move, and its stage |
| `kept` | history: what the client last wrote |
| `Reserve`, `Allocate`, `Load`, `Reallocate`, `ReallocateAbsent` | `mcmrsrv`, `mcmalo`, `mcmlck` of an absent object, `mcmrealo` |
| `Lock`, `Unlock`, `Modify`, `FreeObject`, `Revert` | `mcmlck`, `mcmunlck`, `mcmtch`, `mcmfre`, `mcmrevert` |
| `HeapGrows`, `HeapRefused`, `CollectGarbage`, `Toss`, `SwapFull`, `SwapEnds`, `NoMemory` | the stages of `mcmalo0`: `mcmhalo`, `mcmgarb`, `mcmswap` object by object |
| `GrantNew`, `GrantLoad`, `LoadFails`, `GrantMove`, `Shrink`, `Annex`, `MustMove` | what the caller of `mcmalo1` does with the block; the cases of `mcmrealo` |
| `Unlink`, `Use`, `Garb`, `Stops` | `mcmunl`, `mcmuse`, `mcmgarb` and the blocks it does not move |
| `SwapOut`, `SwappedIn`, `Compact`, `Renumber` | `mcsout`, `mcsin`, `mcscompact`, `mcmcswf` |

`mcmgarb` and `mcscompact` are loops over the blocks and the segments. `Bubbled` and `Moved` give the
state of the loop after each round, as a function on the rounds, so that proofs can speak of
every round.

Memory and file hold what was written there, so that a block or segment that is moved, copied short
or mixed up with another shows as wrong contents. Writing the swap file always succeeds in the
model; reading may fail. That an object is locked while it is written is the client's part of
the contract of `mcmtch`, and is in the guard of `Modify`.

`mcmfre` does not look whether the object is in memory, and some of its callers do not either.
`FreeAbsent` says whether the program frees objects that are not. With `TRUE`, a swap segment stays in
use for nobody, which the run `swap_free` shows; what happens once the stale block on the free list
is given to somebody is not followed. Everything else is about programs that free objects in memory
only (`FreeAbsent = FALSE`, `FreesPresent` in the proofs).

## 3. What is checked

### Runs

| Run | Instance | Shows |
|---|---|---|
| `undo_ring` | 4 slots, 2 savepoints, a root and a dynamic object, one property | `TypeOK`, `ChainMatchesSlots`, `UndoRestores`, `NoDanglingRef` |
| `undo_entries` | 5 slots, 2 savepoints, one object with two properties not in the image | `WalkAssertionsHold`; `UndoTerminates` under fairness; `ImplementsSnapshotStack` |
| `gc_pass` | 3 objects: a root, two with finalizers, of which one refers to the other and holds weak references and the other refers to nothing; undo, save | `TypeOK`, `FreeListOK`, `NoDanglingRef`, `WeakRefsValid`, `OneQueue`, `ReadyForPass`, `PassCollects`, `FinalizedOnceThenDeleted`; `PassEnds` under fairness |
| `gc_nested` | 3 objects, a finalizer may collect | violated: `OneQueue` |
| `gc_save_fails` | 3 objects, writing may fail | violated: `NoDanglingRef` |
| `save_restore` | 6 IDs: a root TadsObject, a root Dictionary whose comparator it is, up to 2 dynamic TadsObjects at a time; 1 save, 2 loads | `TypeOK`, `RestoredGame`, `FileReadable`, `NoDanglingRef`, `ComparatorReady`, `InitOnce` |
| `save_weak` | 5 IDs: a root WeakRefLookupTable and a transient root object; saving at any time | violated: `RestoredGame` |
| `save_words` | 5 IDs: a root TadsObject and a root Dictionary whose comparator it is; saving at any time | violated: `FileReadable` |
| `os_event` | 2 waiters, 1 signaler, an auto-reset and a manual-reset event; one waiter with a stale EINTR | `TypeOK`, `NoLostSignal`, `EnoughWakeups`, `GroupEventAlive`, `ImplementsEvents`; `WaitEnds` under fairness |
| `http_server` | 2 connections, 3 requests: one answered in the background or whole, or both; one in chunks; one not at all | `TypeOK`, `RefsExact`, `EventCountsMessages`, `ReplyInTurn`; `EveryoneWakes` under fairness |
| `swap_cache` | 3 objects, a first chunk of 2 cells and another of 6, a swap file of 2 cells; only objects in memory are freed | `TypeOK`, `ContentsKept`, `SwapFileOK`, `LruFindsUnlocked`, `LockedStaysPut`, `NoMemoryWhenFull` |
| `swap_free` | the same, and any object may be freed | violated: `SwapFileOK` |

What the five violated properties mean is in `findings`: each is a sentence of the source that
the code does not keep.

* A finalizer that collects while another object waits for its finalizer puts that object into
  two lists that share a link. In instances of this size nothing dangles even then.
* A `save` that fails leaves its marks. A later pass deletes objects in use.
* A WeakRefLookupTable saves the weak value of an object that the saved game does not contain. The
  ID is not in the table of fixups, so after RESTORE it is taken as it is, and leads to whatever
  object of the new session has that ID.

* A Dictionary writes the text of a word before it finds that no object of the word is saved, and
  leaves it in the file. What is read after it is not what was written.
* `mcmfre` of an object that is swapped out does not give its segment back, and puts a block that
  is not its own any more on the free list.

`gc_pass` therefore assumes `MaxNested = 0` (finalizers do not collect) and `WriteMayFail = FALSE`;
`save_restore` assumes `SaveAnytime = FALSE` (the program saves only while nothing it holds weakly is
kept by the stack or a transient object alone: neither the weak value of `save_weak` nor the word
of `save_words` exists then); `swap_cache` assumes `FreeAbsent = FALSE`. The violated runs are the
same modules without one of these assumptions.

### Bounds, and why they are enough

* Four slots with two savepoints already give every relation between the pointers of the
  array: a savepoint that fills it, one that starts at its end, links that are neighbours,
  overflow in the first, second and third record of one `set_prop`, both ways of losing a
  savepoint (`max_savepts_` and no room). Five slots are used where two properties' records have
  to be in one savepoint. What the array's size could still hide is proved for all sizes (4).
* `SaveptMax` is 1 instead of 255: the number wraps at once. The real limits
  (`VM_SAVEPT_MAX`, array sizes) differ only in how long this takes.
* One property is enough for the rules about flags, which are per property; two are needed for
  the order of entries, which is why `undo_entries` has them.
* Two dynamic objects beside a root give chains, cycles, an owner that dies before its old
  value, and an ID used again. In `ObjGC` the ID order matters to the sweep and to
  the finalizer queue: objects 2 and 3 both have finalizers, one refers to the other and holds the weak
  references, so one may wait for its finalizer while the other's runs, and the scan passes holder and
  target one after the other. No dynamic object of the run is without a finalizer; the theorems cover
  these and every number of objects, four being too many for the run.
  In `undo_ring` one dynamic object gives a record that outlives its owner or its value.
* `MaxNested = 1` in `gc_nested` is the first nesting, which is enough to violate.
* `calls` stops at 2 ("more than one").
* `os_event`: one signaler is enough for a signal between any two steps of a waiter; two waiters
  are the least that can take an event from each other, or need the wake-up the other got.
  `MaxCount` lets the auto-reset event be up twice, one signal for each waiter; `MaxGroup = 1` keeps
  group counts small: a second signal before the first was consumed changes nothing but a number.
  All its properties but liveness are proved without bounds.
* `http_server`: a connection used twice gives the second request on a live thread, and a reply to
  the first that is still being sent in the background; the other gives two threads in the
  listener's list, and a request that nobody answers. Each way of replying occurs, and a second reply
  in the middle of a background one (`MaxBackground = 1`: one background sender a request; several are
  covered by the theorems), and with them every interleaving of a shutdown, the end of the program's
  objects and the end of the VM. `EveryoneWakes` is about shutdown only: that `getNetEvent` returns when
  there is a message is `EventCountsMessages` and the fairness of the VM's step.
* `swap_cache`: three objects - one that can be loaded from the game file, one that is resized, one
  of two cells - do not fit into memory together, so that moving, swapping, compaction (a new
  segment when the quota is used up but a hole is left) and running out of memory and of swap
  space all happen. `MaxLock` and `Versions` bound locks and contents per object.
* `save_restore`: two loads, so that the second meets what the first left; two dynamic objects
  beside a Dictionary give a comparator that is itself restored, an old ID that is a new ID of
  another object, and a circular request. `MaxWork` counts the program's changes over the whole
  behaviour.
* In `undo_ring` no object is transient. The theorems of `UndoLog` hold for every `TransientObj`.

Views. `LiveView` of `UndoLogMC` leaves out array slots outside the live part, the history kept
for them, and the savepoint number: no action reads any of these before writing it, so states
that agree on the rest have the same successors up to the view, and no property of those runs
reads them. `ListView` leaves out `next_obj_` of entries that are in no list. `CodeView` of
`SwapCacheMC` leaves out cells of the swap file in no segment in use and the swap handles of objects
in memory. `LoadView` of `SaveRestoreMC` leaves out the statuses and the history of a load while none
is running. `LiveView` of `HttpServerMC` leaves out the event of a request whose server thread no longer
waits for it, and `completed` and `doubled` of a request that the program cannot reply to any more.
All merge bisimilar states only, which is why they may be used with liveness as well.

`CHECK_DEADLOCK FALSE` stands in `HttpServer.cfg`, since the VM and all threads may end, and in
`SaveRestore.cfg`, `SaveWeak.cfg` and `SaveWords.cfg`, where the program may have used up its bounds.

### Fairness

`UndoLog!FairSpec` is weakly fair to the walk: it is a loop inside one call and nothing can
interrupt it. `ObjGC!FairSpec` is weakly fair to the collector, again a loop of one call, and to
the return of a finalizer: a game whose finalizer never returns hangs, and no collector can help
that. The program itself is not assumed fair: it may do nothing for ever.

`OsEvent!FairSpec` is strongly fair to a waiter's next step and to its deadline - a mutex that keeps
becoming free is got at some time, and time passes - and weakly fair to a signaler inside `signal()`.
Nobody has to call anything. `HttpServer!FairSpec` is weakly fair to the listener, to every server thread and to
the built-ins of the program's thread, each inside its own code. It assumes nothing of clients, of the
program between two calls, or of background senders, for which nobody waits. `SwapCache` and `SaveRestore` state no liveness: their loops are
bounded by the objects there are, and `SwapCache` is checked for deadlock.

## 4. What is proved

TLAPS checks the proofs for every value of the constants that the named assumptions allow:
`SizeAssumption` and `ObjAssumption` in `UndoLog` (the array has at least one slot, at least one
savepoint may be kept, there are finitely many objects), `TableAssumption` in `ObjGC` (root
objects are the lowest entries, and have no finalizers), `EventAssumption` in `OsEvent` (there are
finitely many threads, and no event is twice in a list given to `multi_wait`), `CacheAssumption` in
`SwapCache` (an object fits into a chunk, and a rest worth splitting off holds a block header),
`SaveAssumption` in `SaveRestore` (the image file's objects fit into the table and refer to one
another). The runs evaluate them.

| Theorem | Says |
|---|---|
| `UndoLogProofs!OneDropMakesRoom` | when the array is full, dropping the oldest of several savepoints frees a slot, so `alloc_rec` retries at most once |
| `UndoLogProofs!Invariance`, `TypeCorrect`, `ChainSafe` | the inductive invariant; `TypeOK`; `ChainMatchesSlots` |
| `UndoRestoreProofs!RecordsKept` | the inductive invariant of records, objects and flags |
| `UndoIsExact`, `ReferencesLive`, `WalkAsserts` | `UndoRestores`, `NoDanglingRef`, `WalkAssertionsHold` |
| `UndoRefinementProofs!Implements` | `ImplementsSnapshotStack`: `UndoLog` refines `UndoSpec` |
| `ObjGCProofs!TypeCorrect` | `TypeOK`, also with nested collections and failing writes |
| `ObjGCProofs!Invariance` | the inductive invariant |
| `FreeListCorrect`, `QueuesDisjoint`, `NoDangling`, `WeakRefsCorrect`, `AlwaysReady`, `NoGarbageLeft`, `FinalizersCorrect` | `FreeListOK`, `OneQueue`, `NoDanglingRef`, `WeakRefsValid`, `ReadyForPass`, `PassCollects`, `FinalizedOnceThenDeleted` |
| `SaveRestoreProofs!Invariance`, `TypeCorrect` | the inductive invariant; `TypeOK` |
| `GameRestored`, `FilesReadable`, `NoDangling`, `InitializedOnce`, `ComparatorsReady` | `RestoredGame`, `FileReadable`, `NoDanglingRef`, `InitOnce`, `ComparatorReady` |
| `OsEventProofs!Invariance`, `TypeCorrect` | the inductive invariant; `TypeOK` |
| `SignalsKept`, `GroupEventsAlive`, `WakeupsSuffice` | `NoLostSignal`, `GroupEventAlive`, `EnoughWakeups` |
| `OsEventProofs!Implements` | `ImplementsEvents`: `OsEvent` refines `EventSpec` |
| `HttpServerProofs!Inductive`, `TypesKept` | the inductive invariant; `TypeOK` |
| `RefCountsExact`, `EventMatchesQueue`, `RepliesInTurn` | `RefsExact`, `EventCountsMessages`, `ReplyInTurn` |
| `SwapCacheProofs!Invariance`, `TypeCorrect` | the inductive invariant; `TypeOK` |
| `ContentsSafe`, `SwapFileIntact`, `UnlockedFound`, `LockedStays`, `OutOfMemoryOnlyWhenFull` | `ContentsKept`, `SwapFileOK`, `LruFindsUnlocked`, `LockedStaysPut`, `NoMemoryWhenFull`; these and the two above under `FreesPresent` |

### UndoLog

The code stores links and records in one array without a tag, so everything rests on
`ChainMatchesSlots`: the slots of kind "link" between the oldest savepoint and the next free slot
are those the chain visits, in order, with back links that agree, `savept_cnt` of them, and
nothing live was never written. It is inductive once the types and one fact about the walk are
added: while a walk runs there is a savepoint to walk back to.

Slots are compared by `Off`, their distance from the oldest savepoint going round the array; the
first lemmas are the modular arithmetic of moving either end. Then there is one lemma for each
method of `CVmUndo` on the chain alone (`DropOldestOK`, `AddLinkOK`, `AddRecOK`, `PopSaveptOK`,
`EraseOwnersOK`, `StepBackOK`), and the actions cite them. `SetProp` is a sequence of up to three
`AddRecord`s, each of which may drop the oldest savepoint: the lemmas compose because each takes
a good chain to a good chain.

On top of the chain, `UndoRestoreProofs` shows what the records are worth. None of its three
properties can be had alone, and the invariant `UInv` says why:

* That an old value refers to an object that exists needs the collector, which holds the values of
  records but traces only those properties of an object that are flagged as modified; so a
  property that is not flagged must have a value of the image (`ObjectsOK`).
* An undo resets these flags, so a record whose old value is an object the program created must
  be for a property that stays flagged when it is put back (`ValuesOK`).
* A property that an undo takes away must be the last of the object's array, for each of several
  in turn: the added properties are at the end, in the order of their records (`AddedOK`).
* `set_prop` skips a property whose "has undo" flag is set. That is right only if the flag means
  that a record was made since the current savepoint and is still there, although `set_prop` may
  drop savepoints while it runs and the collector erases records (`SavesOK`).

`UndoRestores` is itself a part of the invariant: what a savepoint sees, the program's values
with the records rolled back, changes by no step. `Grown` says what a method of the undo manager
does to the records in one sentence (some of the oldest are lost, some new ones come at the end),
`RolledBack` and its kin what that does to the rolled-back values. The oldest record of a property
exists because records are ordered by `Off`, which is well-founded.

`UndoRefinementProofs` then shows that `UndoLog` implements `UndoSpec`: to the program the array,
its links and the walk are a stack of snapshots. It needs the two invariants and nothing new.

* The stack is defined by counting: the `n`th snapshot belongs to the link with `n - 1` links
  before it. `PosOK` shows that these positions are each taken once, `StackAt` that a link's snapshot
  is at its position.
* Every method keeps the last links and their order (`Top`: `DropTop`, `RoomTop`, `AddRecordTop`), so
  it takes snapshots from the bottom of the stack (`StackTop`); `create_savept` also puts one on top
  (`CreateSaveptTop`, `StackAppend`).
* An undo takes effect when `undo_to_savept` begins: from then on the mapped objects are what the
  remaining records make of them, and the savepoint is off the stack. `UndoRestores` says that this is
  the snapshot on top (`UndoBeginRefines`). A step of the walk applies one record and does not
  change what the records roll back to (`WalkRolled`), so the program sees nothing of it
  (`UndoStepRefines`), nor of the end of the walk, which drops a link that is already off
  (`UndoFinishRefines`).
* A collection takes the freed objects out of every snapshot (`CollectRefines`), and
  `SetProp` changes one object while old snapshots may be pushed out (`SetPropRefines`).

### ObjGC

The properties of the collector, the liveness property aside, are proved for every number of
objects, under the assumption `NoNestingNoFailure` (`MaxNested = 0`, no write fails). Without it
`OneQueue` and `NoDanglingRef` are false (`gc_nested`, `gc_save_fails`), and the others rest on them.

Lists and reachability are the same idea, the smallest set that following a field does not leave
(`Followed`), so no induction over paths is needed: to show that a list has no other members,
or that nothing else is reachable, give a set that the field does not leave; to show that a
list has all of them, take the least or the greatest one missing (`HasMin`, `MaxOfObj`).
`ChainPush` is `add_to_gc_queue` on a set of objects, `ChainPushOne` and `ChainPop` the push and
pop of one.

None of the properties is inductive. What the marks and lists mean depends on the phase, and the
invariant `IInv` says how:

* Outside a pass a mark is `InitMark`: set for root objects only, and the work queue is the set
  of root objects that can have references (`MarksOK`, `WorkChain`).
* While tracing, roots are marked, and a marked object that is not queued refers to marked
  objects only; everything marked is reachable from a root or an object waiting for its
  finalizer (`TraceOK`). When the queue is empty, "marked" is therefore "reachable".
* During the sweep the marks are reset as the scan goes. What replaces them is `Kept`: entries
  behind the scan that are still allocated, and marked entries ahead of it. No step of the sweep
  changes this set. It holds all roots and everything not finalized, is closed under ordinary
  references, and under weak ones behind the scan (`SweepOK`). `DeleteEntry` frees only what is
  not in it; `KeepEntry` drops only weak references, and every reference it keeps leads into it.
* Finalizers start only when the sweep has come to the end and `Kept` is everything allocated.
  The finalizer queue then holds exactly the objects waiting, and the calls counted agree with
  the finalization states (`FinalizeChain`, `CallsOK`).

`FinalizedOnceThenDeleted` is an action property: it follows from `IInv` in the states before and
after the step (`TracedAll`, `OnlyClassifyMakesFinalizable`, `OnlySweepFrees`).

### SaveRestore

The six properties are proved for a table of any size, any image file and any number of saves,
loads and objects, under the assumption `SavesInTime` (`SaveAnytime = FALSE`). Without it not even
the types can be had: a table may then save the ID of an object that the file does not contain
(`save_weak`), the program of the next session reads it as the ID of whatever object or free entry
has it by then, and stores it where it counts; or it may leave a word's text in the file
(`save_words`), after which nothing is known of what is read.

`IInv` has five parts, and none of them can be had alone:

* `FileOK`: what a file must be like for everything that comes later to go well. The saved game is closed
  under its references and all of it can be reached from the image file's objects (`GoodGame`); its
  table of contents has every dynamic object once, in order, and the transient ones (`GoodToc`); a
  record says what its object was, except that it may name a transient object where the game has
  nothing, and an object without a record is as in the image file (`GoodObjs`). The last needs
  `changed` in `TableOK`: an image file object that has not changed is what it was when loaded.
* `TableOK`: the free list is the free entries, nothing leads to them and they hold nothing. This is
  the state of both sessions at once, and it holds in the middle of a restore, too.
* `InitsOK`: the status of an entry agrees with the initialisers running and with the walk, and no
  object is forgotten: what has pointers to cache is ready or has asked (`Forgotten`).
* `LoadOK`: how far a restore has come. The fixups are the beginning of the table of contents, and give
  each dynamic object an entry of its own that is neither free nor of the image file (`FixupsOK`).
  An object of the game whose record is read, or that has none, is what it was, with
  every reference sent through `GetNewId` (`Rebuilt`); objects that have not asked for initialisation yet
  are those with a record to come.
* `RestoredGame` itself, since a collection before the first initialiser must not spoil it.

A collection changes no part of this (`Collected`, `CollectKeeps`), nor the game a save would
write now: what it frees cannot be reached (`GarbageIs`).

The heart is `PersistentRead`: when the last record is read, the objects that a save would trace are
those of the file under their new IDs. Each inclusion is shown by a set that following references
does not leave. The image file's objects with the new IDs are such a set in the new session, so
nothing of the old session is traced. The saved objects whose new ID is traced are such a set in the
saved game, and `GoodGame` says that a set like this has all of them. New IDs differ for different
objects (`NewIdIs`), so `SameGame` follows with `GetNewId` for the renaming (`GameRead`).
`FilesReadable` needs that the first fixup has the least old ID, and `ComparatorsReady` that the
dictionary's initialiser went on only after `ensure_post_load_init` had found its comparator
initialised (`Satisfied`).

`Reach` counts rounds, so that it is a function and not a recursive operator. That
`MaxId` rounds are enough is `FoundReach`: either a round finds nothing new, and then none after it does,
or there are more objects than entries. `AscendingIs` and `DescendingIs` say that the lists have every member
once; the `i`th member exists because ranks grow by one (`RankGrows`).

### OsEvent

`IInv` has one part for each group of variables. `CallOK` says what a waiter's local variables are
in each phase of its call; `SignalOK`, that a signaler holds the mutex of its event until it has
notified everybody; `SubsOK`, that the subscribers of an event are exactly the calls between
subscribing to it and unsubscribing, and that a signal is passed on to subscribers only. The last
holds although unsubscribing and signaling race: unsubscribing needs the mutex the signaler keeps
(`Holding`). `GroupEventAlive` follows at once. So does the heart of `NoLostSignal` (`LostStep`): a
thread that has found an event down is subscribed to it, so whoever raises the event afterwards has
the thread in `todo` before the mutex is free again, and each signal passed on raises the group
event, which only the thread itself takes down, and then starts its scan again.

`EnoughWakeups` is inductive over this. It compares numbers of threads, so its proof cites the
cardinality theorems of `FiniteSetTheorems`, one case for each step that moves a thread into or out of
one of the two sets it counts (`WokenStep`); all other steps satisfy one lemma (`StillWoken`).

The refinement (`StepRefines`) needs `CallOK` and the types only: locks, subscriptions and group
events are invisible in the mapping, and a step of one thread leaves the waits of the others alone
(`OthersWait`).

### HttpServer

The four properties (`TypeOK`, `RefsExact`, `EventCountsMessages`, `ReplyInTurn`) are proved for any number of
connections, requests and background replies to a request, any way of replying, failing reads and sends, and a shutdown at any moment. They do not follow from one another, but
rest on the same facts about who knows of a request:

* `RefsExact` compares a number with the size of a set and of places in the queue. When a message
  is taken out of the queue its reference goes to the HTTPRequest object; that the count stays
  exact needs that there was no such object yet (`QueueOK`). The message came from a server thread
  that made the request new, so nothing had been counted for it before (`NotAskedYet`).
* `ReplyInTurn` is about two threads that share no lock: until the reply is complete and the server
  thread has been woken, that thread waits for just this request (`TurnOK`, `Open`). Therefore it
  cannot have asked the next one, and another request of the same connection cannot be open. That one
  thread writes at a time needs that the program has not begun a second reply meanwhile, which is what
  `doubled` excepts: when a reply is begun and no sender is unfinished, this reply is the only one
  (`TurnStep`, `TurnKept`).
* `SenderSet` and the lemmas after it count the senders of a request in each phase, which `RefsExact`
  adds up.
* `PhasesOK` ties the listener's list, the requests read and the program's phase together.

`OccurrencesAppend`, `OccurrencesTail`, `RemoveFromList` and the lemmas on cardinality around them
are the facts about sequences that the counts need.

### SwapCache

The six properties are proved for any number of objects, of any sizes that fit, and for any sizes of
chunks, headers and swap file, as long as the program frees only objects in memory (`FreesPresent`);
`swap_free` shows what happens otherwise. They share one invariant, because no two of the three places an
object can be in - memory, swap file, load file - can be looked at alone:

* `ObjectsOK`: an object in memory has exactly one block, of its size, and no other object has one.
  What was written last is a beginning of that block, or of its segment; an object that is in neither
  was not written since it came from the load file.
* `SwapperOK`: the segments lie one behind the other and fill the file up to its top, and each one in use
  belongs to an object that is swapped out and whose handle leads back to it. The file's room and the
  room that is left make up the quota.
* `LruOK`: the unlocked objects in memory are all in the LRU list, once.
* `CallOK`: an allocation takes several steps, and what it was begun for is still true at the end. The
  object of a load is still absent, the one that is moved is locked, once, and is not larger
  than the new block.
* `GarbOK`: after `mcmgarb`, and until the next search, no two free blocks are neighbours.

A step changes a few neighbouring blocks and leaves the others in order, so most of the work is done
once, for the replacement of a stretch of the heap by another (`Changed`, `SpliceChanges`). Such a step
leaves another object's block, contents and place alone (`Undisturbed`): a place is counted from
the end of the heap, since a new chunk comes in front, and does not change as long as the stretch keeps
its total size (`RefilledPlaces`, `OthersKeepPlaces`). `QuietSteps`, `OneChanges` and `Settles` then take the invariant over the
step.

The two loops need more. `Upward` is induction over the rounds of a loop, stated with a set
instead of a predicate so that the provers can use it; it follows from the well-foundedness of the
natural numbers. `WalkExists` shows that a function defined round by round exists.

* `BubbleOK` is the invariant of `mcmgarb`: the objects' blocks seen so far are all there with what
  they held, the free ones add up to the same size, none of them lies beside another, and every stop - a
  locked block, the end of a chunk - is where it was. `Collecting` is what follows at the end of the
  heap, `CollectedPlaces` that locked objects keep their places.
* `MoveOK` is that of `mcscompact`: segments copied so far hold what they held, and those still to be
  copied lie at or behind the place written next, so a copy never overwrites what it has yet to
  read. The handle of an object whose segment was passed leads to its new number, every other handle
  is as it was (`MoveDrops`, `MoveKeeps`, `CompactIs`).

`LockedStaysPut` is proved together with the invariant (`NextKeeps`), since both need what a step does to
the blocks. `NoMemoryWhenFull` joins three parts: when `mcmalo0` gives up, nothing unlocked is left in
the list, so by `LruOK` every block in memory is locked; by `GarbOK` a gap between locked
blocks is a single free block; and the search has found none that is large enough (`NothingFits`,
`FullWhenNoMemory`).

### Only model-checked

* `UndoTerminates`, `PassEnds`, `WaitEnds` and `EveryoneWakes`: liveness under fairness is beyond
  this prover.


## 5. What is not modelled, and why

* Formats and wording: image, saved-state and resource files, text output, HTTP syntax,
  compilers, parsers. They are sequential translations, better tested than model-checked, and
  they are most of the code.
* The interpreter's instructions: the models let the program do anything it could do to the
  objects instead, which is more than any game does.
* The variable-size heap: its state is addresses.
* Real memory failure: the code ends the program.
* In `UndoLog` the undo records of collections other than TadsObject: the protocol is the same,
  the application of a record differs.
* In `ObjGC` a finalizer that saves the game, several pages, and a second undo record.
* In `SaveRestore` a restore from a file another program wrote, or one whose checksum is wrong:
  both are refused before anything changes.
* TADS 2 undo, the byte ring of `tads2/obj.c`; see the plan.
* In `SwapCache` errors of writing the swap file, entries of the cache running out, and what
  becomes of a stale block on the free list.

Behaviours met while reading that no run shows, because the models stop short of them:

* `OS_Event::signal` wakes one plain waiter also of a manual-reset event, though
  `osnetunix.h:385` says it releases all; the others wake at the next signal or not at all. The
  property `WaitEnds` excepts them.
* When the listener's own thread cannot be launched, `TadsListener::launch` lets go of it twice
  (`vmnet.cpp:509`); the model starts with the listener running. A failing `multi_wait` of `TadsMessageQueue`'s reader
  indexes its array with a negative number (`vmnet.cpp:181`).
* A background sender may post its result after the VM has flushed the queue; the message is then
  left in a queue that is deleted. `EventCountsMessages` speaks of the time before.
* The number of the current savepoint wraps differently up and down (`vmundo.cpp:420`, `104`);
  `get_cur_savept` has no caller.
* `mcsout` tries to use the old segment of an object again (`mcs.c:200`), but every caller marks the
  object dirty or passes no segment: the branch is dead. The model has it.
* `is_obj_deletable` says true of objects that were finalized earlier, came back to life and are in
  use, once the sweep has passed them and reset their marks (`vmobj.cpp:2254`), though its comment says
  they "can be deleted at any time" (`vmobj.h:1874`). Nothing dangles (`WeakRefsValid`), but weak
  references to and undo records of living objects are lost. The sweep of `ObjGC` does the same.
* A request does not keep its HTTPServer object: `CVmObjHTTPRequest` is created as an object without
  references (`vmhttpreq.cpp:134`), so the collector does not call its `mark_refs` (`vmhttpreq.cpp:195`).
  After the server has been collected, `getServer` (`vmhttpreq.cpp:342`) returns an ID that is free or
  belongs to another object.
* `sendReply`, or a second `sendReplyAsync`, after a `sendReplyAsync` that is still at work passes the
  check of `completed` (`vmhttpreq.cpp:2675`), and two threads write to one socket. The model allows it;
  `ReplyInTurn` excepts the request.

## 6. Plan

Done: `UndoLog`, `UndoSpec`, `UndoRefinement`, `ObjGC`, `SaveRestore`, `EventSpec`, `OsEvent`,
`HttpServer`, `SwapCache`, and the proofs of section 4. Next, in this order:

1. `GcSpec`: what a collection promises (some unreachable objects disappear, each after its
   finalizer); `ObjGC` implements it, and `UndoLog!Collect` and `SaveRestore!Collect` are its steps.
2. `Undo2`: the byte ring of TADS 2 undo (`tads2/obj.c`), against `UndoSpec`; the objects it restores
   live in the memory of `SwapCache`.
3. `LookupTable` with its undo records, weak values and iteration; `vmsort` against a reference
   sort.

Each new module gets one passing run (3 to 5 objects, messages or slots) and, where the code
allows, a theorem for its type invariant and its main safety property.
