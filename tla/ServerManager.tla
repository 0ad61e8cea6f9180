--------------------------- MODULE ServerManager ---------------------------
(***************************************************************************)
(* server_manager of runtime.rs, the reader task it spawns for each child, *)
(* and the child itself, which is external.  Children are numbered in the  *)
(* order they are spawned.                                                 *)
(*                                                                         *)
(* mgr is where the manager is:                                            *)
(*   top      at the head of its loop     ready    it saw no shutdown       *)
(*   first    writing a lazy start's      serving  in the select            *)
(*            first message               writing  in writer.send()         *)
(*   cleanup  out of the inner loop       clear    the Reset event is sent  *)
(*   backoff  in sleep(backoff)           wedged   waiting for the mutex it *)
(*   done     returned                             holds                    *)
(***************************************************************************)
EXTENDS MuxState

VARIABLES
  mgr,       \* where server_manager is
  gen,       \* the last child spawned, 0 before the first
  in_hand,   \* Option: the message taken from the queue and not yet written
  proc,      \* per child: "unborn", "alive" or "dead"
  reader,    \* per child: its reader task
  written    \* per child: the messages written to its stdin

managerVars == <<mgr, gen, in_hand, proc, reader, written>>

ManagerInit ==
  /\ mgr = "top"
  /\ gen = 0
  /\ in_hand = {}
  /\ proc = [k \in Children |-> "unborn"]
  /\ reader = [k \in Children |-> "off"]
  /\ written = [k \in Children |-> {}]

(* Mutant: the receiver outlives the manager.                               *)
ManagerReturns_KeepsReceiver ==
  /\ mgr' = "done"
  /\ UNCHANGED <<queue, queue_open>>

(* The manager returns and drops the receiver with what is queued.          *)
ManagerReturns ==
  /\ mgr' = "done"
  /\ queue' = <<>>
  /\ queue_open' = FALSE

(* `while !shutdown.is_cancelled()` of the inner loop.                      *)
InnerLoop == IF shutdown THEN "cleanup" ELSE "serving"

-----------------------------------------------------------------------------
(* Head of the loop.                                                        *)

StopAtTop ==
  /\ Running
  /\ mgr = "top"
  /\ shutdown
  /\ ManagerReturns
  /\ in_hand' = {}
  /\ UNCHANGED <<gen, proc, reader, written, muxVars, events, replies, mainVars>>

AwaitsFirst == LazyStart /\ restarts = 0 /\ in_hand = {}

(* Lazy start: the first message taken makes the manager spawn.             *)
TakeFirst ==
  /\ Running
  /\ mgr = "top"
  /\ ~shutdown
  /\ AwaitsFirst
  /\ queue # <<>>
  /\ in_hand' = {Head(queue)}
  /\ queue' = Tail(queue)
  /\ UNCHANGED <<mgr, gen, proc, reader, written, muxVars, queue_open, events, replies, mainVars>>

(* The last look at the shutdown token before the child is spawned: what    *)
(* comes next does not see one that is cancelled from here on.              *)
PassCheck ==
  /\ Running
  /\ mgr = "top"
  /\ ~shutdown
  /\ ~AwaitsFirst
  /\ mgr' = "ready"
  /\ UNCHANGED <<gen, in_hand, proc, reader, written, muxVars, queueVars, events, replies, mainVars>>

(* The restart limit: publish_status is called with the guard still held,   *)
(* and locks a mutex that is not reentrant.                                 *)
GiveUp ==
  /\ Running /\ LockFree
  /\ mgr = "ready"
  /\ MaxRestarts > 0 /\ restarts >= MaxRestarts
  /\ server_status' = "Failed"
  /\ child_pid' = {}
  /\ lock' = "server_manager"
  /\ mgr' = "wedged"
  /\ UNCHANGED <<gen, in_hand, proc, reader, written, tableVars, next_global_id, initVars,
                 restarts, queueVars, events, replies, mainVars>>

MayLaunch ==
  /\ Running /\ LockFree
  /\ mgr = "ready"
  /\ MaxRestarts = 0 \/ restarts < MaxRestarts

(* Mutant: the pid reported is read before the child is replaced.           *)
Launch_StalePid ==
  /\ MayLaunch
  /\ gen < MaxSpawns
  /\ gen' = gen + 1
  /\ proc' = [proc EXCEPT ![gen + 1] = "alive"]
  /\ reader' = [reader EXCEPT ![gen + 1] = "running"]
  /\ server_status' = "Running"
  /\ child_pid' = {gen}
  /\ mgr' = IF in_hand # {} THEN "first" ELSE InnerLoop
  /\ UNCHANGED <<in_hand, written, tableVars, next_global_id, initVars, restarts, lock,
                 queueVars, events, replies, mainVars>>

(* Spawning and reporting it are one step: nobody reads the status between. *)
Launch ==
  /\ MayLaunch
  /\ gen < MaxSpawns
  /\ gen' = gen + 1
  /\ proc' = [proc EXCEPT ![gen + 1] = "alive"]
  /\ reader' = [reader EXCEPT ![gen + 1] = "running"]
  /\ server_status' = "Running"
  /\ child_pid' = {gen + 1}
  /\ mgr' = IF in_hand # {} THEN "first" ELSE InnerLoop
  /\ UNCHANGED <<in_hand, written, tableVars, next_global_id, initVars, restarts, lock,
                 queueVars, events, replies, mainVars>>

(* spawn()? : the manager returns, no status is published, no Reset sent.   *)
SpawnFails ==
  /\ "spawn_error" \in Env
  /\ MayLaunch
  /\ ManagerReturns
  /\ in_hand' = {}
  /\ UNCHANGED <<gen, proc, reader, written, muxVars, events, replies, mainVars>>

-----------------------------------------------------------------------------
(* Serving.                                                                 *)

TakeMessage ==
  /\ Running
  /\ mgr = "serving"
  /\ queue # <<>>
  /\ in_hand' = {Head(queue)}
  /\ queue' = Tail(queue)
  /\ mgr' = "writing"
  /\ UNCHANGED <<gen, proc, reader, written, muxVars, queue_open, events, replies, mainVars>>

(* The child's pipe accepts the message.                                    *)
WriteMessage ==
  /\ Running
  /\ mgr \in {"first", "writing"}
  /\ proc[gen] = "alive"
  /\ written' = [written EXCEPT ![gen] = @ \cup in_hand]
  /\ in_hand' = {}
  /\ mgr' = InnerLoop
  /\ UNCHANGED <<gen, proc, reader, muxVars, queueVars, events, replies, mainVars>>

PipeBroken == proc[gen] = "dead" \/ (gen < MaxSpawns /\ "child_write_error" \in Env)

(* A failed write of the first message is only logged.                      *)
WriteFirstFails ==
  /\ Running
  /\ mgr = "first"
  /\ PipeBroken
  /\ in_hand' = {}
  /\ mgr' = InnerLoop
  /\ UNCHANGED <<gen, proc, reader, written, muxVars, queueVars, events, replies, mainVars>>

(* Mutant: the message is queued again for the next child.                  *)
WriteFails_Requeues ==
  /\ Running /\ LockFree
  /\ mgr = "writing"
  /\ PipeBroken
  /\ \E m \in in_hand : queue' = Append(queue, m)
  /\ in_hand' = {}
  /\ server_status' = "Failed"
  /\ mgr' = "cleanup"
  /\ UNCHANGED <<gen, proc, reader, written, tableVars, next_global_id, initVars, restarts,
                 child_pid, lock, queue_open, events, replies, mainVars>>

(* Mutant: logged, like that of the first message.                          *)
WriteFails_OnlyLogged ==
  /\ Running
  /\ mgr = "writing"
  /\ PipeBroken
  /\ in_hand' = {}
  /\ mgr' = InnerLoop
  /\ UNCHANGED <<gen, proc, reader, written, muxVars, queueVars, events, replies, mainVars>>

WriteFails ==
  /\ Running /\ LockFree
  /\ mgr = "writing"
  /\ PipeBroken
  /\ in_hand' = {}
  /\ server_status' = "Failed"
  /\ mgr' = "cleanup"
  /\ UNCHANGED <<gen, proc, reader, written, tableVars, next_global_id, initVars, restarts,
                 child_pid, lock, queueVars, events, replies, mainVars>>

(* child_wait completes: the child exited, or wait() itself failed.         *)
ChildWaitDone ==
  /\ Running
  /\ mgr = "serving"
  /\ proc[gen] = "dead"
  /\ mgr' = "cleanup"
  /\ UNCHANGED <<gen, in_hand, proc, reader, written, muxVars, queueVars, events, replies, mainVars>>

WaitFails ==
  /\ "wait_error" \in Env /\ gen < MaxSpawns
  /\ Running /\ LockFree
  /\ mgr = "serving"
  /\ server_status' = "Failed"
  /\ mgr' = "cleanup"
  /\ UNCHANGED <<gen, in_hand, proc, reader, written, tableVars, next_global_id, initVars,
                 restarts, child_pid, lock, queueVars, events, replies, mainVars>>

StopServing ==
  /\ Running
  /\ mgr = "serving"
  /\ shutdown
  /\ mgr' = "cleanup"
  /\ UNCHANGED <<gen, in_hand, proc, reader, written, muxVars, queueVars, events, replies, mainVars>>

-----------------------------------------------------------------------------
(* Mutant: the router is not told.                                          *)
Cleanup_NoReset ==
  /\ Running
  /\ mgr = "cleanup"
  /\ reader' = [reader EXCEPT ![gen] = IF @ = "running" THEN "aborting" ELSE @]
  /\ mgr' = "clear"
  /\ UNCHANGED <<gen, in_hand, proc, written, muxVars, queueVars, events, replies, mainVars>>

(* Cleanup.  child_wait.abort() drops the Child without killing it, and     *)
(* reader_task.abort() only asks the reader to stop.                        *)
Cleanup ==
  /\ Running
  /\ mgr = "cleanup"
  /\ reader' = [reader EXCEPT ![gen] = IF @ = "running" THEN "aborting" ELSE @]
  /\ events' = Append(events, Reset(gen))
  /\ mgr' = "clear"
  /\ UNCHANGED <<gen, in_hand, proc, written, muxVars, queueVars, replies, mainVars>>

(* Mutant: the pid is left to the router's reset.                           *)
Clear_KeepsPid ==
  /\ Running /\ LockFree
  /\ mgr = "clear"
  /\ cached_initialize' = {}
  /\ initializing' = FALSE
  /\ IF shutdown
     THEN /\ server_status' = "Stopped"
          /\ ManagerReturns
          /\ UNCHANGED restarts
     ELSE /\ server_status' = "Restarting"
          /\ restarts' = restarts + 1
          /\ mgr' = "backoff"
          /\ UNCHANGED queueVars
  /\ UNCHANGED <<gen, in_hand, proc, reader, written, tableVars, next_global_id, lock,
                 child_pid, events, replies, mainVars>>

Clear ==
  /\ Running /\ LockFree
  /\ mgr = "clear"
  /\ cached_initialize' = {}
  /\ initializing' = FALSE
  /\ child_pid' = {}
  /\ IF shutdown
     THEN /\ server_status' = "Stopped"
          /\ ManagerReturns
          /\ UNCHANGED restarts
     ELSE /\ server_status' = "Restarting"
          /\ restarts' = restarts + 1
          /\ mgr' = "backoff"
          /\ UNCHANGED queueVars
  /\ UNCHANGED <<gen, in_hand, proc, reader, written, tableVars, next_global_id, lock,
                 events, replies, mainVars>>

SleepBackoff ==
  /\ Running
  /\ mgr = "backoff"
  /\ mgr' = "top"
  /\ UNCHANGED <<gen, in_hand, proc, reader, written, muxVars, queueVars, events, replies, mainVars>>

ManagerNext ==
  \/ StopAtTop \/ TakeFirst \/ PassCheck \/ GiveUp \/ Launch \/ SpawnFails
  \/ TakeMessage \/ WriteMessage \/ WriteFirstFails \/ WriteFails
  \/ ChildWaitDone \/ WaitFails \/ StopServing
  \/ Cleanup \/ Clear \/ SleepBackoff

-----------------------------------------------------------------------------
(* The child and its reader task.  Every child but the last may exit, so    *)
(* that the bound MaxSpawns never leaves the manager without a next child.  *)
ChildExits(k) ==
  /\ proc[k] = "alive"
  /\ k < MaxSpawns
  /\ proc' = [proc EXCEPT ![k] = "dead"]
  /\ UNCHANGED <<mgr, gen, in_hand, reader, written, muxVars, queueVars, events, replies, mainVars>>

(* The reader forwards an answer, which a child may give more than once. It *)
(* may sit in the pipe after the child died, and in the reader's hands      *)
(* after the manager asked it to stop.                                      *)
ChildResponds(k, m) ==
  /\ Running
  /\ reader[k] \in {"running", "aborting"}
  /\ m \in written[k] /\ m.seq > 0
  /\ Len(events) < MaxEvents
  /\ events' = Append(events, Response(k, m))
  /\ UNCHANGED <<managerVars, muxVars, queueVars, replies, mainVars>>

(* stdout closed, a frame that does not decode, or the abort takes effect.  *)
ReaderEnds(k) ==
  /\ Running
  /\ \/ reader[k] = "aborting"
     \/ reader[k] = "running" /\ (proc[k] = "dead" \/ "reader_error" \in Env)
  /\ reader' = [reader EXCEPT ![k] = "stopped"]
  /\ UNCHANGED <<mgr, gen, in_hand, proc, written, muxVars, queueVars, events, replies, mainVars>>

ChildNext(k) ==
  \/ ChildExits(k)
  \/ \E m \in written[k] : ChildResponds(k, m)
  \/ ReaderEnds(k)
=============================================================================
