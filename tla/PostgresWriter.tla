---------------------------- MODULE PostgresWriter ----------------------------
(****************************************************************************)
(* PostgresWriter (engine/persistence): threads call begin_run, write_trade,*)
(* end_run and flush; every call pushes a command on a queue under a mutex  *)
(* and notifies after the unlock; one writer thread executes the commands   *)
(* against the database.  Flush and Shutdown are sentinels in that queue.   *)
(*                                                                          *)
(* The database is external: connecting may fail, and so may any statement. *)
(* The code logs that and goes on.  A build without libpq is the one whose  *)
(* connection always fails.                                                 *)
(****************************************************************************)
EXTENDS Integers, Sequences

CONSTANTS
    Callers,      \* the threads that share the writer
    MaxWrites     \* bound on the writes issued

ASSUME WriterAssumption == MaxWrites \in Nat

VARIABLES
    queue,        \* queue_
    writer,       \* "connecting", "looking", "asleep", "busy" or "stopped"
    cmd,          \* the command the writer thread works on
    conn,         \* conn_: "none", "open" or "closed"
    pc, call,     \* each thread: where it is, and its last command
    done,         \* the flag a flush() polls
    runIds,       \* what begin_run has returned
    issued,       \* history: the writes in the order of their push
    settled,      \* history: how many of them the writer is done with
    lost,         \* history: those that had no effect
    db            \* the writes that took effect, in the database's order

callerVars == <<pc, call, done, runIds>>
vars == <<queue, writer, cmd, conn, callerVars, issued, settled, lost, db>>

Writes == {"BeginRun", "Trade", "EndRun"}
Kinds == Writes \cup {"Flush", "Shutdown"}

\* no: how many writes have been issued up to this command, itself included;
\* the number of a BeginRun also is the id of its run.
Cmd == [kind : Kinds, by : Callers, run : Nat, no : Nat]

Connected == conn = "open"

Idle(c) == [kind |-> "Flush", by |-> c, run |-> 0, no |-> 0]

Init ==
    /\ queue = <<>>
    /\ writer = "connecting"
    /\ cmd \in {Idle(c) : c \in Callers}
    /\ conn = "none"
    /\ pc = [c \in Callers |-> "idle"]
    /\ call = [c \in Callers |-> Idle(c)]
    /\ done = [c \in Callers |-> FALSE]
    /\ runIds = {}
    /\ issued = <<>> /\ settled = 0 /\ lost = {} /\ db = <<>>

----------------------------------------------------------------------------
(* The callers                                                              *)

\* Mutants: a sentinel, or everything, is served before what is waiting.
PushSentinelFirst(q, m) ==
    IF m.kind \in Writes THEN Append(q, m) ELSE <<m>> \o q
PushFirst(q, m) == <<m>> \o q

Push(q, m) == Append(q, m)

Destroying == \E c \in Callers : call[c].kind = "Shutdown"

\* The destructor may run only when no other call does, and nothing may be
\* called after it.
Enqueue(c, kind, run, no) ==
    LET m == [kind |-> kind, by |-> c, run |-> run, no |-> no] IN
    /\ pc[c] = "idle" /\ ~Destroying
    /\ queue' = Push(queue, m)
    /\ call' = [call EXCEPT ![c] = m]
    /\ pc' = [pc EXCEPT ![c] = "pushed"]
    /\ UNCHANGED <<writer, cmd, conn, runIds, settled, lost, db>>

Write(c, kind, run) ==
    /\ Len(issued) < MaxWrites
    /\ Enqueue(c, kind, run, Len(issued) + 1)
    /\ issued' = Append(issued, [kind |-> kind, run |-> run])
    /\ UNCHANGED done

\* gen_uuid_v4 never returns an id twice.
BeginRun(c) == Write(c, "BeginRun", Len(issued) + 1)
WriteTrade(c) == \E r \in runIds : Write(c, "Trade", r)
EndRun(c) == \E r \in runIds : Write(c, "EndRun", r)

Flush(c) ==
    /\ Enqueue(c, "Flush", 0, Len(issued))
    /\ done' = [done EXCEPT ![c] = FALSE]
    /\ UNCHANGED issued

Destroy(c) ==
    /\ \A d \in Callers : pc[d] = "idle"
    /\ Enqueue(c, "Shutdown", 0, Len(issued))
    /\ UNCHANGED <<done, issued>>

\* Where a thread goes on after its push.
After(m) == CASE m.kind = "Flush" -> "spinning"
              [] m.kind = "Shutdown" -> "joining"
              [] OTHER -> "idle"

\* Mutant: only the push onto an empty queue bothers to wake the writer.
NotifyIfFirst(c) ==
    /\ pc[c] = "pushed"
    /\ writer' = IF writer = "asleep" /\ Len(queue) = 1 THEN "looking" ELSE writer
    /\ pc' = [pc EXCEPT ![c] = After(call[c])]
    /\ runIds' = IF call[c].kind = "BeginRun" THEN runIds \cup {call[c].run} ELSE runIds
    /\ UNCHANGED <<queue, cmd, conn, call, done, issued, settled, lost, db>>

\* cv_.notify_one(), after the mutex is released; begin_run then returns.
Notify(c) ==
    /\ pc[c] = "pushed"
    /\ writer' = IF writer = "asleep" THEN "looking" ELSE writer
    /\ pc' = [pc EXCEPT ![c] = After(call[c])]
    /\ runIds' = IF call[c].kind = "BeginRun" THEN runIds \cup {call[c].run} ELSE runIds
    /\ UNCHANGED <<queue, cmd, conn, call, done, issued, settled, lost, db>>

FlushReturns(c) ==
    /\ pc[c] = "spinning" /\ done[c]
    /\ pc' = [pc EXCEPT ![c] = "idle"]
    /\ UNCHANGED <<queue, writer, cmd, conn, call, done, runIds, issued, settled, lost, db>>

\* join(), then PQfinish.
Join(c) ==
    /\ pc[c] = "joining" /\ writer = "stopped"
    /\ pc' = [pc EXCEPT ![c] = "gone"]
    /\ conn' = IF Connected THEN "closed" ELSE conn
    /\ UNCHANGED <<queue, writer, cmd, call, done, runIds, issued, settled, lost, db>>

----------------------------------------------------------------------------
(* The writer thread                                                        *)

Connect ==
    /\ writer = "connecting"
    /\ writer' = "looking"
    /\ conn' \in {"none", "open"}
    /\ UNCHANGED <<queue, cmd, callerVars, issued, settled, lost, db>>

\* wait() tests the predicate under the mutex it gives up when it sleeps.
Sleep ==
    /\ writer = "looking" /\ queue = <<>>
    /\ writer' = "asleep"
    /\ UNCHANGED <<queue, cmd, conn, callerVars, issued, settled, lost, db>>

SpuriousWakeup ==
    /\ writer = "asleep"
    /\ writer' = "looking"
    /\ UNCHANGED <<queue, cmd, conn, callerVars, issued, settled, lost, db>>

Take ==
    /\ writer = "looking" /\ queue # <<>>
    /\ cmd' = Head(queue)
    /\ queue' = Tail(queue)
    /\ writer' = "busy"
    /\ UNCHANGED <<conn, callerVars, issued, settled, lost, db>>

\* What is in the database; the UPDATE of EndRun needs the row of its run.
Stored == {db[k] : k \in 1..Len(db)}
Applies(m) == Connected /\ (m.kind = "EndRun" => m.run \in Stored)

\* Mutant: a statement that fails is tried once more, later.
ExecuteAgain ==
    /\ writer = "busy" /\ cmd.kind \in Writes
    /\ \/ Applies(cmd) /\ db' = Append(db, cmd.no) /\ writer' = "looking" /\ UNCHANGED lost
       \/ lost' = lost \cup {cmd.no} /\ UNCHANGED <<writer, db>>
    /\ settled' = settled + 1
    /\ UNCHANGED <<queue, cmd, conn, callerVars, issued>>

\* exec_begin_run, exec_end_run, exec_trade: nothing without a connection;
\* a statement that fails is only logged.
Execute ==
    /\ writer = "busy" /\ cmd.kind \in Writes
    /\ \/ Applies(cmd) /\ db' = Append(db, cmd.no) /\ UNCHANGED lost
       \/ lost' = lost \cup {cmd.no} /\ UNCHANGED db
    /\ settled' = settled + 1
    /\ writer' = "looking"
    /\ UNCHANGED <<queue, cmd, conn, callerVars, issued>>

Acknowledge ==
    /\ writer = "busy" /\ cmd.kind = "Flush"
    /\ done' = [done EXCEPT ![cmd.by] = TRUE]
    /\ writer' = "looking"
    /\ UNCHANGED <<queue, cmd, conn, pc, call, runIds, issued, settled, lost, db>>

Stop ==
    /\ writer = "busy" /\ cmd.kind = "Shutdown"
    /\ writer' = "stopped"
    /\ UNCHANGED <<queue, cmd, conn, callerVars, issued, settled, lost, db>>

WriterStep == Connect \/ Sleep \/ Take \/ Execute \/ Acknowledge \/ Stop

Continue(c) == Notify(c) \/ FlushReturns(c) \/ Join(c)

Next ==
    \/ \E c \in Callers :
          \/ BeginRun(c) \/ WriteTrade(c) \/ EndRun(c) \/ Flush(c) \/ Destroy(c)
          \/ Continue(c)
    \/ WriterStep \/ SpuriousWakeup

\* Threads that can run do so in the end, and the database answers; nobody
\* has to call anything, and nothing relies on a spurious wake-up.
Fairness == WF_vars(WriterStep) /\ \A c \in Callers : WF_vars(Continue(c))

Spec == Init /\ [][Next]_vars /\ Fairness

----------------------------------------------------------------------------
(* Properties                                                               *)

\* Threads, queue and histories stay within their types, and no more writes
\* are ever executed than were issued.
TypeOK ==
    /\ queue \in Seq(Cmd)
    /\ writer \in {"connecting", "looking", "asleep", "busy", "stopped"}
    /\ cmd \in Cmd
    /\ conn \in {"none", "open", "closed"}
    /\ pc \in [Callers -> {"idle", "pushed", "spinning", "joining", "gone"}]
    /\ call \in [Callers -> Cmd]
    /\ done \in [Callers -> BOOLEAN]
    /\ runIds \subseteq Nat
    /\ issued \in Seq([kind : Writes, run : Nat])
    /\ settled \in 0..Len(issued)
    /\ lost \subseteq Nat
    /\ db \in Seq(Nat)

\* When flush() is told to return, the writer is done with every write that
\* was pushed by any thread before it.  (Done with, not committed: the writes
\* in lost were executed without success, or without a connection.)
FlushSettles ==
    \A c \in Callers : call[c].kind = "Flush" /\ done[c] => settled >= call[c].no

\* The database holds, in the order of the pushes, exactly the settled writes
\* that were not lost: none is repeated, reordered or skipped.
StoredInOrder ==
    /\ \A j, k \in 1..Len(db) : j < k => db[j] < db[k]
    /\ Stored = (1..settled) \ lost

\* Whichever threads begin a run and write its trades, the database never
\* shows a trade or the end of a run whose row it does not have, unless the
\* INSERT of that row failed.
RunRowFirst == \A n \in Stored : issued[n].run \in Stored \cup lost

\* The destructor drains the queue: the writer stops with nothing left.
DrainedAtStop ==
    writer = "stopped" => queue = <<>> /\ settled = Len(issued)

\* flush(), the destructor and every other call return in the end; none waits
\* for a notification that was given while the writer was awake.
CallsReturn ==
    \A c \in Callers : pc[c] # "idle" ~> pc[c] \in {"idle", "gone"}
=============================================================================
