------------------------ MODULE PostgresWriter_proofs ------------------------
(****************************************************************************)
(* Proofs about PostgresWriter.tla, for any number of threads and writes.   *)
(****************************************************************************)
EXTENDS PostgresWriter, SequenceTheorems, TLAPS

(* The inductive invariant                                                  *)

Counts(m) == IF m.kind \in Writes THEN 1 ELSE 0

\* How many writes have left the queue.
Served == IF writer = "busy" THEN settled + Counts(cmd) ELSE settled

\* The numbers of the commands on their way continue each other.
Numbered ==
    /\ Served <= Len(issued)
    /\ writer = "busy" => cmd.no = Served
    /\ queue = <<>> => Served = Len(issued)
    /\ queue # <<>> => /\ queue[1].no = Served + Counts(queue[1])
                       /\ queue[Len(queue)].no = Len(issued)
    /\ \A k \in 1..Len(queue) :
          /\ queue[k].no <= Len(issued)
          /\ k > 1 => queue[k].no = queue[k - 1].no + Counts(queue[k])

\* The thread that pushed a sentinel waits for it.
Waits(m) ==
    m.kind \notin Writes =>
        /\ call[m.by] = m /\ pc[m.by] # "idle"
        /\ m.kind = "Flush" => ~done[m.by]

SentinelsAwaited ==
    /\ \A k \in 1..Len(queue) : Waits(queue[k])
    /\ writer = "busy" => Waits(cmd)
    /\ \A c \in Callers : pc[c] = "spinning" => call[c].kind = "Flush"

\* A thread has at most one sentinel on its way.
OneSentinelEach ==
    /\ \A j, k \in 1..Len(queue) :
          j < k /\ queue[j].kind \notin Writes /\ queue[k].kind \notin Writes
              => queue[j].by # queue[k].by
    /\ writer = "busy" /\ cmd.kind \notin Writes =>
          \A k \in 1..Len(queue) : queue[k].kind \notin Writes => queue[k].by # cmd.by

\* Nothing is pushed behind a Shutdown.
ShutdownLast ==
    /\ \A k \in 1..Len(queue) : queue[k].kind = "Shutdown" => k = Len(queue)
    /\ writer = "busy" /\ cmd.kind = "Shutdown" => queue = <<>>
    /\ writer = "stopped" => queue = <<>> /\ Destroying

\* A run is known by the number of its BeginRun.
RunsIssued ==
    /\ \A n \in 1..Len(issued) : issued[n].run \in 1..n
    /\ runIds \subseteq 1..Len(issued)
    /\ \A c \in Callers : call[c].kind = "BeginRun" => call[c].run \in 1..Len(issued)

\* Only writes that were executed can have been lost.
LostSettled == lost \subseteq 1..settled

Inv == /\ TypeOK /\ Numbered /\ SentinelsAwaited /\ ShutdownLast
       /\ RunsIssued /\ FlushSettles /\ StoredInOrder /\ LostSettled
       /\ OneSentinelEach

----------------------------------------------------------------------------

LEMMA InitInv == Init => Inv
<1>. SUFFICES ASSUME Init PROVE Inv
  OBVIOUS
<1>1. TypeOK
  BY DEF Init, TypeOK, Idle, Cmd, Kinds, Writes
<1>2. Numbered
  BY DEF Init, Numbered, Served
<1>3. SentinelsAwaited /\ ShutdownLast /\ FlushSettles /\ OneSentinelEach
  BY DEF Init, SentinelsAwaited, ShutdownLast, FlushSettles, OneSentinelEach
<1>4. RunsIssued
  BY DEF Init, RunsIssued, Idle
<1>5. StoredInOrder /\ LostSettled
  BY DEF Init, StoredInOrder, Stored, LostSettled
<1>. QED
  BY <1>1, <1>2, <1>3, <1>4, <1>5 DEF Inv

LEMMA AppendFacts ==
    ASSUME NEW S, NEW s \in Seq(S), NEW x \in S
    PROVE  /\ Len(s) \in Nat
           /\ \A k \in 1..Len(s) : s[k] \in S
           /\ Append(s, x) \in Seq(S)
           /\ Append(s, x) # <<>>
           /\ Len(Append(s, x)) = Len(s) + 1
           /\ \A k \in 1..Len(s) : Append(s, x)[k] = s[k]
           /\ Append(s, x)[Len(s) + 1] = x
OBVIOUS

\* A command pushed by an idle thread, numbered as the calls number it.
LEMMA EnqueueInv ==
    ASSUME Inv, NEW c \in Callers, NEW kind \in Kinds, NEW run \in Nat,
           Enqueue(c, kind, run, Len(issued) + (IF kind \in Writes THEN 1 ELSE 0)),
           done' \in [Callers -> BOOLEAN],
           \A d \in Callers \ {c} : done'[d] = done[d],
           kind = "Flush" => ~done'[c],
           kind = "BeginRun" => run = Len(issued) + 1,
           kind \in Writes => /\ issued' = Append(issued, [kind |-> kind, run |-> run])
                              /\ run \in 1..(Len(issued) + 1),
           kind \notin Writes => issued' = issued
    PROVE  Inv'
<1>. DEFINE w == IF kind \in Writes THEN 1 ELSE 0
            m == [kind |-> kind, by |-> c, run |-> run, no |-> Len(issued) + w]
<1>0. TypeOK /\ Numbered /\ SentinelsAwaited /\ ShutdownLast
      /\ RunsIssued /\ FlushSettles /\ StoredInOrder /\ LostSettled
      /\ OneSentinelEach
  BY DEF Inv
<1>1. /\ pc[c] = "idle" /\ ~Destroying
      /\ queue' = Append(queue, m)
      /\ call' = [call EXCEPT ![c] = m]
      /\ pc' = [pc EXCEPT ![c] = "pushed"]
      /\ UNCHANGED <<writer, cmd, conn, runIds, settled, lost, db>>
  BY DEF Enqueue, Push
<1>2. Len(issued) \in Nat /\ w \in 0..1 /\ settled \in Nat
  BY <1>0 DEF TypeOK
<1>3. m \in Cmd
  BY <1>2 DEF Cmd
<1>i. /\ Len(issued') = Len(issued) + w
      /\ issued' \in Seq([kind : Writes, run : Nat])
      /\ \A n \in 1..Len(issued) : issued'[n] = issued[n]
      /\ kind \in Writes => issued'[Len(issued) + 1].run = run
  <2>1. issued \in Seq([kind : Writes, run : Nat])
    BY <1>0 DEF TypeOK
  <2>2. CASE kind \in Writes
    <3>. DEFINE r == [kind |-> kind, run |-> run]
    <3>1. r \in [kind : Writes, run : Nat] /\ issued' = Append(issued, r) /\ r.run = run
      BY <2>2
    <3>. HIDE DEF r
    <3>2. w = 1
      BY <2>2
    <3>. QED
      BY <3>1, <3>2, <2>1, AppendFacts
  <2>3. CASE kind \notin Writes
    BY <2>1, <2>3, <1>2
  <2>. QED
    BY <2>2, <2>3
<1>4. Len(issued') = Len(issued) + w /\ issued' \in Seq([kind : Writes, run : Nat])
  BY <1>i
<1>4a. \A n \in 1..Len(issued) : issued'[n] = issued[n]
  BY <1>i
<1>4b. kind \in Writes => issued'[Len(issued) + 1].run = run
  BY <1>i
<1>5. m.kind = kind /\ m.by = c /\ m.no = Len(issued) + w /\ m.run = run
  OBVIOUS
<1>6. /\ queue \in Seq(Cmd) /\ Len(queue) \in Nat
      /\ queue' \in Seq(Cmd) /\ Len(queue') = Len(queue) + 1
      /\ \A k \in 1..Len(queue) : queue'[k] = queue[k]
      /\ queue'[Len(queue) + 1] = m
      /\ queue' # <<>>
  <2>. HIDE DEF m
  <2>1. queue \in Seq(Cmd)
    BY <1>0 DEF TypeOK
  <2>. QED
    BY <2>1, <1>1, <1>3, AppendFacts
<1>6a. \A k \in 1..Len(queue) : queue[k] \in Cmd /\ queue[k].no \in Nat
  <2>1. \A x \in Cmd : x.no \in Nat
    BY DEF Cmd
  <2>. QED
    BY <2>1, <1>6
<1>6b. Counts(m) = w
  BY <1>5 DEF Counts
<1>. HIDE DEF m, w
<1>7. TypeOK'
  BY <1>0, <1>1, <1>2, <1>3, <1>4, <1>6 DEF TypeOK
<1>8. Numbered'
  <2>1. Served' = Served /\ Served \in Nat /\ writer' = writer /\ cmd' = cmd
    BY <1>0, <1>1, <1>2 DEF Served, Counts, TypeOK
  <2>2. queue'[1].no = Served + Counts(queue'[1])
    <3>1. CASE queue = <<>>
      BY <3>1, <1>0, <1>2, <1>5, <1>6, <1>6b, <2>1 DEF Numbered
    <3>2. CASE queue # <<>>
      <4>1. 1 \in 1..Len(queue)
        BY <3>2, <1>6
      <4>. QED
        BY <3>2, <4>1, <1>0, <1>6 DEF Numbered
    <3>. QED
      BY <3>1, <3>2
  <2>3. ASSUME NEW k \in 1..Len(queue')
        PROVE  /\ queue'[k].no <= Len(issued')
               /\ k > 1 => queue'[k].no = queue'[k - 1].no + Counts(queue'[k])
    <3>1. CASE k \in 1..Len(queue)
      <4>1. k > 1 => k - 1 \in 1..Len(queue)
        BY <3>1
      <4>2. queue[k].no <= Len(issued)
        BY <3>1, <1>0 DEF Numbered
      <4>3. k > 1 => queue[k].no = queue[k - 1].no + Counts(queue[k])
        BY <3>1, <1>0 DEF Numbered
      <4>4. queue'[k] = queue[k] /\ (k > 1 => queue'[k - 1] = queue[k - 1])
        BY <3>1, <4>1, <1>6
      <4>5. queue[k].no \in Nat /\ Len(issued) <= Len(issued')
        BY <3>1, <1>2, <1>4, <1>6a
      <4>. QED
        BY <4>2, <4>3, <4>4, <4>5, <1>2, <1>4
    <3>2. CASE k = Len(queue) + 1
      <4>1. queue'[k].no = Len(issued')
        BY <3>2, <1>4, <1>5, <1>6
      <4>2. ASSUME k > 1
            PROVE  queue'[k].no = queue'[k - 1].no + Counts(queue'[k])
        <5>1. queue # <<>> /\ k - 1 = Len(queue) /\ Len(queue) \in 1..Len(queue)
          BY <4>2, <3>2, <1>6
        <5>2. queue'[k - 1].no = Len(issued)
          BY <5>1, <1>0, <1>6 DEF Numbered
        <5>. QED
          BY <5>2, <4>1, <3>2, <1>2, <1>4, <1>6, <1>6b
      <4>. QED
        BY <4>1, <4>2, <1>2, <1>4
    <3>. QED
      BY <3>1, <3>2, <1>6
  <2>4. queue'[Len(queue')].no = Len(issued')
    BY <1>4, <1>5, <1>6
  <2>. QED
    BY <1>0, <1>2, <1>4, <1>6, <2>1, <2>2, <2>3, <2>4 DEF Numbered
<1>9a. ASSUME NEW x \in Cmd, Waits(x)
      PROVE  /\ x.kind \notin Writes => call'[x.by] = x /\ pc'[x.by] # "idle"
             /\ x.kind = "Flush" => ~done'[x.by]
  <2>. SUFFICES ASSUME x.kind \notin Writes
                PROVE  /\ call'[x.by] = x /\ pc'[x.by] # "idle"
                       /\ x.kind = "Flush" => ~done'[x.by]
    BY DEF Writes
  <2>1. x.by \in Callers /\ x.by # c
    BY <1>9a, <1>1 DEF Waits, Cmd
  <2>. QED
    BY <1>9a, <2>1, <1>0, <1>1 DEF Waits, TypeOK
<1>10. SentinelsAwaited'
  <2>2. ASSUME NEW k \in 1..Len(queue')
        PROVE  Waits(queue[k])'
    <3>1. CASE k \in 1..Len(queue)
      <4>. DEFINE x == queue[k]
      <4>1. x \in Cmd /\ Waits(x) /\ queue'[k] = x
        BY <3>1, <1>0, <1>6, <1>6a DEF SentinelsAwaited
      <4>. HIDE DEF x
      <4>2. /\ x.kind \notin Writes => call'[x.by] = x /\ pc'[x.by] # "idle"
            /\ x.kind = "Flush" => ~done'[x.by]
        BY <4>1, <1>9a
      <4>. QED
        BY <4>1, <4>2 DEF Waits
    <3>2. CASE k = Len(queue) + 1
      <4>1. queue'[k] = m
        BY <3>2, <1>6
      <4>2. m.by = c /\ call'[c] = m /\ pc'[c] # "idle" /\ (m.kind = "Flush" => ~done'[c])
        BY <1>0, <1>1, <1>5 DEF TypeOK
      <4>. QED
        BY <4>1, <4>2 DEF Waits
    <3>. QED
      BY <3>1, <3>2, <1>6
  <2>3. writer' = "busy" => Waits(cmd)'
    <3>. SUFFICES ASSUME writer' = "busy" PROVE Waits(cmd)'
      OBVIOUS
    <3>1. cmd \in Cmd /\ Waits(cmd) /\ cmd' = cmd
      BY <1>0, <1>1 DEF SentinelsAwaited, TypeOK
    <3>2. /\ cmd.kind \notin Writes => call'[cmd.by] = cmd /\ pc'[cmd.by] # "idle"
          /\ cmd.kind = "Flush" => ~done'[cmd.by]
      BY <3>1, <1>9a
    <3>. QED
      BY <3>1, <3>2 DEF Waits
  <2>4. \A d \in Callers : pc'[d] = "spinning" => call'[d].kind = "Flush"
    BY <1>0, <1>1 DEF SentinelsAwaited, TypeOK
  <2>. QED
    BY <2>2, <2>3, <2>4 DEF SentinelsAwaited
<1>11. ShutdownLast'
  <2>1. writer # "stopped" /\ ~(writer = "busy" /\ cmd.kind = "Shutdown")
    BY <1>0, <1>1 DEF ShutdownLast, SentinelsAwaited, Waits, Destroying, TypeOK, Cmd, Writes
  <2>2. \A k \in 1..Len(queue) : queue[k].kind # "Shutdown"
    BY <1>0, <1>1, <1>6a DEF SentinelsAwaited, Waits, Destroying, Cmd, Writes
  <2>. QED
    BY <2>1, <2>2, <1>1, <1>6 DEF ShutdownLast
<1>12. RunsIssued'
  <2>1. ASSUME NEW n \in 1..Len(issued')
        PROVE  issued'[n].run \in 1..n
    <3>1. CASE n \in 1..Len(issued)
      BY <3>1, <1>0, <1>4a DEF RunsIssued
    <3>2. CASE n = Len(issued) + 1
      <4>1. kind \in Writes
        BY <3>2, <1>2, <1>4 DEF w
      <4>. QED
        BY <4>1, <3>2, <1>4b
    <3>. QED
      BY <3>1, <3>2, <1>2, <1>4
  <2>2. runIds' \subseteq 1..Len(issued')
    BY <1>0, <1>1, <1>2, <1>4 DEF RunsIssued
  <2>3. ASSUME NEW d \in Callers, call'[d].kind = "BeginRun"
        PROVE  call'[d].run \in 1..Len(issued')
    <3>1. CASE d = c
      <4>1. call'[d] = m
        BY <3>1, <1>0, <1>1 DEF TypeOK
      <4>2. w = 1
        BY <4>1, <2>3, <1>5 DEF w, Writes
      <4>. QED
        BY <4>1, <4>2, <2>3, <1>2, <1>4, <1>5
    <3>2. CASE d # c
      <4>1. call'[d] = call[d]
        BY <3>2, <1>0, <1>1 DEF TypeOK
      <4>. QED
        BY <4>1, <2>3, <1>0, <1>2, <1>4 DEF RunsIssued
    <3>. QED
      BY <3>1, <3>2
  <2>. QED
    BY <2>1, <2>2, <2>3 DEF RunsIssued
<1>13. FlushSettles'
  BY <1>0, <1>1, <1>5 DEF FlushSettles, TypeOK
<1>14. StoredInOrder' /\ LostSettled'
  BY <1>0, <1>1 DEF StoredInOrder, Stored, LostSettled
<1>15. OneSentinelEach'
  <2>1. \A k \in 1..Len(queue) : queue[k].kind \notin Writes => queue[k].by # c
    BY <1>0, <1>1 DEF SentinelsAwaited, Waits
  <2>2. writer = "busy" /\ cmd.kind \notin Writes => cmd.by # c
    BY <1>0, <1>1 DEF SentinelsAwaited, Waits
  <2>3. ASSUME NEW j \in 1..Len(queue'), NEW k \in 1..Len(queue'), j < k,
               queue'[j].kind \notin Writes, queue'[k].kind \notin Writes
        PROVE  queue'[j].by # queue'[k].by
    <3>1. j \in 1..Len(queue) /\ queue'[j] = queue[j]
      BY <2>3, <1>6
    <3>2. CASE k \in 1..Len(queue)
      BY <3>1, <3>2, <2>3, <1>0, <1>6 DEF OneSentinelEach
    <3>3. CASE k = Len(queue) + 1
      BY <3>1, <3>3, <2>1, <2>3, <1>5, <1>6
    <3>. QED
      BY <3>2, <3>3, <1>6
  <2>4. ASSUME writer' = "busy", cmd'.kind \notin Writes, NEW k \in 1..Len(queue'),
               queue'[k].kind \notin Writes
        PROVE  queue'[k].by # cmd'.by
    <3>1. CASE k \in 1..Len(queue)
      BY <3>1, <2>4, <1>0, <1>1, <1>6 DEF OneSentinelEach
    <3>2. CASE k = Len(queue) + 1
      BY <3>2, <2>2, <2>4, <1>1, <1>5, <1>6
    <3>. QED
      BY <3>1, <3>2, <1>6
  <2>. QED
    BY <2>3, <2>4 DEF OneSentinelEach
<1>. QED
  BY <1>15, <1>7, <1>8, <1>10, <1>11, <1>12, <1>13, <1>14 DEF Inv

LEMMA TailFacts ==
    ASSUME NEW S, NEW s \in Seq(S), s # <<>>
    PROVE  /\ Len(s) \in Nat /\ Len(s) >= 1
           /\ Head(s) = s[1] /\ s[1] \in S
           /\ Tail(s) \in Seq(S) /\ Len(Tail(s)) = Len(s) - 1
           /\ \A k \in 1..Len(Tail(s)) : k + 1 \in 1..Len(s) /\ Tail(s)[k] = s[k + 1]
           /\ Tail(s) = <<>> <=> Len(s) = 1
<1>1. /\ Len(s) \in Nat /\ Len(s) >= 1
      /\ Head(s) = s[1] /\ s[1] \in S
      /\ Tail(s) \in Seq(S) /\ Len(Tail(s)) = Len(s) - 1
      /\ \A k \in 1..Len(Tail(s)) : k + 1 \in 1..Len(s) /\ Tail(s)[k] = s[k + 1]
  OBVIOUS
<1>2. Len(Tail(s)) = 0 => Tail(s) = <<>>
  BY <1>1, EmptySeq
<1>3. Tail(s) = <<>> => Len(Tail(s)) = 0
  BY EmptySeq, Zenon
<1>. QED
  BY <1>1, <1>2, <1>3

\* The writer takes the first command out of the queue.
LEMMA TakeInv ==
    ASSUME Inv, Take
    PROVE  Inv'
<1>0. TypeOK /\ Numbered /\ SentinelsAwaited /\ ShutdownLast
      /\ RunsIssued /\ FlushSettles /\ StoredInOrder /\ LostSettled
      /\ OneSentinelEach
  BY DEF Inv
<1>1. /\ writer = "looking" /\ queue # <<>> /\ writer' = "busy"
      /\ cmd' = Head(queue) /\ queue' = Tail(queue)
      /\ UNCHANGED <<conn, pc, call, done, runIds, issued, settled, lost, db>>
  BY DEF Take, callerVars
<1>2. Len(issued) \in Nat /\ settled \in Nat
  BY <1>0 DEF TypeOK
<1>3. /\ Len(queue) \in Nat /\ Len(queue) >= 1
      /\ cmd' = queue[1] /\ queue[1] \in Cmd
      /\ queue' \in Seq(Cmd) /\ Len(queue') = Len(queue) - 1
      /\ \A k \in 1..Len(queue') : k + 1 \in 1..Len(queue) /\ queue'[k] = queue[k + 1]
      /\ queue' = <<>> <=> Len(queue) = 1
  <2>1. queue \in Seq(Cmd)
    BY <1>0 DEF TypeOK
  <2>. QED
    BY <2>1, <1>1, TailFacts
<1>4. 1 \in 1..Len(queue) /\ Len(queue) \in 1..Len(queue)
  BY <1>3
<1>5. TypeOK'
  BY <1>0, <1>1, <1>3 DEF TypeOK
<1>6. Served' = settled + Counts(queue[1]) /\ Served = settled /\ Served' = queue[1].no
  BY <1>0, <1>1, <1>3 DEF Served, Counts, Numbered
<1>7. queue[1].no <= Len(issued) /\ queue[1].no \in Nat
  BY <1>0, <1>3, <1>4 DEF Numbered, Cmd
<1>8. Numbered'
  <2>1. queue' = <<>> => Served' = Len(issued)
    BY <1>0, <1>1, <1>3, <1>6 DEF Numbered
  <2>2. ASSUME queue' # <<>>
        PROVE  /\ queue'[1].no = Served' + Counts(queue'[1])
               /\ queue'[Len(queue')].no = Len(issued)
    <3>1. 2 \in 1..Len(queue) /\ 1 \in 1..Len(queue') /\ Len(queue') \in 1..Len(queue')
      BY <2>2, <1>3
    <3>2. queue'[1] = queue[2] /\ queue'[Len(queue')] = queue[Len(queue)]
      BY <3>1, <1>3
    <3>3. queue[2].no = queue[2 - 1].no + Counts(queue[2])
      BY <3>1, <1>0 DEF Numbered
    <3>4. 2 - 1 = 1
      OBVIOUS
    <3>. QED
      BY <3>2, <3>3, <3>4, <1>0, <1>1, <1>6 DEF Numbered
  <2>3. ASSUME NEW k \in 1..Len(queue')
        PROVE  /\ queue'[k].no <= Len(issued)
               /\ k > 1 => queue'[k].no = queue'[k - 1].no + Counts(queue'[k])
    <3>1. k + 1 \in 1..Len(queue) /\ queue'[k] = queue[k + 1] /\ k + 1 > 1
      BY <1>3
    <3>2. queue[k + 1].no <= Len(issued)
          /\ queue[k + 1].no = queue[(k + 1) - 1].no + Counts(queue[k + 1])
      BY <3>1, <1>0 DEF Numbered
    <3>3. k > 1 => queue'[k - 1] = queue[k]
      <4>1. k > 1 => k - 1 \in 1..Len(queue') /\ (k - 1) + 1 = k
        BY <1>3
      <4>. QED
        BY <4>1, <1>3
    <3>4. (k + 1) - 1 = k
      OBVIOUS
    <3>. QED
      BY <3>1, <3>2, <3>3, <3>4
  <2>4. Counts(queue[1]) \in Nat
    BY DEF Counts
  <2>. QED
    BY <2>1, <2>2, <2>3, <1>1, <1>3, <1>6, <1>7 DEF Numbered
<1>9. SentinelsAwaited'
  <2>1. \A x : Waits(x) => /\ x.kind \notin Writes => call'[x.by] = x /\ pc'[x.by] # "idle"
                           /\ x.kind \notin Writes /\ x.kind = "Flush" => ~done'[x.by]
    BY <1>1 DEF Waits
  <2>2. Waits(queue[1]) /\ \A k \in 1..Len(queue') : Waits(queue[k + 1])
    BY <1>0, <1>3, <1>4 DEF SentinelsAwaited
  <2>3. ASSUME NEW k \in 1..Len(queue')
        PROVE  Waits(queue[k])'
    <3>1. Waits(queue[k + 1]) /\ queue'[k] = queue[k + 1]
      BY <2>2, <1>3
    <3>. QED
      BY <3>1, <1>1 DEF Waits
  <2>4. Waits(cmd)'
    BY <2>2, <1>1, <1>3 DEF Waits
  <2>. QED
    BY <2>3, <2>4, <1>0, <1>1 DEF SentinelsAwaited
<1>10. ShutdownLast'
  <2>1. \A k \in 1..Len(queue') : queue'[k].kind = "Shutdown" => k = Len(queue')
    <3>1. SUFFICES ASSUME NEW k \in 1..Len(queue'), queue'[k].kind = "Shutdown"
                   PROVE  k = Len(queue')
      OBVIOUS
    <3>2. k + 1 \in 1..Len(queue) /\ queue[k + 1].kind = "Shutdown"
      BY <3>1, <1>3
    <3>3. k + 1 = Len(queue)
      BY <3>2, <1>0 DEF ShutdownLast
    <3>. QED
      BY <3>3, <1>3
  <2>2. cmd'.kind = "Shutdown" => queue' = <<>>
    BY <1>0, <1>3, <1>4 DEF ShutdownLast
  <2>. QED
    BY <2>1, <2>2, <1>1 DEF ShutdownLast
<1>11. RunsIssued' /\ FlushSettles' /\ StoredInOrder' /\ LostSettled'
  BY <1>0, <1>1 DEF RunsIssued, FlushSettles, StoredInOrder, Stored, LostSettled
<1>12. OneSentinelEach'
  <2>1. ASSUME NEW j \in 1..Len(queue'), NEW k \in 1..Len(queue'), j < k,
               queue'[j].kind \notin Writes, queue'[k].kind \notin Writes
        PROVE  queue'[j].by # queue'[k].by
    <3>1. j + 1 \in 1..Len(queue) /\ k + 1 \in 1..Len(queue) /\ j + 1 < k + 1
      BY <2>1, <1>3
    <3>. QED
      BY <3>1, <2>1, <1>0, <1>3 DEF OneSentinelEach
  <2>2. ASSUME cmd'.kind \notin Writes, NEW k \in 1..Len(queue'),
               queue'[k].kind \notin Writes
        PROVE  queue'[k].by # cmd'.by
    <3>1. k + 1 \in 1..Len(queue) /\ 1 < k + 1
      BY <1>3
    <3>. QED
      BY <3>1, <2>2, <1>0, <1>3, <1>4 DEF OneSentinelEach
  <2>. QED
    BY <2>1, <2>2 DEF OneSentinelEach
<1>. QED
  BY <1>5, <1>8, <1>9, <1>10, <1>11, <1>12 DEF Inv

\* A write is executed, with or without success.
LEMMA ExecuteInv ==
    ASSUME Inv, Execute
    PROVE  Inv'
<1>0. TypeOK /\ Numbered /\ SentinelsAwaited /\ ShutdownLast
      /\ RunsIssued /\ FlushSettles /\ StoredInOrder /\ LostSettled
      /\ OneSentinelEach
  BY DEF Inv
<1>1. /\ writer = "busy" /\ cmd.kind \in Writes /\ writer' = "looking"
      /\ settled' = settled + 1
      /\ UNCHANGED <<queue, cmd, conn, pc, call, done, runIds, issued>>
  BY DEF Execute, callerVars
<1>2. Len(issued) \in Nat /\ settled \in Nat /\ db \in Seq(Nat) /\ Len(db) \in Nat
  BY <1>0 DEF TypeOK
<1>3. Served = settled + 1 /\ Served' = settled + 1 /\ cmd.no = settled + 1
      /\ settled + 1 <= Len(issued)
  BY <1>0, <1>1 DEF Served, Counts, Numbered
<1>4. \/ db' = Append(db, cmd.no) /\ lost' = lost
      \/ lost' = lost \cup {cmd.no} /\ db' = db
  BY DEF Execute
<1>5. TypeOK'
  <2>1. lost' \subseteq Nat /\ db' \in Seq(Nat)
    <3>1. cmd.no \in Nat /\ lost \subseteq Nat
      BY <1>0, <1>2, <1>3 DEF TypeOK
    <3>2. Append(db, cmd.no) \in Seq(Nat) /\ db \in Seq(Nat)
      BY <3>1, <1>2, AppendFacts
    <3>3. lost \cup {cmd.no} \subseteq Nat
      BY <3>1
    <3>. QED
      BY <3>1, <3>2, <3>3, <1>4, Zenon
  <2>2. settled' \in 0..Len(issued)
    BY <1>1, <1>2, <1>3
  <2>. QED
    BY <1>0, <1>1, <2>1, <2>2 DEF TypeOK
<1>6. Numbered'
  BY <1>0, <1>1, <1>3 DEF Numbered, Counts
<1>7. SentinelsAwaited' /\ ShutdownLast' /\ RunsIssued' /\ OneSentinelEach'
  BY <1>0, <1>1 DEF OneSentinelEach, SentinelsAwaited, Waits, ShutdownLast, Destroying, RunsIssued
<1>8. FlushSettles'
  <2>1. \A d \in Callers : call[d].no \in Nat
    BY <1>0 DEF TypeOK, Cmd
  <2>. QED
    BY <2>1, <1>0, <1>1, <1>2 DEF FlushSettles
<1>9. StoredInOrder'
  <2>1. Stored = (1..settled) \ lost /\ \A j \in 1..Len(db) : db[j] \in 1..settled
    BY <1>0 DEF StoredInOrder, Stored
  <2>2. CASE db' = Append(db, cmd.no) /\ lost' = lost
    <3>1. /\ Len(db') = Len(db) + 1 /\ db'[Len(db) + 1] = settled + 1
          /\ \A j \in 1..Len(db) : db'[j] = db[j]
      <4>1. cmd.no \in Nat
        BY <1>2, <1>3
      <4>. QED
        BY <4>1, <2>2, <1>2, <1>3, AppendFacts
    <3>2. Stored' = Stored \cup {settled + 1}
      <4>1. Stored' = {db'[k] : k \in 1..(Len(db) + 1)}
        BY <3>1 DEF Stored
      <4>2. 1..(Len(db) + 1) = (1..Len(db)) \cup {Len(db) + 1}
        BY <1>2
      <4>. QED
        BY <4>1, <4>2, <3>1 DEF Stored
    <3>3. settled + 1 \notin lost
      BY <1>0, <1>2 DEF LostSettled
    <3>4. Stored' = (1..settled') \ lost'
      BY <3>2, <3>3, <2>1, <2>2, <1>1, <1>2
    <3>5. ASSUME NEW j \in 1..Len(db'), NEW k \in 1..Len(db'), j < k
          PROVE  db'[j] < db'[k]
      <4>1. j \in 1..Len(db) /\ db'[j] \in 1..settled
        BY <3>1, <3>5, <2>1, <1>2
      <4>2. CASE k \in 1..Len(db)
        BY <4>1, <4>2, <3>1, <3>5, <1>0 DEF StoredInOrder
      <4>3. CASE k = Len(db) + 1
        BY <4>1, <4>3, <3>1, <1>2
      <4>. QED
        BY <4>2, <4>3, <3>1, <1>2
    <3>. QED
      BY <3>4, <3>5 DEF StoredInOrder
  <2>3. CASE lost' = lost \cup {cmd.no} /\ db' = db
    <3>1. Stored' = Stored
      BY <2>3 DEF Stored
    <3>2. Stored' = (1..settled') \ lost'
      BY <3>1, <2>1, <2>3, <1>1, <1>2, <1>3
    <3>. QED
      BY <3>2, <2>3, <1>0 DEF StoredInOrder
  <2>. QED
    BY <2>2, <2>3, <1>4
<1>10. LostSettled'
  <2>1. lost' \subseteq lost \cup {settled + 1}
    BY <1>3, <1>4
  <2>2. lost \subseteq 1..settled
    BY <1>0 DEF LostSettled
  <2>3. \A n \in 1..settled : n \in 1..(settled + 1)
    BY <1>2
  <2>4. settled + 1 \in 1..(settled + 1)
    BY <1>2
  <2>. QED
    BY <2>1, <2>2, <2>3, <2>4, <1>1 DEF LostSettled
<1>. QED
  BY <1>5, <1>6, <1>7, <1>8, <1>9, <1>10 DEF Inv

\* Every step keeps the invariant.
LEMMA NextInv == Inv /\ [Next]_vars => Inv'
<1>. SUFFICES ASSUME Inv, [Next]_vars
              PROVE  Inv'
  OBVIOUS
<1>0. TypeOK /\ Numbered /\ SentinelsAwaited /\ ShutdownLast
      /\ RunsIssued /\ FlushSettles /\ StoredInOrder /\ LostSettled
      /\ OneSentinelEach
  BY DEF Inv
<1>a. Len(issued) \in Nat /\ runIds \subseteq 1..Len(issued)
  BY <1>0 DEF TypeOK, RunsIssued
<1>1. ASSUME NEW c \in Callers, BeginRun(c)
      PROVE  Inv'
  <2>1. "BeginRun" \in Kinds /\ "BeginRun" \in Writes /\ "BeginRun" # "Flush"
    BY DEF Kinds, Writes
  <2>. DEFINE n == Len(issued) + 1
  <2>2. /\ Enqueue(c, "BeginRun", n, Len(issued) + (IF "BeginRun" \in Writes THEN 1 ELSE 0))
        /\ issued' = Append(issued, [kind |-> "BeginRun", run |-> n])
        /\ done' = done
    BY <1>1, <2>1 DEF BeginRun, Write
  <2>3. done \in [Callers -> BOOLEAN] /\ n \in Nat /\ n \in 1..(Len(issued) + 1)
    BY <1>0, <1>a DEF TypeOK
  <2>. QED
    BY <2>1, <2>2, <2>3, EnqueueInv
<1>2. ASSUME NEW c \in Callers, NEW kind \in {"Trade", "EndRun"}, NEW r \in runIds,
             Write(c, kind, r)
      PROVE  Inv'
  <2>1. kind \in Kinds /\ kind \in Writes /\ kind # "Flush" /\ kind # "BeginRun"
    BY DEF Kinds, Writes
  <2>2. /\ Enqueue(c, kind, r, Len(issued) + (IF kind \in Writes THEN 1 ELSE 0))
        /\ issued' = Append(issued, [kind |-> kind, run |-> r])
        /\ done' = done
    BY <1>2, <2>1 DEF Write
  <2>3. done \in [Callers -> BOOLEAN] /\ r \in Nat /\ r \in 1..(Len(issued) + 1)
    BY <1>0, <1>a DEF TypeOK
  <2>. QED
    BY <2>1, <2>2, <2>3, EnqueueInv
<1>3. ASSUME NEW c \in Callers, Flush(c) \/ Destroy(c)
      PROVE  Inv'
  <2>1. PICK kind \in {"Flush", "Shutdown"} :
            /\ Enqueue(c, kind, 0, Len(issued))
            /\ issued' = issued
            /\ done' = IF kind = "Flush" THEN [done EXCEPT ![c] = FALSE] ELSE done
    BY <1>3 DEF Flush, Destroy
  <2>2. kind \in Kinds /\ kind \notin Writes /\ kind # "BeginRun"
    BY DEF Kinds, Writes
  <2>3. Enqueue(c, kind, 0, Len(issued) + (IF kind \in Writes THEN 1 ELSE 0))
    <3>1. Len(issued) + (IF kind \in Writes THEN 1 ELSE 0) = Len(issued)
      BY <2>2, <1>a
    <3>. QED
      BY <2>1, <3>1
  <2>4. /\ done' \in [Callers -> BOOLEAN] /\ (kind = "Flush" => ~done'[c])
        /\ \A d \in Callers \ {c} : done'[d] = done[d]
    BY <2>1, <1>0 DEF TypeOK
  <2>5. 0 \in Nat
    OBVIOUS
  <2>. QED
    BY <2>1, <2>2, <2>3, <2>4, <2>5, EnqueueInv
<1>4. ASSUME NEW c \in Callers, Notify(c)
      PROVE  Inv'
  <2>1. /\ pc[c] = "pushed" /\ writer' \in {writer, "looking"}
        /\ writer' # writer => writer = "asleep"
        /\ pc' = [pc EXCEPT ![c] = After(call[c])]
        /\ UNCHANGED <<queue, cmd, conn, call, done, issued, settled, lost, db>>
    BY <1>4 DEF Notify
  <2>2. After(call[c]) \in {"idle", "spinning", "joining"}
        /\ (call[c].kind \in {"Flush", "Shutdown"} => After(call[c]) # "idle")
        /\ (After(call[c]) = "spinning" => call[c].kind = "Flush")
    BY DEF After
  <2>3. runIds' \subseteq 1..Len(issued) /\ runIds' \subseteq Nat
    <3>1. \/ runIds' = runIds
          \/ runIds' = runIds \cup {call[c].run} /\ call[c].kind = "BeginRun"
      BY <1>4 DEF Notify
    <3>2. call[c].kind = "BeginRun" => call[c].run \in 1..Len(issued)
      BY <1>0 DEF RunsIssued
    <3>3. runIds' \subseteq 1..Len(issued)
      BY <3>1, <3>2, <1>a
    <3>. QED
      BY <3>3, <1>a
  <2>4. TypeOK'
    BY <1>0, <2>1, <2>2, <2>3 DEF TypeOK
  <2>5. Numbered'
    BY <1>0, <2>1 DEF Numbered, Served, Counts
  <2>6. \A x \in Cmd : Waits(x) /\ x.kind \notin Writes => pc'[x.by] # "idle"
    BY <1>0, <2>1, <2>2 DEF TypeOK, Waits, Cmd, Kinds
  <2>7. SentinelsAwaited'
    <3>1. \A k \in 1..Len(queue) : Waits(queue[k]) /\ queue[k] \in Cmd
      BY <1>0 DEF SentinelsAwaited, TypeOK
    <3>2. ASSUME NEW k \in 1..Len(queue')
          PROVE  Waits(queue[k])'
      BY <3>1, <2>1, <2>6 DEF Waits
    <3>3. writer' = "busy" => Waits(cmd)'
      BY <1>0, <2>1, <2>6 DEF SentinelsAwaited, TypeOK, Waits
    <3>4. \A d \in Callers : pc'[d] = "spinning" => call'[d].kind = "Flush"
      BY <1>0, <2>1, <2>2 DEF SentinelsAwaited, TypeOK
    <3>. QED
      BY <3>2, <3>3, <3>4 DEF SentinelsAwaited
  <2>8. ShutdownLast' /\ FlushSettles' /\ StoredInOrder' /\ LostSettled' /\ OneSentinelEach'
    BY <1>0, <2>1 DEF OneSentinelEach, ShutdownLast, Destroying, FlushSettles, StoredInOrder, Stored, LostSettled
  <2>9. RunsIssued'
    BY <1>0, <2>1, <2>3 DEF RunsIssued
  <2>. QED
    BY <2>4, <2>5, <2>7, <2>8, <2>9 DEF Inv
<1>5. ASSUME NEW c \in Callers, FlushReturns(c) \/ Join(c)
      PROVE  Inv'
  <2>1. /\ UNCHANGED <<queue, writer, cmd, call, done, runIds, issued, settled, lost, db>>
        /\ conn' \in {conn, "closed"}
        /\ \/ pc[c] = "spinning" /\ done[c] /\ pc' = [pc EXCEPT ![c] = "idle"]
           \/ pc[c] = "joining" /\ pc' = [pc EXCEPT ![c] = "gone"]
    BY <1>5 DEF FlushReturns, Join
  <2>2. TypeOK'
    BY <1>0, <2>1 DEF TypeOK
  <2>3. \A x \in Cmd : Waits(x) /\ x.kind \notin Writes => pc'[x.by] # "idle"
    BY <1>0, <2>1 DEF TypeOK, Waits, Cmd, SentinelsAwaited
  <2>4. SentinelsAwaited'
    <3>1. \A k \in 1..Len(queue) : Waits(queue[k]) /\ queue[k] \in Cmd
      BY <1>0 DEF SentinelsAwaited, TypeOK
    <3>2. ASSUME NEW k \in 1..Len(queue')
          PROVE  Waits(queue[k])'
      BY <3>1, <2>1, <2>3 DEF Waits
    <3>3. writer' = "busy" => Waits(cmd)'
      BY <1>0, <2>1, <2>3 DEF SentinelsAwaited, TypeOK, Waits
    <3>4. \A d \in Callers : pc'[d] = "spinning" => call'[d].kind = "Flush"
      BY <1>0, <2>1 DEF SentinelsAwaited, TypeOK
    <3>. QED
      BY <3>2, <3>3, <3>4 DEF SentinelsAwaited
  <2>. QED
    BY <1>0, <2>1, <2>2, <2>4 DEF Inv, Numbered, Served, Counts, ShutdownLast, Destroying,
       RunsIssued, FlushSettles, StoredInOrder, Stored, LostSettled, OneSentinelEach
<1>6. CASE Connect \/ Sleep \/ SpuriousWakeup \/ Stop
  <2>1. /\ UNCHANGED <<queue, cmd, pc, call, done, runIds, issued, settled, lost, db>>
        /\ conn' \in {conn, "none", "open"}
        /\ writer' \in {"looking", "asleep", "stopped"}
        /\ writer' = "stopped" => writer = "busy" /\ cmd.kind = "Shutdown"
        /\ writer = "busy" => cmd.kind = "Shutdown"
    BY <1>6 DEF Connect, Sleep, SpuriousWakeup, Stop, callerVars
  <2>2. TypeOK'
    BY <1>0, <2>1 DEF TypeOK
  <2>3. Served' = Served
    BY <1>0, <2>1 DEF Served, Counts, Writes, TypeOK
  <2>4. Numbered'
    BY <1>0, <2>1, <2>3 DEF Numbered, Counts
  <2>5. SentinelsAwaited'
    BY <1>0, <2>1 DEF SentinelsAwaited, Waits
  <2>6. ShutdownLast'
    <3>1. writer' = "stopped" => queue' = <<>> /\ Destroying'
      <4>1. writer' = "stopped" => call[cmd.by] = cmd /\ cmd.by \in Callers
        BY <1>0, <2>1 DEF SentinelsAwaited, Waits, Writes, TypeOK, Cmd
      <4>. QED
        BY <4>1, <1>0, <2>1 DEF ShutdownLast, Destroying
    <3>. QED
      BY <3>1, <1>0, <2>1 DEF ShutdownLast
  <2>. QED
    BY <1>0, <2>1, <2>2, <2>4, <2>5, <2>6
       DEF Inv, RunsIssued, FlushSettles, StoredInOrder, Stored, LostSettled, OneSentinelEach
<1>7. CASE Acknowledge
  <2>1. /\ writer = "busy" /\ cmd.kind = "Flush" /\ writer' = "looking"
        /\ done' = [done EXCEPT ![cmd.by] = TRUE]
        /\ UNCHANGED <<queue, cmd, conn, pc, call, runIds, issued, settled, lost, db>>
    BY <1>7 DEF Acknowledge
  <2>2. cmd.by \in Callers /\ call[cmd.by] = cmd /\ cmd.no = settled /\ settled \in Nat
    BY <1>0, <2>1 DEF SentinelsAwaited, Waits, Writes, TypeOK, Cmd, Numbered, Served, Counts
  <2>3. TypeOK'
    BY <1>0, <2>1, <2>2 DEF TypeOK
  <2>4. Numbered'
    <3>1. Served' = Served
      BY <2>1, <2>2 DEF Served, Counts, Writes
    <3>. QED
      BY <3>1, <1>0, <2>1 DEF Numbered, Counts
  <2>5. FlushSettles'
    BY <1>0, <2>1, <2>2 DEF FlushSettles, TypeOK
  <2>6. SentinelsAwaited'
    <3>1. ASSUME NEW k \in 1..Len(queue), queue[k].kind = "Flush"
          PROVE  queue[k].by # cmd.by
      BY <3>1, <1>0, <2>1 DEF OneSentinelEach, Writes
    <3>2. \A k \in 1..Len(queue) : Waits(queue[k]) /\ queue[k] \in Cmd
      BY <1>0 DEF SentinelsAwaited, TypeOK
    <3>3. ASSUME NEW k \in 1..Len(queue')
          PROVE  Waits(queue[k])'
      BY <3>1, <3>2, <2>1, <1>0 DEF Waits, Cmd, TypeOK
    <3>. QED
      BY <3>3, <1>0, <2>1 DEF SentinelsAwaited
  <2>7. ShutdownLast' /\ RunsIssued' /\ StoredInOrder' /\ LostSettled' /\ OneSentinelEach'
    BY <1>0, <2>1 DEF OneSentinelEach, ShutdownLast, Destroying, RunsIssued, StoredInOrder, Stored, LostSettled
  <2>. QED
    BY <2>3, <2>4, <2>5, <2>6, <2>7 DEF Inv
<1>8. CASE UNCHANGED vars
  BY <1>0, <1>8 DEF vars, callerVars, Inv, TypeOK, Numbered, Served, Counts, SentinelsAwaited,
     Waits, ShutdownLast, Destroying, RunsIssued, FlushSettles, StoredInOrder, Stored, LostSettled,
     OneSentinelEach
<1>. QED
  BY <1>1, <1>2, <1>3, <1>4, <1>5, <1>6, <1>7, <1>8, TakeInv, ExecuteInv
     DEF Next, WriterStep, Continue, WriteTrade, EndRun

----------------------------------------------------------------------------
(* Theorems                                                                 *)

\* The inductive invariant of the writer: the numbers of the commands in the
\* queue continue those of the writes that are settled, every sentinel is
\* awaited by its thread, and nothing is behind a Shutdown.
THEOREM WriterSound == Spec => []Inv
<1>1. Init => Inv
  BY InitInv
<1>2. Inv /\ [Next]_vars => Inv'
  BY NextInv
<1>. QED
  BY <1>1, <1>2, PTL DEF Spec

\* Threads, queue and histories keep their types, and no write is executed
\* more often than it was issued.
THEOREM WriterTypeCorrect == Spec => []TypeOK
<1>1. Inv => TypeOK
  BY DEF Inv
<1>. QED
  BY <1>1, WriterSound, PTL

\* flush() returns to no thread before the writer is done with every write
\* that any thread had pushed before the call.
THEOREM FlushIsBarrier == Spec => []FlushSettles
<1>1. Inv => FlushSettles
  BY DEF Inv
<1>. QED
  BY <1>1, WriterSound, PTL

\* The database holds exactly the executed writes that were not lost, in the
\* order of their pushes.
THEOREM DatabaseInOrder == Spec => []StoredInOrder
<1>1. Inv => StoredInOrder
  BY DEF Inv
<1>. QED
  BY <1>1, WriterSound, PTL

\* A stored trade or end of run has the row of its run before it, unless that
\* row's INSERT failed.
THEOREM RunsBeforeTrades == Spec => []RunRowFirst
<1>1. Inv => RunRowFirst
  <2>. SUFFICES ASSUME Inv, NEW n \in Stored
                PROVE  issued[n].run \in Stored \cup lost
    BY DEF RunRowFirst
  <2>1. /\ Stored = (1..settled) \ lost /\ settled \in 0..Len(issued) /\ Len(issued) \in Nat
        /\ \A k \in 1..Len(issued) : issued[k].run \in 1..k
    BY DEF Inv, StoredInOrder, TypeOK, RunsIssued
  <2>2. n \in 1..settled /\ n \in 1..Len(issued)
    BY <2>1
  <2>3. issued[n].run \in 1..n
    BY <2>1, <2>2
  <2>4. \A r \in 1..n : r \in 1..settled
    BY <2>1, <2>2
  <2>. QED
    BY <2>1, <2>3, <2>4
<1>. QED
  BY <1>1, WriterSound, PTL

\* The destructor drains the queue.
THEOREM DestructorDrains == Spec => []DrainedAtStop
<1>1. Inv => DrainedAtStop
  BY DEF Inv, DrainedAtStop, ShutdownLast, Numbered, Served, TypeOK
<1>. QED
  BY <1>1, WriterSound, PTL
=============================================================================
