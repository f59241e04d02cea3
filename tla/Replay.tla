-------------------------------- MODULE Replay --------------------------------
(***************************************************************************)
(* The replay sources of engine/replay and the strategy gate of            *)
(* engine/strategy, as operators on records, for the modules that drive    *)
(* them.                                                                   *)
(*                                                                         *)
(* A source is a sequence of lines.  A line has its first character (none, *)
(* "#", a digit or another), the number of fields sscanf converts, and the *)
(* event those would make: its type, its time, the events the engine       *)
(* answers it with, and whether it returns at all.  The events of a vector  *)
(* are lines that are all valid.                                           *)
(***************************************************************************)
EXTENDS Integers, Sequences, FiniteSets

EventTypes == 1 .. 5
NewOrder == 1
CancelOrder == 2
ModifyOrder == 3

Answers == {"trade", "cancel"}
Line == [first : {"none", "#", "digit", "other"}, fields : 0 .. 7,
         type : Nat, ts : Nat, out : Seq(Answers), returns : BOOLEAN]

\* next() skips blank lines, comments, headers and what parse_line refuses.
IsEvent(line) ==
    /\ line.first = "digit"
    /\ line.fields >= 6
    /\ line.type \in EventTypes

Controller(kind, src) ==
    [kind |-> kind, src |-> src, pos |-> 0, replayed |-> 0,
     last |-> 0, late |-> 0, done |-> FALSE]

\* Where the next event is, among the lines not read yet.
Coming(rc) == {i \in rc.pos + 1 .. Len(rc.src) : IsEvent(rc.src[i])}
Yields(rc) == ~rc.done /\ Coming(rc) # {}
Following(rc) == CHOOSE i \in Coming(rc) : \A j \in Coming(rc) : i <= j
Upcoming(rc)  == rc.src[Following(rc)]

\* Taking the event of line i; only the file looks at the timestamps.
Taken(rc, i) ==
    LET new  == [rc EXCEPT !.pos = i, !.replayed = @ + 1]
        late == rc.src[i].ts < rc.last
    IN  IF rc.kind = "csv"
        THEN [new EXCEPT !.last = rc.src[i].ts, !.late = IF late THEN @ + 1 ELSE @]
        ELSE new

\* Mutant: the event is counted before it is found.
ExhaustedCounts(rc) ==
    [rc EXCEPT !.pos = Len(rc.src), !.replayed = @ + 1, !.done = rc.kind = "csv"]

Exhausted(rc) == [rc EXCEPT !.pos = Len(rc.src), !.done = rc.kind = "csv"]

\* Mutant: the file is done with its last line.
AdvancedEarly(rc) ==
    IF Yields(rc)
    THEN [Taken(rc, Following(rc)) EXCEPT !.done = rc.kind = "csv" /\ Following(rc) = Len(rc.src)]
    ELSE Exhausted(rc)

\* next(): the controller after it; the event it wrote is Upcoming(rc).
Advanced(rc) == IF Yields(rc) THEN Taken(rc, Following(rc)) ELSE Exhausted(rc)

\* done(): the vector is done with its last event, the file after it.
Done(rc) == IF rc.kind = "csv" THEN rc.done ELSE rc.pos >= Len(rc.src)

\* The gate: a strategy is the set of types it forwards, and process() counts.
Forwards(strategy, event) == event.type \in strategy
Gated(gate, sent) ==
    IF sent THEN [gate EXCEPT !.signals = @ + 1] ELSE [gate EXCEPT !.noops = @ + 1]

\* What the engine does with a forwarded event of a type it knows.
Applies(event) == event.type \in {NewOrder, CancelOrder, ModifyOrder}

\* process_new_order may loop for ever over a level whose FIFO was too full.
Returns(event) == event.type = NewOrder => event.returns
Output(event)  == IF event.type = NewOrder THEN event.out ELSE << >>

-----------------------------------------------------------------------------
\* What lines of a source come to, counted from the source.
EventLines(src) == {i \in DOMAIN src : IsEvent(src[i])}
FirstEvents(src, n) ==
    {i \in EventLines(src) : Cardinality({j \in EventLines(src) : j <= i}) <= n}

Sent(src, strategy, lines) == {i \in lines : Forwards(strategy, src[i])}
TradesIn(out) == {k \in DOMAIN out : out[k] = "trade"}

Signals(src, strategy, lines) == Cardinality(Sent(src, strategy, lines))
Applied(src, strategy, lines) ==
    Cardinality({i \in Sent(src, strategy, lines) : Applies(src[i])})
Traded(src, strategy, lines) ==
    Cardinality(UNION {{i} \X TradesIn(Output(src[i])) : i \in Sent(src, strategy, lines)})
=============================================================================
