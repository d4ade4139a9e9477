-------------------------- MODULE Connections_proofs --------------------------
(***************************************************************************)
(* What holds of the connections, the reports on their way and the runner  *)
(* that waits for them, for any number of ports, cases and blocks.         *)
(*                                                                         *)
(* Of the runner: no report is missed, for a check that has waited for its *)
(* mark and for the connections to be closed has all of their frames, and  *)
(* finds nothing more behind them.  Until one runs into its timeout, the   *)
(* frames it judges were read by the whole parser of its case with the     *)
(* dynamic tables of their own connections, and of those tables nothing is *)
(* left once it is over.                                                   *)
(***************************************************************************)
EXTENDS Connections, SequenceTheorems, TLAPS

-----------------------------------------------------------------------------
(* Types.                                                                    *)

Frame == [kind : {"frame"}, end : Ends, case : 0..MaxCases, full : BOOLEAN,
          own_table : BOOLEAN]
Report == [kind : {"open", "close"}, end : Ends] \cup [kind : {"mark"}] \cup Frame
Conn == [state : {"closed", "opening", "open"}, case : 0..MaxCases, sent : 0..MaxBlocks]
Table == [deleted : Nat, count : 0..TableLimit, seen : BOOLEAN]
Results == [open : SUBSET Ends, frames : Seq(Frame), marked : BOOLEAN, closed : Seq(Ends)]
Victim == [end : Ends, idx : Nat, stop : Nat]

\* What the types of TypeOK leave open.
TypeInv ==
    /\ conns \in [Ends -> Conn]
    /\ upgraded_conns \subseteq Ends /\ used \subseteq Ports
    /\ links \in 0..4 /\ current \in 0..MaxCases
    /\ dynamic_table_info \in [Ends -> Table]
    /\ dynamic_table \subseteq Ends \X Nat
    /\ reports \in Seq(Report) /\ parsed \in Seq(Frame)
    /\ results \in Results
    /\ pc \in {"idle", "attach", "case_sync", "ready", "check_sync", "wait", "drain", "forget"}
    /\ victim = NoVictim \/ victim \in Victim
    /\ late \in BOOLEAN

\* An end is the client's or the server's of a port, and the two differ.
LEMMA EndsOf ==
    /\ \A e \in Ends : /\ e[1] \in Ports
                       /\ \/ e = Client(e[1]) /\ e[2] = "client"
                          \/ e = Server(e[1]) /\ e[2] = "server"
    /\ \A p \in Ports : Client(p) \in Ends /\ Server(p) \in Ends
    /\ \A p, q \in Ports : /\ Client(p) # Server(q)
                           /\ Client(p) = Client(q) => p = q
                           /\ Server(p) = Server(q) => p = q
  BY DEF Ends, Client, Server

\* The smaller of two numbers.
LEMMA MinOfTwo ==
    ASSUME NEW a \in Nat, NEW b \in Nat
    PROVE  Min({a, b}) = IF a <= b THEN a ELSE b
<1> DEFINE m == IF a <= b THEN a ELSE b
<1>1. m \in {a, b} /\ \A y \in {a, b} : m <= y
  OBVIOUS
<1>2. \A x \in {a, b} : (\A y \in {a, b} : x <= y) => x = m
  OBVIOUS
<1>3. QED
  BY <1>1, <1>2 DEF Min

\* And the larger of the two.
LEMMA MaxOfTwo ==
    ASSUME NEW a \in Nat, NEW b \in Nat
    PROVE  Max({a, b}) = IF a <= b THEN b ELSE a
<1> DEFINE m == IF a <= b THEN b ELSE a
<1>1. m \in {a, b} /\ \A y \in {a, b} : m >= y
  OBVIOUS
<1>2. \A x \in {a, b} : (\A y \in {a, b} : x >= y) => x = m
  OBVIOUS
<1>3. QED
  BY <1>1, <1>2 DEF Max

\* The attaching of the parser takes four steps.
LEMMA FourSteps == Len(AttachSteps) = 4
  BY DEF AttachSteps

\* A block moves the entries of its table on by as many as it adds.
LEMMA AddedFacts ==
    ASSUME NEW info \in Table
    PROVE  /\ Added(info) \in Table /\ Added(info).seen
           /\ Added(info).deleted >= info.deleted
           /\ EntriesEnd(Added(info)) = EntriesEnd(info) + PerBlock
<1> DEFINE n == info.count + PerBlock
           count == Min({n, TableLimit})
<1>1. /\ info.deleted \in Nat /\ info.count \in Nat /\ PerBlock \in Nat /\ TableLimit \in Nat
      /\ n \in Nat
  BY ConnectionsOK DEF Table
<1>2. count = IF n <= TableLimit THEN n ELSE TableLimit
  BY <1>1, MinOfTwo
<1>3. count \in Nat /\ count <= n /\ count <= TableLimit
  BY <1>1, <1>2
<1>4. Added(info) = [deleted |-> info.deleted + info.count + PerBlock - count,
                     count |-> count, seen |-> TRUE]
  BY DEF Added
<1> HIDE DEF count
<1>5. /\ Added(info).deleted = info.deleted + info.count + PerBlock - count
      /\ Added(info).count = count /\ Added(info).seen
  BY <1>4
<1>6. Added(info).deleted \in Nat /\ Added(info).deleted >= info.deleted
  BY <1>1, <1>3, <1>5
<1>7. Added(info) \in Table
  BY <1>3, <1>4, <1>5, <1>6 DEF Table
<1>8. QED
  BY <1>1, <1>3, <1>5, <1>6, <1>7 DEF EntriesEnd

\* What is emitted is the last of the reports.
LEMMA EmitFacts ==
    ASSUME TypeInv, NEW r \in Report, emit(r)
    PROVE  /\ reports' \in Seq(Report) /\ Len(reports) \in Nat
           /\ Len(reports') = Len(reports) + 1 /\ reports'[Len(reports) + 1] = r
           /\ \A j \in 1..Len(reports) : reports'[j] = reports[j]
  BY AppendProperties, LenProperties DEF TypeInv, emit

\* An end that opens, one that closes, the mark and a frame are reports.
LEMMA ReportKinds ==
    /\ Mark \in Report /\ Mark.kind = "mark"
    /\ \A e \in Ends : /\ Open(e) \in Report /\ Open(e).kind = "open" /\ Open(e).end = e
                       /\ Close(e) \in Report /\ Close(e).kind = "close" /\ Close(e).end = e
    /\ \A f \in Frame : f \in Report /\ f.kind = "frame"
  BY DEF Report, Mark, Open, Close, Frame

\* The report of a block is a frame of its end.
LEMMA FrameOfType ==
    ASSUME TypeInv, NEW e \in Ends
    PROVE  /\ FrameOf(e) \in Frame /\ FrameOf(e).case = conns[e].case
           /\ FrameOf(e).full = FullyAttached
           /\ FrameOf(e).own_table = (EntriesEnd(dynamic_table_info[e]) = PerBlock * conns[e].sent)
<1>1. conns[e].case \in 0..MaxCases
  BY DEF TypeInv, Conn
<1>2. FullyAttached \in BOOLEAN
  BY DEF FullyAttached
<1>3. QED
  BY <1>1, <1>2 DEF FrameOf, Frame, EntriesEnd

\* A report is handled as its kind says.
LEMMA HandledFacts ==
    ASSUME TypeInv, NEW r \in Report
    PROVE  /\ Handled(r) \in Results
           /\ r.kind \in {"open", "close", "frame", "mark"}
           /\ r.kind \in {"open", "close"} => r.end \in Ends
           /\ r.kind = "frame" => r \in Frame
           /\ Handled(r).open = CASE r.kind = "open" -> results.open \cup {r.end}
                                  [] r.kind = "close" -> results.open \ {r.end}
                                  [] OTHER -> results.open
           /\ Handled(r).closed = IF r.kind = "close" THEN Append(results.closed, r.end)
                                  ELSE results.closed
           /\ Handled(r).frames = IF r.kind = "frame" THEN Append(results.frames, r)
                                  ELSE results.frames
           /\ Handled(r).marked = (r.kind = "mark" \/ results.marked)
<1>1. results \in Results
  BY DEF TypeInv
<1>2. r.kind \in {"open", "close", "frame", "mark"}
  BY DEF Report, Frame
<1>3. CASE r.kind = "open"
  <2>1. r.end \in Ends
    BY <1>3 DEF Report, Frame
  <2>2. Handled(r) = [results EXCEPT !.open = @ \cup {r.end}]
    BY <1>3 DEF Handled
  <2>3. QED
    BY <1>1, <1>3, <2>1, <2>2 DEF Results
<1>4. CASE r.kind = "close"
  <2>1. r.end \in Ends
    BY <1>4 DEF Report, Frame
  <2>2. Handled(r) = [results EXCEPT !.open = @ \ {r.end},
                                     !.closed = Append(results.closed, r.end)]
    BY <1>4 DEF Handled
  <2>3. Append(results.closed, r.end) \in Seq(Ends)
    BY <1>1, <2>1, AppendProperties DEF Results
  <2>4. QED
    BY <1>1, <1>4, <2>1, <2>2, <2>3 DEF Results
<1>5. CASE r.kind = "frame"
  <2>1. r \in Frame
    BY <1>5 DEF Report
  <2>2. Handled(r) = [results EXCEPT !.frames = Append(results.frames, r)]
    BY <1>5 DEF Handled
  <2>3. Append(results.frames, r) \in Seq(Frame)
    BY <1>1, <2>1, AppendProperties DEF Results
  <2>4. QED
    BY <1>1, <1>5, <2>1, <2>2, <2>3 DEF Results
<1>6. CASE r.kind = "mark"
  <2>1. Handled(r) = [results EXCEPT !.marked = TRUE]
    BY <1>6 DEF Handled
  <2>2. QED
    BY <1>1, <1>6, <2>1 DEF Results
<1>7. QED
  BY <1>2, <1>3, <1>4, <1>5, <1>6

\* The first report and those behind it.
LEMMA HeadFacts ==
    ASSUME TypeInv, reports # <<>>
    PROVE  /\ Head(reports) \in Report /\ Head(reports) = reports[1]
           /\ Len(reports) \in Nat \ {0}
           /\ Tail(reports) \in Seq(Report) /\ Len(Tail(reports)) = Len(reports) - 1
           /\ \A j \in 1..(Len(reports) - 1) : Tail(reports)[j] = reports[j + 1]
  BY HeadTailProperties, EmptySeq DEF TypeInv

\* What each step of the program does to the ends of the connections.
LEMMA ConnectFacts ==
    ASSUME TypeInv, NEW p \in Ports, Connect(p)
    PROVE  /\ conns' \in [Ends -> Conn]
           /\ conns'[Client(p)] = [state |-> "open", case |-> current, sent |-> 0]
           /\ conns'[Server(p)] = [state |-> "opening", case |-> current, sent |-> 0]
           /\ \A e \in Ends : e # Client(p) /\ e # Server(p) => conns'[e] = conns[e]
<1> DEFINE c == [state |-> "open", case |-> current, sent |-> 0]
           s == [state |-> "opening", case |-> current, sent |-> 0]
<1>1. c \in Conn /\ s \in Conn
  BY ConnectionsOK DEF TypeInv, Conn
<1>2. conns' = [conns EXCEPT ![Client(p)] = c, ![Server(p)] = s]
  BY DEF Connect
<1>3. conns \in [Ends -> Conn] /\ Client(p) \in Ends /\ Server(p) \in Ends /\ Client(p) # Server(p)
  BY EndsOf DEF TypeInv
<1> HIDE DEF c, s
<1>4. /\ conns' \in [Ends -> Conn] /\ conns'[Client(p)] = c /\ conns'[Server(p)] = s
      /\ \A e \in Ends : e # Client(p) /\ e # Server(p) => conns'[e] = conns[e]
  BY <1>1, <1>2, <1>3
<1>5. QED
  BY <1>4 DEF c, s

\* An end is accepted.
LEMMA AcceptFacts ==
    ASSUME TypeInv, NEW p \in Ports, Accept(p)
    PROVE  /\ conns' \in [Ends -> Conn]
           /\ conns'[Server(p)].state = "open" /\ conns'[Server(p)].sent = conns[Server(p)].sent
           /\ conns'[Server(p)].case = conns[Server(p)].case
           /\ \A e \in Ends : e # Server(p) => conns'[e] = conns[e]
  BY EndsOf DEF TypeInv, Conn, Accept

\* An end sends a block.
LEMMA SendBlockFacts ==
    ASSUME TypeInv, NEW e \in Ends, SendBlock(e)
    PROVE  /\ conns' \in [Ends -> Conn]
           /\ conns'[e].state = conns[e].state /\ conns'[e].sent = conns[e].sent + 1
           /\ conns'[e].case = conns[e].case
           /\ \A d \in Ends : d # e => conns'[d] = conns[d]
<1>1. /\ e[1] \in Ports /\ (e = Client(e[1]) \/ e = Server(e[1]))
      /\ Client(e[1]) \in Ends /\ Server(e[1]) \in Ends
  BY EndsOf
<1>2. conns \in [Ends -> Conn]
  BY DEF TypeInv
<1>3. /\ conns[Client(e[1])].sent \in Nat /\ conns[Server(e[1])].sent \in Nat
      /\ conns[e].sent \in Nat /\ MaxBlocks \in Nat
  BY <1>1, <1>2, ConnectionsOK DEF Conn
<1>4. conns[Client(e[1])].sent + conns[Server(e[1])].sent < MaxBlocks
  BY DEF SendBlock
<1>5. conns[e].sent + 1 \in 0..MaxBlocks
  BY <1>1, <1>3, <1>4
<1>6. conns' = [conns EXCEPT ![e].sent = @ + 1]
  BY DEF SendBlock
<1>7. QED
  BY <1>2, <1>5, <1>6 DEF Conn

\* An end closes.
LEMMA CloseEndFacts ==
    ASSUME TypeInv, NEW e \in Ends, CloseEnd(e)
    PROVE  /\ conns' \in [Ends -> Conn] /\ conns'[e].state = "closed"
           /\ \A d \in Ends : d # e => conns'[d] = conns[d]
<1>1. Closed \in Conn /\ Closed.state = "closed"
  BY ConnectionsOK DEF Closed, Conn
<1>2. conns' = [conns EXCEPT ![e] = Closed] /\ conns \in [Ends -> Conn]
  BY DEF CloseEnd, TypeInv
<1>3. QED
  BY <1>1, <1>2

\* The entries a block adds are those between the old end and the new one that there
\* is still room for.
LEMMA AddEntriesFacts ==
    ASSUME TypeInv, NEW e \in Ends, AddEntries(e)
    PROVE  /\ dynamic_table_info' \in [Ends -> Table]
           /\ dynamic_table_info'[e] = Added(dynamic_table_info[e])
           /\ \A d \in Ends : d # e => dynamic_table_info'[d] = dynamic_table_info[d]
           /\ dynamic_table' \subseteq Ends \X Nat
           /\ \A d \in Ends, i \in Nat : <<d, i>> \in dynamic_table' =>
                 IF d = e
                 THEN \/ /\ <<e, i>> \in dynamic_table
                         /\ ~(i >= dynamic_table_info[e].deleted /\ i < dynamic_table_info'[e].deleted)
                      \/ /\ i >= dynamic_table_info'[e].deleted
                         /\ i < EntriesEnd(dynamic_table_info'[e])
                 ELSE <<d, i>> \in dynamic_table
<1> DEFINE old == dynamic_table_info[e]
           new == Added(old)
           from == Max({old.deleted + old.count, new.deleted})
           gone == {<<e, idx>> : idx \in old.deleted..(new.deleted - 1)}
           fresh == {<<e, idx>> : idx \in from..(new.deleted + new.count - 1)}
<1>1. dynamic_table_info \in [Ends -> Table] /\ old \in Table /\ new \in Table
  BY AddedFacts DEF TypeInv
<1>2. /\ old.deleted \in Nat /\ old.count \in Nat /\ new.deleted \in Nat /\ new.count \in Nat
  BY <1>1 DEF Table
<1>3. from \in Nat /\ from >= new.deleted
  <2>1. old.deleted + old.count \in Nat
    BY <1>2
  <2> HIDE DEF old, new
  <2>2. from = IF old.deleted + old.count <= new.deleted THEN new.deleted
               ELSE old.deleted + old.count
    BY <1>2, <2>1, MaxOfTwo
  <2>3. QED
    BY <1>2, <2>1, <2>2
<1>4. /\ dynamic_table_info' = [dynamic_table_info EXCEPT ![e] = new]
      /\ dynamic_table' = (dynamic_table \ gone) \cup fresh
  BY DEF AddEntries
<1>5. /\ dynamic_table_info' \in [Ends -> Table] /\ dynamic_table_info'[e] = new
      /\ \A d \in Ends : d # e => dynamic_table_info'[d] = dynamic_table_info[d]
  <2> HIDE DEF new
  <2>1. QED
    BY <1>1, <1>4
<1>6. \A x \in fresh : /\ x \in Ends \X Nat /\ x[1] = e
                       /\ x[2] >= new.deleted /\ x[2] < new.deleted + new.count
  <2> HIDE DEF old, new, from
  <2>1. \A idx \in from..(new.deleted + new.count - 1) :
           idx \in Nat /\ idx >= new.deleted /\ idx < new.deleted + new.count
    BY <1>2, <1>3
  <2>2. QED
    BY <2>1
<1>7. dynamic_table' \subseteq Ends \X Nat
  <2> HIDE DEF gone, fresh
  <2>1. dynamic_table \subseteq Ends \X Nat
    BY DEF TypeInv
  <2>2. QED
    BY <1>4, <1>6, <2>1
<1>8. ASSUME NEW d \in Ends, NEW i \in Nat, <<d, i>> \in dynamic_table'
      PROVE  IF d = e
             THEN \/ /\ <<e, i>> \in dynamic_table
                     /\ ~(i >= old.deleted /\ i < new.deleted)
                  \/ i >= new.deleted /\ i < EntriesEnd(new)
             ELSE <<d, i>> \in dynamic_table
  <2>1. CASE <<d, i>> \in fresh
    <3> HIDE DEF fresh
    <3>1. d = e /\ i >= new.deleted /\ i < new.deleted + new.count
      BY <1>6, <2>1
    <3>2. QED
      BY <3>1 DEF EntriesEnd
  <2>2. CASE <<d, i>> \in dynamic_table /\ <<d, i>> \notin gone
    <3> HIDE DEF old, new, fresh
    <3>1. d = e => ~(i >= old.deleted /\ i < new.deleted)
      <4>1. SUFFICES ASSUME d = e, i >= old.deleted, i < new.deleted
                     PROVE  FALSE
        OBVIOUS
      <4>2. i \in old.deleted..(new.deleted - 1)
        BY <1>2, <4>1
      <4>3. QED
        BY <2>2, <4>1, <4>2
    <3>2. QED
      BY <2>2, <3>1
  <2>3. QED
    <3> HIDE DEF gone, fresh
    <3>1. QED
      BY <1>4, <1>8, <2>1, <2>2
<1>9. QED
  BY <1>5, <1>7, <1>8

\* The types at the start of the runner.
LEMMA TypesAtInit == Init => TypeInv
<1> SUFFICES ASSUME Init PROVE TypeInv
  OBVIOUS
<1>1. Closed \in Conn /\ NoTable \in Table
  BY ConnectionsOK DEF Closed, Conn, NoTable, Table
<1>2. <<>> \in Seq(Report) /\ <<>> \in Seq(Frame) /\ <<>> \in Seq(Ends)
  BY EmptySeq
<1>3. results \in Results
  BY <1>2 DEF Init, Results
<1>4. conns \in [Ends -> Conn] /\ dynamic_table_info \in [Ends -> Table]
  BY <1>1 DEF Init, NoTables
<1>5. links \in 0..4 /\ current \in 0..MaxCases
  BY ConnectionsOK DEF Init
<1>6. reports \in Seq(Report) /\ parsed \in Seq(Frame)
  BY <1>2 DEF Init
<1>7. QED
  BY <1>3, <1>4, <1>5, <1>6 DEF Init, TypeInv

\* The steps of the program keep the types.
LEMMA TypesKernel ==
    ASSUME TypeInv, Kernel
    PROVE  TypeInv'
<1>1. ASSUME NEW p \in Ports, Connect(p) PROVE TypeInv'
  <2>1. conns' \in [Ends -> Conn]
    BY <1>1, ConnectFacts
  <2>2. reports' \in Seq(Report)
    BY <1>1, EmitFacts, ReportKinds, EndsOf DEF Connect
  <2>3. QED
    BY <1>1, <2>1, <2>2 DEF Connect, TypeInv, parserVars, runnerVars
<1>2. ASSUME NEW p \in Ports, Accept(p) PROVE TypeInv'
  <2>1. conns' \in [Ends -> Conn]
    BY <1>2, AcceptFacts
  <2>2. reports' \in Seq(Report)
    BY <1>2, EmitFacts, ReportKinds, EndsOf DEF Accept
  <2>3. QED
    BY <1>2, <2>1, <2>2 DEF Accept, TypeInv, parserVars, runnerVars
<1>3. ASSUME NEW p \in Ports, Preface(p) PROVE TypeInv'
  <2>1. upgraded_conns' \subseteq Ends
    BY <1>3, EndsOf DEF Preface, upgrade_conn, TypeInv
  <2>2. QED
    BY <1>3, <2>1 DEF Preface, TypeInv, parserVars, runnerVars
<1>4. ASSUME NEW e \in Ends, SendBlock(e) PROVE TypeInv'
  <2>1. conns' \in [Ends -> Conn]
    BY <1>4, SendBlockFacts
  <2>2. FrameOf(e) \in Frame
    BY FrameOfType
  <2>3. reports' \in Seq(Report)
    BY <1>4, <2>2, EmitFacts, ReportKinds DEF SendBlock
  <2>4. parsed' \in Seq(Frame)
    BY <1>4, <2>2, AppendProperties DEF SendBlock, TypeInv
  <2>5. dynamic_table_info' \in [Ends -> Table] /\ dynamic_table' \subseteq Ends \X Nat
    BY <1>4, AddEntriesFacts DEF SendBlock, TypeInv
  <2>6. QED
    BY <1>4, <2>1, <2>3, <2>4, <2>5 DEF SendBlock, TypeInv, runnerVars
<1>5. ASSUME NEW e \in Ends, CloseEnd(e) PROVE TypeInv'
  <2>1. conns' \in [Ends -> Conn]
    BY <1>5, CloseEndFacts
  <2>2. reports' \in Seq(Report)
    BY <1>5, EmitFacts, ReportKinds DEF CloseEnd
  <2>3. QED
    BY <1>5, <2>1, <2>2 DEF CloseEnd, TypeInv, parserVars, runnerVars
<1>6. QED
  BY <1>1, <1>2, <1>3, <1>4, <1>5 DEF Kernel

\* Asking for a mark keeps them.
LEMMA SyncFacts ==
    ASSUME TypeInv, NEW from, NEW to, sync(from, to)
    PROVE  /\ results' \in Results /\ results'.marked = FALSE
           /\ results'.open = results.open /\ results'.frames = results.frames
           /\ results'.closed = results.closed
           /\ reports' \in Seq(Report) /\ Len(reports) \in Nat
           /\ Len(reports') = Len(reports) + 1 /\ reports'[Len(reports) + 1] = Mark
           /\ \A j \in 1..Len(reports) : reports'[j] = reports[j]
<1>1. results' = [results EXCEPT !.marked = FALSE] /\ results \in Results
  BY DEF sync, TypeInv
<1>2. QED
  BY <1>1, EmitFacts, ReportKinds DEF sync, Results

\* So does handling a report.
LEMMA HandleFacts ==
    ASSUME TypeInv, handle
    PROVE  /\ reports # <<>> /\ Head(reports) \in Report
           /\ results' = Handled(Head(reports)) /\ results' \in Results
           /\ reports' \in Seq(Report) /\ Len(reports) \in Nat \ {0}
           /\ Len(reports') = Len(reports) - 1 /\ Head(reports) = reports[1]
           /\ \A j \in 1..(Len(reports) - 1) : reports'[j] = reports[j + 1]
<1>1. reports # <<>> /\ results' = Handled(Head(reports)) /\ reports' = Tail(reports)
  BY DEF handle
<1>2. QED
  BY <1>1, HeadFacts, HandledFacts

\* And forgetting a table does.
LEMMA ForgetLookupFacts ==
    ASSUME TypeInv, ForgetLookup
    PROVE  /\ results.closed # <<>> /\ Head(results.closed) \in Ends
           /\ Head(results.closed) = results.closed[1] /\ Len(results.closed) \in Nat \ {0}
           /\ results' \in Results /\ results'.open = results.open
           /\ results'.frames = results.frames /\ results'.marked = results.marked
           /\ results'.closed = Tail(results.closed)
           /\ Len(results'.closed) = Len(results.closed) - 1
           /\ \A j \in 1..(Len(results.closed) - 1) :
                 results'.closed[j] = results.closed[j + 1]
           /\ victim' = NoVictim \/ victim' \in Victim
<1>1. results \in Results /\ results.closed \in Seq(Ends) /\ results.closed # <<>>
  BY DEF TypeInv, Results, ForgetLookup
<1>2. /\ Head(results.closed) \in Ends /\ Head(results.closed) = results.closed[1]
      /\ Len(results.closed) \in Nat \ {0}
      /\ Tail(results.closed) \in Seq(Ends)
      /\ Len(Tail(results.closed)) = Len(results.closed) - 1
      /\ \A j \in 1..(Len(results.closed) - 1) :
            Tail(results.closed)[j] = results.closed[j + 1]
  BY <1>1, HeadTailProperties, EmptySeq
<1>3. results' = [results EXCEPT !.closed = Tail(results.closed)]
  BY DEF ForgetLookup
<1>4. /\ results' \in Results /\ results'.open = results.open
      /\ results'.frames = results.frames /\ results'.marked = results.marked
      /\ results'.closed = Tail(results.closed)
  BY <1>1, <1>2, <1>3 DEF Results
<1>5. victim' = NoVictim \/ victim' \in Victim
  <2> DEFINE e == Head(results.closed)
             info == dynamic_table_info[e]
  <2>1. info \in Table
    BY <1>2 DEF TypeInv
  <2>2. info.deleted \in Nat /\ EntriesEnd(info) \in Nat
    BY <2>1, ConnectionsOK DEF Table, EntriesEnd
  <2>3. \/ victim' = [end |-> e, idx |-> info.deleted, stop |-> EntriesEnd(info)]
        \/ victim' = NoVictim
    BY DEF ForgetLookup
  <2> HIDE DEF info
  <2>4. QED
    BY <1>2, <2>2, <2>3 DEF Victim
<1>6. QED
  BY <1>1, <1>2, <1>4, <1>5

\* The steps of the runner keep the types.
LEMMA TypesRunner ==
    ASSUME TypeInv, Runner \/ CaseCommand \/ SyncCheck \/ RunAgain \/ Timeout
    PROVE  TypeInv'
<1>0. results \in Results /\ <<>> \in Seq(Frame) /\ <<>> \in Seq(Ends)
  BY EmptySeq DEF TypeInv
<1>1. CASE CaseCommand
  <2>1. NoTable \in Table
    BY ConnectionsOK DEF NoTable, Table
  <2>2. dynamic_table_info' \in [Ends -> Table]
    BY <1>1, <2>1 DEF CaseCommand, NoTables
  <2>3. current' \in 0..MaxCases
    BY <1>1, ConnectionsOK DEF CaseCommand, TypeInv
  <2>4. links' \in 0..4
    BY <1>1 DEF CaseCommand
  <2>5. QED
    BY <1>1, <2>2, <2>3, <2>4 DEF CaseCommand, TypeInv
<1>2. CASE attach
  <2>1. links' \in 0..4
    BY <1>2, FourSteps DEF attach, FullyAttached, TypeInv
  <2>2. QED
    BY <1>2, <2>1 DEF attach, TypeInv, kernelVars, runnerVars
<1>3. CASE SyncCase
  <2>1. sync("attach", "case_sync") /\ parsed' = <<>>
    BY <1>3 DEF SyncCase
  <2>2. results' \in Results /\ reports' \in Seq(Report)
    BY <2>1, SyncFacts
  <2>3. QED
    BY <1>0, <2>1, <2>2 DEF sync, TypeInv, kernelVars, parserVars
<1>4. CASE SyncCheck
  <2>1. sync("ready", "check_sync") /\ parsed' = parsed
    BY <1>4 DEF SyncCheck
  <2>2. results' \in Results /\ reports' \in Seq(Report)
    BY <2>1, SyncFacts
  <2>3. QED
    BY <2>1, <2>2 DEF sync, TypeInv, kernelVars, parserVars
<1>5. CASE Ready
  <2>1. results' \in Results
    BY <1>0, <1>5 DEF Ready, Results
  <2>2. QED
    BY <1>5, <2>1 DEF Ready, TypeInv, kernelVars, parserVars
<1>6. CASE handle
  <2>1. results' \in Results /\ reports' \in Seq(Report)
    BY <1>6, HandleFacts
  <2>2. QED
    BY <1>6, <2>1 DEF handle, TypeInv, kernelVars, parserVars
<1>7. CASE Synced \/ wait_closed \/ RunAgain
  BY <1>7 DEF Synced, wait_closed, RunAgain, TypeInv, kernelVars, parserVars
<1>8. CASE Check
  <2>1. results' \in Results
    BY <1>0, <1>8 DEF Check, Results
  <2>2. QED
    BY <1>0, <1>8, <2>1 DEF Check, TypeInv, kernelVars, parserVars
<1>9. CASE Timeout
  BY <1>9 DEF Timeout, TypeInv, kernelVars, parserVars
<1>10. CASE ForgetLookup
  <2>1. results' \in Results /\ (victim' = NoVictim \/ victim' \in Victim)
    BY <1>10, ForgetLookupFacts
  <2>2. QED
    BY <1>10, <2>1 DEF ForgetLookup, TypeInv, kernelVars, parserVars
<1>11. CASE ForgetEntry
  <2>1. victim \in Victim
    BY <1>11 DEF ForgetEntry, TypeInv
  <2>2. victim' \in Victim
    BY <1>11, <2>1 DEF ForgetEntry, Victim
  <2>3. dynamic_table' \subseteq dynamic_table
    BY <1>11 DEF ForgetEntry
  <2>4. QED
    BY <1>11, <2>2, <2>3 DEF ForgetEntry, TypeInv, kernelVars
<1>12. CASE ForgetInfo
  <2>1. NoTable \in Table
    BY ConnectionsOK DEF NoTable, Table
  <2>2. dynamic_table_info' \in [Ends -> Table]
    BY <1>12, <2>1 DEF ForgetInfo, TypeInv
  <2>3. QED
    BY <1>12, <2>2 DEF ForgetInfo, TypeInv, kernelVars
<1>13. CASE Forgotten
  BY <1>13 DEF Forgotten, TypeInv, parserVars
<1>14. QED
  BY <1>1, <1>2, <1>3, <1>4, <1>5, <1>6, <1>7, <1>8, <1>9, <1>10, <1>11, <1>12, <1>13 DEF Runner

\* Every step does.
LEMMA TypesStep == TypeInv /\ [Next]_vars => TypeInv'
<1> SUFFICES ASSUME TypeInv, [Next]_vars PROVE TypeInv'
  OBVIOUS
<1>1. CASE UNCHANGED vars
  BY <1>1 DEF vars, TypeInv
<1>2. QED
  BY <1>1, TypesKernel, TypesRunner DEF Next

\* Every state is a well-typed one.
LEMMA Types == Spec => []TypeInv
  BY TypesAtInit, TypesStep, PTL DEF Spec

\* Everything is of its kind, and only ends of connections are open or upgraded.
THEOREM TypeCorrect == Spec => []TypeOK
<1>1. TypeInv => TypeOK
  <2> SUFFICES ASSUME TypeInv PROVE TypeOK
    OBVIOUS
  <2>1. \A e \in Ends : dynamic_table_info[e].count \in 0..TableLimit
    BY DEF TypeInv, Table
  <2>2. results.open \subseteq Ends
    BY DEF TypeInv, Results
  <2>3. QED
    BY <2>1, <2>2, FourSteps DEF TypeInv, TypeOK, Conn
<1>2. QED
  BY <1>1, Types, PTL

-----------------------------------------------------------------------------
(* Upgrades.                                                                 *)

\* An end is upgraded only while it lives; the preface, which comes while the server's
\* end cannot have closed, upgrades both.
UpgradedLive == \A e \in upgraded_conns : conns[e].state # "closed"
PrefaceFinds ==
    \A p \in Ports : IsOpen(Client(p)) /\ Client(p) \notin upgraded_conns =>
                        conns[Server(p)].state # "closed"
UpgradedTogether ==
    \A p \in Ports : Server(p) \in upgraded_conns =>
                        Client(p) \in upgraded_conns \/ conns[Client(p)].state = "closed"

UpgradeInv == UpgradedLive /\ PrefaceFinds /\ UpgradedTogether

\* The steps of the runner leave the connections and their upgrades alone.
LEMMA RunnerLeavesKernel ==
    ASSUME Runner \/ CaseCommand \/ SyncCheck \/ RunAgain \/ Timeout \/ UNCHANGED vars
    PROVE  conns' = conns /\ upgraded_conns' = upgraded_conns /\ num_conns' = num_conns
  BY DEF Runner, CaseCommand, SyncCheck, RunAgain, Timeout, vars, attach, SyncCase, Ready,
         handle, Synced, wait_closed, Check, ForgetLookup, ForgetEntry, ForgetInfo, Forgotten,
         sync, kernelVars

\* The upgrades of ends that are alive are kept in step with the connections.
LEMMA UpgradeStep ==
    ASSUME EarlyClose = FALSE, TypeInv, UpgradeInv, [Next]_vars
    PROVE  UpgradeInv'
<1>0. UpgradedLive /\ PrefaceFinds /\ UpgradedTogether /\ upgraded_conns \subseteq Ends
  BY DEF UpgradeInv, TypeInv
<1>1. ASSUME NEW p \in Ports, Connect(p) PROVE UpgradeInv'
  <2>1. /\ conns[Client(p)].state = "closed" /\ conns[Server(p)].state = "closed"
        /\ upgraded_conns' = upgraded_conns
    BY <1>1 DEF Connect, Free
  <2>2. /\ conns'[Client(p)].state = "open" /\ conns'[Server(p)].state = "opening"
        /\ \A e \in Ends : e # Client(p) /\ e # Server(p) => conns'[e] = conns[e]
    BY <1>1, ConnectFacts
  <2>3. Client(p) \notin upgraded_conns /\ Server(p) \notin upgraded_conns
    BY <1>0, <2>1 DEF UpgradedLive
  <2>4. UpgradedLive'
    BY <1>0, <2>1, <2>2 DEF UpgradedLive
  <2>5. PrefaceFinds'
    BY <1>0, <2>1, <2>2, EndsOf DEF PrefaceFinds, IsOpen
  <2>6. UpgradedTogether'
    BY <1>0, <2>1, <2>2, <2>3, EndsOf DEF UpgradedTogether
  <2>7. QED
    BY <2>4, <2>5, <2>6 DEF UpgradeInv
<1>2. ASSUME NEW p \in Ports, Accept(p) PROVE UpgradeInv'
  <2>1. upgraded_conns' = upgraded_conns /\ conns[Server(p)].state = "opening"
    BY <1>2 DEF Accept
  <2>2. /\ conns'[Server(p)].state = "open"
        /\ \A e \in Ends : e # Server(p) => conns'[e] = conns[e]
    BY <1>2, AcceptFacts
  <2>3. UpgradedLive'
    BY <1>0, <2>1, <2>2 DEF UpgradedLive
  <2>4. PrefaceFinds'
    BY <1>0, <2>1, <2>2, EndsOf DEF PrefaceFinds, IsOpen
  <2>5. UpgradedTogether'
    BY <1>0, <2>1, <2>2, EndsOf DEF UpgradedTogether
  <2>6. QED
    BY <2>3, <2>4, <2>5 DEF UpgradeInv
<1>3. ASSUME NEW p \in Ports, Preface(p) PROVE UpgradeInv'
  <2>1. /\ conns' = conns /\ upgraded_conns' = upgraded_conns \cup {Client(p), Server(p)}
        /\ IsOpen(Client(p)) /\ Client(p) \notin upgraded_conns
    BY <1>3 DEF Preface, upgrade_conn
  <2>2. conns[Client(p)].state # "closed" /\ conns[Server(p)].state # "closed"
    BY <1>0, <2>1 DEF PrefaceFinds, IsOpen
  <2>3. UpgradedLive'
    BY <1>0, <2>1, <2>2 DEF UpgradedLive
  <2>4. PrefaceFinds'
    BY <1>0, <2>1 DEF PrefaceFinds, IsOpen
  <2>5. UpgradedTogether'
    BY <1>0, <2>1, EndsOf DEF UpgradedTogether
  <2>6. QED
    BY <2>3, <2>4, <2>5 DEF UpgradeInv
<1>4. ASSUME NEW e \in Ends, SendBlock(e) PROVE UpgradeInv'
  <2>1. upgraded_conns' = upgraded_conns /\ \A d \in Ends : conns'[d].state = conns[d].state
    BY <1>4, SendBlockFacts DEF SendBlock
  <2>2. QED
    BY <1>0, <2>1, EndsOf DEF UpgradeInv, UpgradedLive, PrefaceFinds, UpgradedTogether, IsOpen
<1>5. ASSUME NEW e \in Ends, CloseEnd(e) PROVE UpgradeInv'
  <2>1. upgraded_conns' = upgraded_conns \ {e} /\ MayClose(e)
    BY <1>5 DEF CloseEnd
  <2>2. /\ conns'[e].state = "closed"
        /\ \A d \in Ends : d # e => conns'[d] = conns[d]
    BY <1>5, CloseEndFacts
  <2>3. UpgradedLive'
    BY <1>0, <2>1, <2>2 DEF UpgradedLive
  <2>4. PICK p \in Ports : e = Client(p) \/ e = Server(p)
    BY EndsOf
  <2>5. e = Server(p) => Client(p) \in upgraded_conns \/ conns[Client(p)].state = "closed"
    <3>1. SUFFICES ASSUME e = Server(p)
                   PROVE  Client(p) \in upgraded_conns \/ conns[Client(p)].state = "closed"
      OBVIOUS
    <3>2. e[2] = "server" /\ e[1] = p
      BY <3>1 DEF Server
    <3>3. e \in upgraded_conns \/ conns[Client(p)].state = "closed"
      BY <2>1, <3>2 DEF MayClose
    <3>4. QED
      BY <1>0, <3>1, <3>3 DEF UpgradedTogether
  <2>6. PrefaceFinds'
    <3>1. SUFFICES ASSUME NEW q \in Ports, conns'[Client(q)].state = "open",
                          Client(q) \notin upgraded_conns'
                   PROVE  conns'[Server(q)].state # "closed"
      BY DEF PrefaceFinds, IsOpen
    <3>2. e # Client(q) /\ Client(q) \in Ends /\ Server(q) \in Ends
      BY <2>2, <3>1, EndsOf
    <3>3. conns[Client(q)].state = "open" /\ Client(q) \notin upgraded_conns
      BY <2>1, <2>2, <3>1, <3>2
    <3>4. conns[Server(q)].state # "closed"
      BY <1>0, <3>3 DEF PrefaceFinds, IsOpen
    <3>5. e # Server(q)
      BY <2>4, <2>5, <3>2, <3>3, EndsOf
    <3>6. QED
      BY <2>2, <3>2, <3>4, <3>5
  <2>7. UpgradedTogether'
    BY <1>0, <2>1, <2>2, EndsOf DEF UpgradedTogether
  <2>8. QED
    BY <2>3, <2>6, <2>7 DEF UpgradeInv
<1>6. ASSUME conns' = conns, upgraded_conns' = upgraded_conns PROVE UpgradeInv'
  BY <1>0, <1>6 DEF UpgradeInv, UpgradedLive, PrefaceFinds, UpgradedTogether, IsOpen
<1>7. QED
  BY <1>1, <1>2, <1>3, <1>4, <1>5, <1>6, RunnerLeavesKernel DEF Next, Kernel

\* A connection that is closed leaves neither end upgraded to a later one, where the
\* server does not close before the client's preface: monitor_sockets takes the upgrade
\* of each end away as it closes, and the preface adds them for both ends at once.
THEOREM Upgrades == ASSUME EarlyClose = FALSE PROVE Spec => []UpgradesForgotten
<1>1. Init => UpgradeInv
  BY EndsOf DEF Init, UpgradeInv, UpgradedLive, PrefaceFinds, UpgradedTogether, IsOpen, Closed
<1>2. TypeInv /\ UpgradeInv /\ [Next]_vars => UpgradeInv'
  BY UpgradeStep
<1>3. TypeInv /\ UpgradeInv => UpgradesForgotten
  BY DEF UpgradeInv, UpgradedLive, UpgradesForgotten
<1>4. QED
  BY <1>1, <1>2, <1>3, Types, PTL DEF Spec

-----------------------------------------------------------------------------
(* The frames on their way.                                                  *)

\* The frames of the reports rs behind position m are those of fs behind the first n,
\* in their order: pos says where each of them is.
Enumerates(pos, rs, fs, n, m) ==
    /\ \A i \in DOMAIN pos : rs[pos[i]] = fs[n + i] /\ rs[pos[i]].kind = "frame"
    /\ \A i, j \in DOMAIN pos : i < j => pos[i] < pos[j]
    /\ \A j \in (m + 1)..Len(rs) : rs[j].kind = "frame" => \E i \in DOMAIN pos : pos[i] = j

OnTheirWay(rs, fs, n, m) ==
    \E pos \in [1..(Len(fs) - n) -> (m + 1)..Len(rs)] : Enumerates(pos, rs, fs, n, m)

\* None are behind the last report.
LEMMA NoneBehindLast ==
    ASSUME NEW rs \in Seq(Report)
    PROVE  OnTheirWay(rs, <<>>, 0, Len(rs))
<1> DEFINE pos == [i \in 1..0 |-> 0]
<1>1. Len(rs) \in Nat /\ Len(<<>>) = 0
  BY LenProperties, EmptySeq
<1>2. pos \in [1..(Len(<<>>) - 0) -> (Len(rs) + 1)..Len(rs)]
  BY <1>1
<1>3. Enumerates(pos, rs, <<>>, 0, Len(rs))
  BY <1>1 DEF Enumerates
<1>4. QED
  BY <1>2, <1>3 DEF OnTheirWay

\* With nothing on its way all of them have arrived.
LEMMA AllArrived ==
    ASSUME NEW fs \in Seq(Frame), NEW n \in 0..Len(fs), OnTheirWay(<<>>, fs, n, 0)
    PROVE  n = Len(fs)
<1>1. Len(fs) \in Nat /\ Len(<<>>) = 0
  BY LenProperties, EmptySeq
<1>2. PICK pos \in [1..(Len(fs) - n) -> 1..0] : TRUE
  BY <1>1 DEF OnTheirWay
<1>3. 1 \notin 1..(Len(fs) - n)
  <2>1. SUFFICES ASSUME 1 \in 1..(Len(fs) - n) PROVE FALSE
    OBVIOUS
  <2>2. pos[1] \in 1..0
    BY <1>2, <2>1
  <2>3. QED
    BY <2>2
<1>4. QED
  BY <1>1, <1>3

\* A report of another kind adds nothing to them.
LEMMA OtherReported ==
    ASSUME NEW rs \in Seq(Report), NEW fs \in Seq(Frame), NEW n \in Nat, NEW m \in 0..Len(rs),
           OnTheirWay(rs, fs, n, m), NEW r \in Report, r.kind # "frame"
    PROVE  OnTheirWay(Append(rs, r), fs, n, m)
<1>1. /\ Append(rs, r) \in Seq(Report) /\ Len(rs) \in Nat /\ Len(fs) \in Nat
      /\ Len(Append(rs, r)) = Len(rs) + 1 /\ Append(rs, r)[Len(rs) + 1] = r
      /\ \A j \in 1..Len(rs) : Append(rs, r)[j] = rs[j]
  BY AppendProperties, LenProperties
<1>2. PICK pos \in [1..(Len(fs) - n) -> (m + 1)..Len(rs)] : Enumerates(pos, rs, fs, n, m)
  BY DEF OnTheirWay
<1> DEFINE qs == Append(rs, r)
<1> HIDE DEF qs
<1>3. DOMAIN pos = 1..(Len(fs) - n) /\ \A i \in DOMAIN pos : pos[i] \in 1..Len(rs)
  BY <1>1, <1>2
<1>4. pos \in [1..(Len(fs) - n) -> (m + 1)..Len(qs)]
  BY <1>1, <1>2 DEF qs
<1>5. Enumerates(pos, qs, fs, n, m)
  <2>1. \A i \in DOMAIN pos : qs[pos[i]] = fs[n + i] /\ qs[pos[i]].kind = "frame"
    BY <1>1, <1>2, <1>3 DEF qs, Enumerates
  <2>2. ASSUME NEW j \in (m + 1)..Len(qs), qs[j].kind = "frame"
        PROVE  \E i \in DOMAIN pos : pos[i] = j
    <3>1. j # Len(rs) + 1
      BY <1>1, <2>2 DEF qs
    <3>2. j \in (m + 1)..Len(rs) /\ qs[j] = rs[j]
      BY <1>1, <3>1 DEF qs
    <3>3. QED
      BY <1>2, <2>2, <3>2 DEF Enumerates
  <2>3. QED
    BY <1>2, <2>1, <2>2 DEF Enumerates
<1>6. QED
  BY <1>4, <1>5 DEF OnTheirWay, qs

\* A frame that is reported is the last of them.
LEMMA FrameReported ==
    ASSUME NEW rs \in Seq(Report), NEW fs \in Seq(Frame), NEW n \in 0..Len(fs),
           NEW m \in 0..Len(rs), OnTheirWay(rs, fs, n, m), NEW f \in Frame
    PROVE  OnTheirWay(Append(rs, f), Append(fs, f), n, m)
<1>1. /\ f \in Report /\ f.kind = "frame"
      /\ Append(rs, f) \in Seq(Report) /\ Len(rs) \in Nat /\ Len(fs) \in Nat
      /\ Len(Append(rs, f)) = Len(rs) + 1 /\ Append(rs, f)[Len(rs) + 1] = f
      /\ \A j \in 1..Len(rs) : Append(rs, f)[j] = rs[j]
  BY AppendProperties, LenProperties, ReportKinds
<1>2. /\ Len(Append(fs, f)) = Len(fs) + 1 /\ Append(fs, f)[Len(fs) + 1] = f
      /\ \A j \in 1..Len(fs) : Append(fs, f)[j] = fs[j]
  BY AppendProperties
<1>3. PICK pos \in [1..(Len(fs) - n) -> (m + 1)..Len(rs)] : Enumerates(pos, rs, fs, n, m)
  BY DEF OnTheirWay
<1> DEFINE qs == Append(rs, f)
           gs == Append(fs, f)
           k == Len(fs) - n
           pos2 == [i \in 1..(k + 1) |-> IF i = k + 1 THEN Len(rs) + 1 ELSE pos[i]]
<1>4. /\ k \in Nat /\ DOMAIN pos = 1..k /\ DOMAIN pos2 = 1..(k + 1) /\ n \in Nat /\ m \in Nat
      /\ \A i \in 1..k : pos[i] \in 1..Len(rs) /\ pos[i] >= m + 1
  BY <1>1, <1>3
<1>a. /\ pos2[k + 1] = Len(rs) + 1 /\ k + 1 \in 1..(k + 1)
      /\ \A i \in 1..(k + 1) : i # k + 1 => i \in 1..k
      /\ \A i \in 1..k : pos2[i] = pos[i] /\ i \in 1..(k + 1) /\ n + i \in 1..Len(fs)
  <2>1. Len(fs) = n + k
    BY <1>1
  <2> HIDE DEF k
  <2>2. QED
    BY <1>1, <1>4, <2>1
<1>b. n + k + 1 = Len(fs) + 1
  BY <1>1
<1> HIDE DEF qs, gs, k, pos2
<1>5. pos2 \in [1..(Len(gs) - n) -> (m + 1)..Len(qs)]
  <2>1. Len(gs) - n = k + 1 /\ Len(qs) = Len(rs) + 1
    BY <1>1, <1>2 DEF qs, gs, k
  <2>2. ASSUME NEW i \in 1..(k + 1) PROVE pos2[i] \in (m + 1)..(Len(rs) + 1)
    BY <1>1, <1>4, <1>a
  <2>3. QED
    BY <1>4, <2>1, <2>2 DEF pos2
<1>6. Enumerates(pos2, qs, gs, n, m)
  <2>1. ASSUME NEW i \in 1..(k + 1)
        PROVE  qs[pos2[i]] = gs[n + i] /\ qs[pos2[i]].kind = "frame"
    <3>1. CASE i = k + 1
      <4>1. pos2[i] = Len(rs) + 1 /\ n + i = Len(fs) + 1
        BY <1>4, <1>a, <1>b, <3>1
      <4>2. QED
        BY <1>1, <1>2, <4>1 DEF qs, gs
    <3>2. CASE i # k + 1
      <4>1. i \in 1..k /\ pos2[i] = pos[i] /\ n + i \in 1..Len(fs)
        BY <1>a, <3>2
      <4>2. rs[pos[i]] = fs[n + i] /\ rs[pos[i]].kind = "frame"
        BY <1>3, <1>4, <4>1 DEF Enumerates
      <4>3. QED
        BY <1>1, <1>2, <1>4, <4>1, <4>2 DEF qs, gs
    <3>3. QED
      BY <3>1, <3>2
  <2>2. ASSUME NEW i \in 1..(k + 1), NEW j \in 1..(k + 1), i < j
        PROVE  pos2[i] < pos2[j]
    <3>1. i \in 1..k /\ pos2[i] = pos[i]
      BY <1>4, <1>a, <2>2
    <3>2. CASE j = k + 1
      BY <1>1, <1>4, <1>a, <3>1, <3>2
    <3>3. CASE j # k + 1
      <4>1. j \in 1..k /\ pos2[j] = pos[j]
        BY <1>a, <3>3
      <4>2. QED
        BY <1>3, <1>4, <2>2, <3>1, <4>1 DEF Enumerates
    <3>4. QED
      BY <3>2, <3>3
  <2>3. ASSUME NEW j \in (m + 1)..Len(qs), qs[j].kind = "frame"
        PROVE  \E i \in 1..(k + 1) : pos2[i] = j
    <3>1. CASE j = Len(rs) + 1
      BY <1>a, <3>1
    <3>2. CASE j # Len(rs) + 1
      <4>1. j \in (m + 1)..Len(rs) /\ qs[j] = rs[j]
        BY <1>1, <1>4, <3>2 DEF qs
      <4>2. PICK i \in 1..k : pos[i] = j
        BY <1>3, <1>4, <2>3, <4>1 DEF Enumerates
      <4>3. i \in 1..(k + 1) /\ pos2[i] = j
        BY <1>a, <4>2
      <4>4. QED
        BY <4>3
    <3>3. QED
      BY <3>1, <3>2
  <2>4. QED
    BY <1>4, <2>1, <2>2, <2>3 DEF Enumerates
<1>7. QED
  BY <1>5, <1>6 DEF OnTheirWay, qs, gs

\* What is handed over moves the reports behind it up.
LEMMA TailFacts ==
    ASSUME NEW rs \in Seq(Report), rs # <<>>
    PROVE  /\ Head(rs) = rs[1] /\ Len(rs) \in Nat \ {0} /\ rs[1] \in Report
           /\ Tail(rs) \in Seq(Report) /\ Len(Tail(rs)) = Len(rs) - 1
           /\ \A j \in 1..(Len(rs) - 1) : Tail(rs)[j] = rs[j + 1]
  BY HeadTailProperties, EmptySeq

\* A report before them, or of another kind, is not one of them.
LEMMA OtherHandled ==
    ASSUME NEW rs \in Seq(Report), rs # <<>>, NEW fs \in Seq(Frame), NEW n \in Nat,
           NEW m \in 0..Len(rs), OnTheirWay(rs, fs, n, m), m > 0 \/ rs[1].kind # "frame"
    PROVE  OnTheirWay(Tail(rs), fs, n, IF m > 0 THEN m - 1 ELSE 0)
<1>1. /\ Len(rs) \in Nat \ {0} /\ Len(Tail(rs)) = Len(rs) - 1 /\ m \in Nat /\ Len(fs) \in Nat
      /\ \A j \in 1..(Len(rs) - 1) : Tail(rs)[j] = rs[j + 1]
  BY TailFacts, LenProperties
<1>2. PICK pos \in [1..(Len(fs) - n) -> (m + 1)..Len(rs)] : Enumerates(pos, rs, fs, n, m)
  BY DEF OnTheirWay
<1> DEFINE qs == Tail(rs)
           k == Len(fs) - n
           l == IF m > 0 THEN m - 1 ELSE 0
           pos2 == [i \in 1..k |-> pos[i] - 1]
<1>3. /\ DOMAIN pos = 1..k /\ DOMAIN pos2 = 1..k /\ l \in Nat
      /\ \A i \in 1..k : pos2[i] = pos[i] - 1
  BY <1>1, <1>2
<1>4. ASSUME NEW i \in 1..k
      PROVE  pos[i] \in 2..Len(rs) /\ pos[i] >= l + 2
  <2>1. pos[i] \in (m + 1)..Len(rs) /\ rs[pos[i]].kind = "frame"
    BY <1>2, <1>3 DEF Enumerates
  <2>2. m > 0 \/ pos[i] # 1
    BY <2>1
  <2>3. QED
    BY <1>1, <2>1, <2>2
<1> HIDE DEF k, pos2
<1>5. pos2 \in [1..k -> (l + 1)..Len(qs)]
  <2>1. ASSUME NEW i \in 1..k PROVE pos[i] - 1 \in (l + 1)..Len(qs)
    BY <1>1, <1>3, <1>4
  <2>2. QED
    BY <2>1 DEF pos2
<1>6. Enumerates(pos2, qs, fs, n, l)
  <2>1. ASSUME NEW i \in 1..k
        PROVE  qs[pos2[i]] = fs[n + i] /\ qs[pos2[i]].kind = "frame"
    <3>1. pos2[i] \in 1..(Len(rs) - 1) /\ pos2[i] + 1 = pos[i]
      BY <1>1, <1>3, <1>4
    <3>2. qs[pos2[i]] = rs[pos[i]]
      BY <1>1, <3>1
    <3>3. i \in DOMAIN pos
      BY <1>3
    <3>4. rs[pos[i]] = fs[n + i] /\ rs[pos[i]].kind = "frame"
      BY <1>2, <3>3 DEF Enumerates
    <3>5. QED
      BY <3>2, <3>4
  <2>2. ASSUME NEW i \in 1..k, NEW j \in 1..k, i < j
        PROVE  pos2[i] < pos2[j]
    <3>1. pos[i] < pos[j]
      BY <1>2, <1>3, <2>2 DEF Enumerates
    <3>2. QED
      BY <1>1, <1>3, <1>4, <3>1
  <2>3. ASSUME NEW j \in (l + 1)..Len(qs), qs[j].kind = "frame"
        PROVE  \E i \in 1..k : pos2[i] = j
    <3>1. j \in 1..(Len(rs) - 1) /\ j + 1 \in (m + 1)..Len(rs)
      BY <1>1, <1>3
    <3>2. rs[j + 1].kind = "frame"
      BY <1>1, <2>3, <3>1
    <3>3. PICK i \in 1..k : pos[i] = j + 1
      BY <1>2, <1>3, <3>1, <3>2 DEF Enumerates
    <3>4. pos2[i] = j
      BY <1>3, <3>1, <3>3
    <3>5. QED
      BY <3>4
  <2>4. QED
    BY <1>3, <2>1, <2>2, <2>3 DEF Enumerates
<1>7. QED
  BY <1>5, <1>6 DEF OnTheirWay, k

\* The first report, when a frame, is the first of them.
LEMMA FrameHandled ==
    ASSUME NEW rs \in Seq(Report), rs # <<>>, NEW fs \in Seq(Frame), NEW n \in 0..Len(fs),
           OnTheirWay(rs, fs, n, 0), rs[1].kind = "frame"
    PROVE  n < Len(fs) /\ fs[n + 1] = rs[1] /\ OnTheirWay(Tail(rs), fs, n + 1, 0)
<1>1. /\ Len(rs) \in Nat \ {0} /\ Len(Tail(rs)) = Len(rs) - 1 /\ Len(fs) \in Nat /\ n \in Nat
      /\ \A j \in 1..(Len(rs) - 1) : Tail(rs)[j] = rs[j + 1]
  BY TailFacts, LenProperties
<1>2. PICK pos \in [1..(Len(fs) - n) -> (0 + 1)..Len(rs)] : Enumerates(pos, rs, fs, n, 0)
  BY DEF OnTheirWay
<1> DEFINE qs == Tail(rs)
           k == Len(fs) - n
           h == Len(fs) - (n + 1)
           pos2 == [i \in 1..h |-> pos[i + 1] - 1]
<1>3. DOMAIN pos = 1..k /\ k \in Nat /\ h = k - 1 /\ \A i \in 1..k : pos[i] \in 1..Len(rs)
  BY <1>1, <1>2
<1>4. /\ \A i \in 1..k : rs[pos[i]] = fs[n + i] /\ rs[pos[i]].kind = "frame"
      /\ \A i, j \in 1..k : i < j => pos[i] < pos[j]
      /\ \A j \in 1..Len(rs) : rs[j].kind = "frame" => \E i \in 1..k : pos[i] = j
  <2>1. (0 + 1)..Len(rs) = 1..Len(rs)
    BY <1>1
  <2>2. QED
    BY <1>2, <1>3, <2>1 DEF Enumerates
<1>5. DOMAIN pos2 = 1..h /\ \A i \in 1..h : pos2[i] = pos[i + 1] - 1
  OBVIOUS
<1> HIDE DEF k, h, pos2
<1>6. 1 \in 1..k /\ pos[1] = 1
  <2>1. PICK i \in 1..k : pos[i] = 1
    BY <1>1, <1>4
  <2>2. 1 \in 1..k
    BY <1>3, <2>1
  <2>3. i = 1
    <3>1. SUFFICES ASSUME i # 1 PROVE FALSE
      OBVIOUS
    <3>2. 1 < i
      BY <1>3, <2>1, <3>1
    <3>3. pos[1] < 1 /\ pos[1] \in 1..Len(rs)
      BY <1>3, <1>4, <2>1, <2>2, <3>2
    <3>4. QED
      BY <1>1, <3>3
  <2>4. QED
    BY <2>1, <2>2, <2>3
<1>7. n < Len(fs) /\ fs[n + 1] = rs[1]
  <2>1. k > 0
    BY <1>3, <1>6
  <2>2. QED
    BY <1>1, <1>4, <1>6, <2>1 DEF k
<1>8. ASSUME NEW i \in 1..h
      PROVE  i + 1 \in 1..k /\ pos[i + 1] \in 2..Len(rs)
  <2>1. i + 1 \in 1..k /\ 1 < i + 1
    BY <1>3
  <2>2. pos[1] < pos[i + 1] /\ pos[i + 1] \in 1..Len(rs)
    BY <1>3, <1>4, <1>6, <2>1
  <2>3. QED
    BY <1>1, <1>6, <2>1, <2>2
<1>9. pos2 \in [1..h -> (0 + 1)..Len(qs)]
  <2>1. ASSUME NEW i \in 1..h PROVE pos[i + 1] - 1 \in (0 + 1)..Len(qs)
    BY <1>1, <1>8
  <2>2. QED
    BY <2>1 DEF pos2
<1>10. Enumerates(pos2, qs, fs, n + 1, 0)
  <2>1. ASSUME NEW i \in 1..h
        PROVE  qs[pos2[i]] = fs[n + 1 + i] /\ qs[pos2[i]].kind = "frame"
    <3>1. pos2[i] \in 1..(Len(rs) - 1) /\ pos2[i] + 1 = pos[i + 1]
      BY <1>1, <1>5, <1>8
    <3>2. qs[pos2[i]] = rs[pos[i + 1]] /\ n + (i + 1) = n + 1 + i
      BY <1>1, <3>1
    <3>3. i + 1 \in 1..k
      BY <1>8
    <3>4. rs[pos[i + 1]] = fs[n + (i + 1)] /\ rs[pos[i + 1]].kind = "frame"
      BY <1>4, <3>3
    <3>5. QED
      BY <3>2, <3>4
  <2>2. ASSUME NEW i \in 1..h, NEW j \in 1..h, i < j
        PROVE  pos2[i] < pos2[j]
    <3>1. pos[i + 1] < pos[j + 1]
      BY <1>4, <1>8, <2>2
    <3>2. QED
      BY <1>1, <1>5, <1>8, <3>1
  <2>3. ASSUME NEW j \in (0 + 1)..Len(qs), qs[j].kind = "frame"
        PROVE  \E i \in 1..h : pos2[i] = j
    <3>1. j \in 1..(Len(rs) - 1) /\ j + 1 \in 1..Len(rs)
      BY <1>1
    <3>2. rs[j + 1].kind = "frame"
      BY <1>1, <2>3, <3>1
    <3>3. PICK i \in 1..k : pos[i] = j + 1
      BY <1>4, <3>1, <3>2
    <3>4. i # 1
      BY <1>6, <3>1, <3>3
    <3>5. i - 1 \in 1..h /\ (i - 1) + 1 = i
      BY <1>3, <3>4
    <3>6. pos2[i - 1] = j
      <4>1. pos2[i - 1] = pos[(i - 1) + 1] - 1
        BY <1>5, <3>5
      <4>2. pos2[i - 1] = (j + 1) - 1
        BY <3>3, <3>5, <4>1
      <4>3. QED
        BY <3>1, <4>2
    <3>7. QED
      BY <3>5, <3>6
  <2>4. QED
    BY <1>5, <2>1, <2>2, <2>3 DEF Enumerates
<1>11. QED
  BY <1>7, <1>9, <1>10 DEF OnTheirWay, h

-----------------------------------------------------------------------------
(* The invariant of the reports.                                             *)

\* h2spec has closed its ends before a check goes on, and an end that is being
\* established has a client that is.
ClientsGone == pc # "ready" => \A p \in Ports : conns[Client(p)].state = "closed"
Handshakes ==
    \A p \in Ports : /\ conns[Client(p)].state # "opening"
                     /\ conns[Server(p)].state = "opening" => IsOpen(Client(p))

\* An open end is known to be open by the runner, or its opening is on its way, and
\* its closing is not.
ClosesOf(rs, k, e) == rs[k].kind = "close" /\ rs[k].end = e
Tracked(rs, open, e) ==
    \/ \E j \in 1..Len(rs) : /\ rs[j].kind = "open" /\ rs[j].end = e
                             /\ \A k \in (j + 1)..Len(rs) : ~ClosesOf(rs, k, e)
    \/ e \in open /\ \A k \in 1..Len(rs) : ~ClosesOf(rs, k, e)
OpenTracked == \A e \in Ends : IsOpen(e) => Tracked(reports, results.open, e)
NoneOpen == pc = "drain" => results.open = {}

\* The frames of this check that the runner has: until the case starts, what it holds
\* is of the case before.
Handed == IF pc = "case_sync" THEN 0 ELSE Len(results.frames)
HandedOver ==
    Handed \in 0..Len(parsed) /\ \A i \in 1..Handed : results.frames[i] = parsed[i]

\* The one mark on its way is at m, or there is none; openings are before the mark of a
\* check; and the frames of the check are on their way, behind the mark of a case.
Awaited == pc \in {"case_sync", "check_sync"} /\ ~results.marked
MarkAt(m) ==
    /\ m \in 0..Len(reports) /\ (m > 0 <=> Awaited)
    /\ \A j \in 1..Len(reports) : reports[j].kind = "mark" <=> j = m
OpensBefore(m) ==
    pc # "ready" => \A j \in 1..Len(reports) : reports[j].kind = "open" =>
                                                   pc = "check_sync" /\ j < m
FramesBehind(m) == OnTheirWay(reports, parsed, Handed, IF pc = "case_sync" THEN m ELSE 0)
Reported == \E m \in 0..Len(reports) : MarkAt(m) /\ OpensBefore(m) /\ FramesBehind(m)

MissInv ==
    ClientsGone /\ Handshakes /\ OpenTracked /\ NoneOpen /\ HandedOver /\ Reported

-----------------------------------------------------------------------------
(* What is known of the ends.                                                *)

\* A report other than its closing leaves an end as it is known.
LEMMA TrackedOn ==
    ASSUME TypeInv, NEW r \in Report, emit(r), NEW e \in Ends,
           Tracked(reports, results.open, e), ~(r.kind = "close" /\ r.end = e)
    PROVE  Tracked(reports', results.open, e)
<1>1. /\ Len(reports) \in Nat /\ Len(reports') = Len(reports) + 1
      /\ reports'[Len(reports) + 1] = r
      /\ \A j \in 1..Len(reports) : reports'[j] = reports[j]
  BY EmitFacts
<1>2. ASSUME NEW k \in 1..Len(reports'), ClosesOf(reports', k, e)
      PROVE  k \in 1..Len(reports) /\ ClosesOf(reports, k, e)
  BY <1>1, <1>2 DEF ClosesOf
<1>3. CASE e \in results.open /\ \A k \in 1..Len(reports) : ~ClosesOf(reports, k, e)
  BY <1>2, <1>3 DEF Tracked
<1>4. ASSUME NEW j \in 1..Len(reports), reports[j].kind = "open", reports[j].end = e,
             \A k \in (j + 1)..Len(reports) : ~ClosesOf(reports, k, e)
      PROVE  Tracked(reports', results.open, e)
  <2>1. j \in 1..Len(reports') /\ reports'[j] = reports[j]
    BY <1>1
  <2>2. \A k \in (j + 1)..Len(reports') : ~ClosesOf(reports', k, e)
    <3>1. ASSUME NEW k \in (j + 1)..Len(reports'), ClosesOf(reports', k, e) PROVE FALSE
      <4>1. k \in 1..Len(reports') /\ k >= j + 1
        BY <1>1
      <4>2. k \in 1..Len(reports) /\ ClosesOf(reports, k, e)
        BY <1>2, <3>1, <4>1
      <4>3. k \in (j + 1)..Len(reports)
        BY <1>1, <4>1, <4>2
      <4>4. QED
        BY <1>4, <4>2, <4>3
    <3>2. QED
      BY <3>1
  <2>3. QED
    BY <1>4, <2>1, <2>2 DEF Tracked
<1>5. QED
  BY <1>3, <1>4 DEF Tracked

\* The opening of an end makes it known.
LEMMA TrackedFrom ==
    ASSUME TypeInv, NEW e \in Ends, emit(Open(e))
    PROVE  Tracked(reports', results.open, e)
<1>1. /\ Len(reports) \in Nat /\ Len(reports') = Len(reports) + 1
      /\ reports'[Len(reports) + 1] = Open(e)
  BY EmitFacts, ReportKinds
<1>2. Len(reports) + 1 \in 1..Len(reports')
  BY <1>1
<1>3. \A k \in (Len(reports) + 1 + 1)..Len(reports') : ~ClosesOf(reports', k, e)
  BY <1>1
<1>4. QED
  BY <1>1, <1>2, <1>3, ReportKinds DEF Tracked

\* Handling a report leaves an end that is known to be open so.
LEMMA TrackedHandled ==
    ASSUME TypeInv, handle, NEW e \in Ends, Tracked(reports, results.open, e)
    PROVE  Tracked(reports', results'.open, e)
<1> DEFINE r == reports[1]
<1>1. /\ r \in Report /\ results' = Handled(r) /\ Len(reports) \in Nat \ {0}
      /\ Len(reports') = Len(reports) - 1
      /\ \A j \in 1..(Len(reports) - 1) : reports'[j] = reports[j + 1]
  BY HandleFacts
<1>2. /\ r.kind \in {"open", "close", "frame", "mark"}
      /\ r.kind = "open" => results'.open = results.open \cup {r.end}
      /\ r.kind = "close" => results'.open = results.open \ {r.end}
      /\ r.kind \in {"frame", "mark"} => results'.open = results.open
  BY <1>1, HandledFacts
<1> HIDE DEF r
<1>3. ASSUME NEW k \in 1..Len(reports'), ClosesOf(reports', k, e)
      PROVE  k + 1 \in 1..Len(reports) /\ ClosesOf(reports, k + 1, e)
  BY <1>1, <1>3 DEF ClosesOf
<1>4. CASE e \in results.open /\ \A k \in 1..Len(reports) : ~ClosesOf(reports, k, e)
  <2>1. ~(r.kind = "close" /\ r.end = e)
    <3>1. 1 \in 1..Len(reports)
      BY <1>1
    <3>2. QED
      BY <1>4, <3>1 DEF ClosesOf, r
  <2>2. e \in results'.open
    BY <1>2, <1>4, <2>1
  <2>3. QED
    BY <1>3, <1>4, <2>2 DEF Tracked
<1>5. ASSUME NEW j \in 1..Len(reports), reports[j].kind = "open", reports[j].end = e,
             \A k \in (j + 1)..Len(reports) : ~ClosesOf(reports, k, e)
      PROVE  Tracked(reports', results'.open, e)
  <2>1. ASSUME NEW k \in 1..Len(reports'), k >= j, ClosesOf(reports', k, e) PROVE FALSE
    <3>1. k + 1 \in (j + 1)..Len(reports)
      BY <1>1, <2>1
    <3>2. QED
      BY <1>3, <1>5, <2>1, <3>1
  <2>2. CASE j = 1
    <3>1. e \in results'.open
      BY <1>2, <1>5, <2>2 DEF r
    <3>2. \A k \in 1..Len(reports') : ~ClosesOf(reports', k, e)
      BY <1>1, <2>1, <2>2
    <3>3. QED
      BY <3>1, <3>2 DEF Tracked
  <2>3. CASE j # 1
    <3>1. /\ j - 1 \in 1..Len(reports') /\ (j - 1) + 1 = j
          /\ reports'[j - 1] = reports[j]
      <4>1. j - 1 \in 1..(Len(reports) - 1) /\ (j - 1) + 1 = j
        BY <1>1, <2>3
      <4>2. reports'[j - 1] = reports[(j - 1) + 1]
        BY <1>1, <4>1
      <4>3. QED
        BY <1>1, <4>1, <4>2
    <3>2. \A k \in ((j - 1) + 1)..Len(reports') : ~ClosesOf(reports', k, e)
      <4>1. \A k \in j..Len(reports') : k \in 1..Len(reports') /\ k >= j
        BY <1>1
      <4>2. QED
        BY <2>1, <3>1, <4>1
    <3>3. QED
      BY <1>5, <3>1, <3>2 DEF Tracked
  <2>4. QED
    BY <2>2, <2>3
<1>6. QED
  BY <1>4, <1>5 DEF Tracked

-----------------------------------------------------------------------------
(* What is known of the reports.                                             *)

\* The frames that were handed over are some of those the runner holds.
LEMMA HandedType ==
    ASSUME TypeInv
    PROVE  /\ Len(results.frames) \in Nat /\ Len(parsed) \in Nat /\ Handed \in Nat
           /\ results.frames \in Seq(Frame) /\ parsed \in Seq(Frame) /\ reports \in Seq(Report)
           /\ results.marked \in BOOLEAN /\ Len(reports) \in Nat
  BY LenProperties DEF TypeInv, Results, Handed

\* The program reports an end or a frame.
LEMMA ProgramReports ==
    ASSUME TypeInv, HandedOver, Reported, NEW r \in Report, emit(r), pc' = pc,
           results' = results, r.kind \in {"open", "close", "frame"},
           r.kind = "open" => pc = "ready",
           parsed' = IF r.kind = "frame" THEN Append(parsed, r) ELSE parsed,
           r.kind = "frame" => r \in Frame
    PROVE  HandedOver' /\ Reported'
<1>1. /\ Len(reports) \in Nat /\ Len(reports') = Len(reports) + 1
      /\ reports'[Len(reports) + 1] = r /\ reports' = Append(reports, r)
      /\ \A j \in 1..Len(reports) : reports'[j] = reports[j]
  BY EmitFacts DEF emit
<1>2. PICK m \in 0..Len(reports) : MarkAt(m) /\ OpensBefore(m) /\ FramesBehind(m)
  BY DEF Reported
<1>3. Handed' = Handed /\ Awaited' = Awaited
  BY DEF Handed, Awaited
<1>4. /\ parsed \in Seq(Frame) /\ Len(parsed) \in Nat /\ Handed \in 0..Len(parsed)
      /\ reports \in Seq(Report)
  BY HandedType DEF HandedOver
<1>5. /\ parsed' \in Seq(Frame) /\ Len(parsed') \in Nat /\ Len(parsed') >= Len(parsed)
      /\ \A j \in 1..Len(parsed) : parsed'[j] = parsed[j]
  <2>1. CASE r.kind = "frame"
    BY <1>4, <2>1, AppendProperties
  <2>2. CASE r.kind # "frame"
    BY <1>4, <2>2
  <2>3. QED
    BY <2>1, <2>2
<1>6. HandedOver'
  <2>1. Handed \in 0..Len(parsed') /\ \A i \in 1..Handed : i \in 1..Len(parsed)
    BY <1>4, <1>5
  <2>2. \A i \in 1..Handed : results.frames[i] = parsed'[i]
    BY <1>5, <2>1 DEF HandedOver
  <2>3. QED
    BY <1>3, <2>1, <2>2 DEF HandedOver
<1>7. MarkAt(m)'
  <2>1. m \in 0..Len(reports') /\ (m > 0 <=> Awaited')
    BY <1>1, <1>2, <1>3 DEF MarkAt
  <2>2. ASSUME NEW j \in 1..Len(reports')
        PROVE  reports'[j].kind = "mark" <=> j = m
    <3>1. CASE j = Len(reports) + 1
      BY <1>1, <1>2, <3>1
    <3>2. CASE j # Len(reports) + 1
      <4>1. j \in 1..Len(reports)
        BY <1>1, <3>2
      <4>2. QED
        BY <1>1, <1>2, <4>1 DEF MarkAt
    <3>3. QED
      BY <3>1, <3>2
  <2>3. QED
    BY <2>1, <2>2 DEF MarkAt
<1>8. OpensBefore(m)'
  <2>1. ASSUME pc # "ready", NEW j \in 1..Len(reports'), reports'[j].kind = "open"
        PROVE  pc = "check_sync" /\ j < m
    <3>1. j \in 1..Len(reports) /\ reports'[j] = reports[j]
      BY <1>1, <2>1
    <3>2. QED
      BY <1>2, <2>1, <3>1 DEF OpensBefore
  <2>2. QED
    BY <2>1 DEF OpensBefore
<1>9. FramesBehind(m)'
  <2> DEFINE n == IF pc = "case_sync" THEN m ELSE 0
  <2>1. OnTheirWay(reports, parsed, Handed, n) /\ n \in 0..Len(reports)
    BY <1>1, <1>2 DEF FramesBehind
  <2> HIDE DEF n
  <2>2. OnTheirWay(reports', parsed', Handed, n)
    <3>1. CASE r.kind = "frame"
      BY <1>1, <1>4, <2>1, <3>1, FrameReported
    <3>2. CASE r.kind # "frame"
      BY <1>1, <1>4, <2>1, <3>2, OtherReported
    <3>3. QED
      BY <3>1, <3>2
  <2>3. QED
    BY <1>3, <2>2 DEF FramesBehind, n
<1>10. m \in 0..Len(reports')
  BY <1>1
<1>11. QED
  BY <1>6, <1>7, <1>8, <1>9, <1>10 DEF Reported

\* The runner asks for a mark: for that of a check everything of it is before the mark,
\* and for that of a case everything is behind it.
LEMMA MarkAsked ==
    ASSUME TypeInv, HandedOver, Reported, NEW from, NEW to, sync(from, to),
           \/ to = "case_sync" /\ from = "attach" /\ parsed' = <<>>
           \/ to = "check_sync" /\ from = "ready" /\ parsed' = parsed
    PROVE  HandedOver' /\ Reported'
<1>1. /\ results'.marked = FALSE /\ results'.frames = results.frames
      /\ reports' \in Seq(Report) /\ Len(reports) \in Nat
      /\ Len(reports') = Len(reports) + 1 /\ reports'[Len(reports) + 1] = Mark
      /\ \A j \in 1..Len(reports) : reports'[j] = reports[j]
      /\ pc = from /\ pc' = to /\ reports' = Append(reports, Mark)
  BY SyncFacts DEF sync, emit
<1>2. PICK m \in 0..Len(reports) : MarkAt(m) /\ OpensBefore(m) /\ FramesBehind(m)
  BY DEF Reported
<1>3. m = 0 /\ Awaited'
  BY <1>1, <1>2 DEF MarkAt, Awaited
<1>n. PICK n \in Nat : n = Len(reports) + 1
  BY <1>1
<1>4. n \in Nat /\ n \in 0..Len(reports') /\ n > 0 /\ n = Len(reports')
  BY <1>1, <1>n
<1>5. MarkAt(n)'
  <2>1. ASSUME NEW j \in 1..Len(reports')
        PROVE  reports'[j].kind = "mark" <=> j = n
    <3>1. CASE j = n
      BY <1>1, <1>n, <3>1, ReportKinds
    <3>2. CASE j # n
      <4>1. j \in 1..Len(reports)
        BY <1>1, <1>n, <3>2
      <4>2. QED
        BY <1>1, <1>2, <1>3, <3>2, <4>1 DEF MarkAt
    <3>3. QED
      BY <3>1, <3>2
  <2>2. QED
    BY <1>3, <1>4, <2>1 DEF MarkAt
<1>6. \A j \in 1..Len(reports') : reports'[j].kind = "open" =>
          j \in 1..Len(reports) /\ j < n /\ reports'[j] = reports[j]
  BY <1>1, <1>n, ReportKinds
<1>7. OpensBefore(n)'
  <2>1. CASE from = "attach"
    BY <1>1, <1>2, <1>3, <1>6, <2>1 DEF OpensBefore
  <2>2. CASE from = "ready"
    BY <1>1, <1>6, <2>2 DEF OpensBefore
  <2>3. QED
    BY <2>1, <2>2
<1>8. CASE from = "attach" /\ to = "case_sync" /\ parsed' = <<>>
  <2>1. Handed' = 0 /\ Len(parsed') = 0
    BY <1>1, <1>8, EmptySeq DEF Handed
  <2>2. OnTheirWay(reports', <<>>, 0, n)
    BY <1>1, <1>4, NoneBehindLast
  <2>3. FramesBehind(n)'
    BY <1>1, <1>8, <2>1, <2>2 DEF FramesBehind
  <2>4. HandedOver'
    BY <2>1 DEF HandedOver
  <2>5. QED
    BY <1>4, <1>5, <1>7, <2>3, <2>4 DEF Reported
<1>9. CASE from = "ready" /\ to = "check_sync" /\ parsed' = parsed
  <2>1. Handed' = Handed
    BY <1>1, <1>9 DEF Handed
  <2>2. OnTheirWay(reports, parsed, Handed, 0)
    BY <1>1, <1>2, <1>9 DEF FramesBehind
  <2>3. OnTheirWay(reports', parsed, Handed, 0)
    BY <1>1, <2>2, HandedType, ReportKinds, OtherReported
  <2>4. FramesBehind(n)'
    BY <1>1, <1>9, <2>1, <2>3 DEF FramesBehind
  <2>5. HandedOver'
    BY <1>1, <1>9, <2>1 DEF HandedOver
  <2>6. QED
    BY <1>4, <1>5, <1>7, <2>4, <2>5 DEF Reported
<1>10. QED
  BY <1>8, <1>9

\* The runner handles a report: a frame behind the mark of its case is the next one.
LEMMA ReportHandled ==
    ASSUME TypeInv, HandedOver, Reported, handle
    PROVE  HandedOver' /\ Reported'
<1> DEFINE r == reports[1]
<1>1. /\ reports # <<>> /\ r \in Report /\ results' = Handled(r)
      /\ Len(reports) \in Nat \ {0} /\ Len(reports') = Len(reports) - 1
      /\ \A j \in 1..(Len(reports) - 1) : reports'[j] = reports[j + 1]
      /\ reports' = Tail(reports) /\ pc' = pc /\ parsed' = parsed
  BY HandleFacts DEF handle
<1>2. /\ r.kind \in {"open", "close", "frame", "mark"} /\ results' \in Results
      /\ r.kind = "frame" => results'.frames = Append(results.frames, r) /\ r \in Frame
      /\ r.kind # "frame" => results'.frames = results.frames
      /\ results'.marked = (r.kind = "mark" \/ results.marked)
  BY <1>1, HandledFacts
<1>3. PICK m \in 0..Len(reports) : MarkAt(m) /\ OpensBefore(m) /\ FramesBehind(m)
  BY DEF Reported
<1>4. /\ Len(results.frames) \in Nat /\ Len(parsed) \in Nat /\ Handed \in 0..Len(parsed)
      /\ results.frames \in Seq(Frame) /\ parsed \in Seq(Frame) /\ reports \in Seq(Report)
      /\ results.marked \in BOOLEAN /\ Handed \in Nat
  BY HandedType DEF HandedOver
<1>5. r.kind = "mark" <=> m = 1
  BY <1>1, <1>3 DEF MarkAt
<1>6. pc = "case_sync" => m > 0
  BY <1>3 DEF MarkAt, Awaited, handle, Receiving
<1>7. Awaited' <=> (Awaited /\ r.kind # "mark")
  BY <1>1, <1>2 DEF Awaited
<1>l. PICK l \in Nat : l = IF m > 0 THEN m - 1 ELSE 0
  BY <1>3
<1> HIDE DEF r
<1>8. MarkAt(l)'
  <2>1. l \in 0..Len(reports')
    BY <1>1, <1>3, <1>l
  <2>2. l > 0 <=> Awaited'
    BY <1>3, <1>5, <1>7, <1>l DEF MarkAt
  <2>3. ASSUME NEW j \in 1..Len(reports')
        PROVE  reports'[j].kind = "mark" <=> j = l
    <3>1. j + 1 \in 1..Len(reports) /\ reports'[j] = reports[j + 1]
      BY <1>1
    <3>2. reports[j + 1].kind = "mark" <=> j + 1 = m
      BY <1>3, <3>1 DEF MarkAt
    <3>3. QED
      BY <1>3, <1>l, <3>1, <3>2
  <2>4. QED
    BY <2>1, <2>2, <2>3 DEF MarkAt
<1>9. OpensBefore(l)'
  <2>1. ASSUME pc # "ready", NEW j \in 1..Len(reports'), reports'[j].kind = "open"
        PROVE  pc = "check_sync" /\ j < l
    <3>1. j + 1 \in 1..Len(reports) /\ reports'[j] = reports[j + 1]
      BY <1>1
    <3>2. pc = "check_sync" /\ j + 1 < m
      BY <1>3, <2>1, <3>1 DEF OpensBefore
    <3>3. QED
      BY <1>3, <1>l, <3>2
  <2>2. QED
    BY <1>1, <2>1 DEF OpensBefore
<1>10. CASE pc = "case_sync"
  <2>1. Handed = 0 /\ Handed' = 0 /\ m > 0
    BY <1>1, <1>6, <1>10 DEF Handed
  <2>2. OnTheirWay(reports, parsed, 0, m)
    BY <1>3, <1>10, <2>1 DEF FramesBehind
  <2>3. OnTheirWay(Tail(reports), parsed, 0, l)
    BY <1>1, <1>3, <1>4, <1>l, <2>1, <2>2, OtherHandled
  <2>4. FramesBehind(l)'
    BY <1>1, <1>10, <2>1, <2>3 DEF FramesBehind
  <2>5. HandedOver'
    BY <1>1, <1>4, <2>1 DEF HandedOver
  <2>6. QED
    BY <1>8, <1>9, <2>4, <2>5 DEF Reported, MarkAt
<1>11. CASE pc # "case_sync" /\ r.kind = "frame"
  <2>1. Handed = Len(results.frames) /\ Handed' = Handed + 1
    BY <1>1, <1>2, <1>4, <1>11, AppendProperties DEF Handed
  <2>2. OnTheirWay(reports, parsed, Handed, 0)
    BY <1>3, <1>11 DEF FramesBehind
  <2>3. Handed < Len(parsed) /\ parsed[Handed + 1] = r
    BY <1>1, <1>4, <1>11, <2>2, FrameHandled DEF r
  <2>4. OnTheirWay(Tail(reports), parsed, Handed + 1, 0)
    BY <1>1, <1>4, <1>11, <2>2, FrameHandled DEF r
  <2>5. FramesBehind(l)'
    BY <1>1, <1>11, <2>1, <2>4 DEF FramesBehind
  <2>6. HandedOver'
    <3>1. Handed + 1 \in 0..Len(parsed)
      BY <1>4, <2>3
    <3>2. ASSUME NEW i \in 1..(Handed + 1)
          PROVE  results'.frames[i] = parsed[i]
      <4>1. /\ results'.frames[Handed + 1] = r
            /\ \A j \in 1..Handed : results'.frames[j] = results.frames[j]
        <5> DEFINE hs == results.frames
        <5>1. /\ hs \in Seq(Frame) /\ r \in Frame /\ results'.frames = Append(hs, r)
              /\ Handed = Len(hs)
          BY <1>2, <1>4, <1>11, <2>1
        <5> HIDE DEF hs
        <5>2. Append(hs, r)[Len(hs) + 1] = r /\ \A j \in 1..Len(hs) : Append(hs, r)[j] = hs[j]
          BY <5>1, AppendProperties
        <5>3. QED
          BY <5>1, <5>2 DEF hs
      <4>2. i \in 1..Handed \/ i = Handed + 1
        BY <1>4
      <4>3. QED
        BY <2>3, <4>1, <4>2 DEF HandedOver
    <3>3. QED
      BY <1>1, <2>1, <3>1, <3>2 DEF HandedOver
  <2>7. QED
    BY <1>8, <1>9, <2>5, <2>6 DEF Reported, MarkAt
<1>12. CASE pc # "case_sync" /\ r.kind # "frame"
  <2>1. Handed' = Handed /\ results'.frames = results.frames
    BY <1>1, <1>2, <1>12 DEF Handed
  <2>2. OnTheirWay(reports, parsed, Handed, 0)
    BY <1>3, <1>12 DEF FramesBehind
  <2>3. OnTheirWay(Tail(reports), parsed, Handed, 0)
    BY <1>1, <1>4, <1>12, <2>2, OtherHandled DEF r
  <2>4. FramesBehind(l)'
    BY <1>1, <1>12, <2>1, <2>3 DEF FramesBehind
  <2>5. HandedOver'
    BY <1>1, <2>1 DEF HandedOver
  <2>6. QED
    BY <1>8, <1>9, <2>4, <2>5 DEF Reported, MarkAt
<1>13. QED
  BY <1>10, <1>11, <1>12

\* The runner goes on to where as many marks are awaited, with the frames it holds.
LEMMA RunnerMovesOn ==
    ASSUME TypeInv, HandedOver, Reported, reports' = reports, parsed' = parsed,
           ~Awaited, ~Awaited', Handed' = Handed, results'.frames = results.frames \/ Handed = 0,
           pc = "ready" => pc' = "ready"
    PROVE  HandedOver' /\ Reported'
<1>1. PICK m \in 0..Len(reports) : MarkAt(m) /\ OpensBefore(m) /\ FramesBehind(m)
  BY DEF Reported
<1>2. m = 0
  BY <1>1 DEF MarkAt
<1>3. MarkAt(m)'
  BY <1>1, <1>2 DEF MarkAt
<1>4. OpensBefore(m)'
  BY <1>1, <1>2 DEF OpensBefore
<1>5. FramesBehind(m)'
  BY <1>1, <1>2 DEF FramesBehind
<1>6. HandedOver'
  BY DEF HandedOver
<1>7. QED
  BY <1>1, <1>3, <1>4, <1>5, <1>6 DEF Reported

-----------------------------------------------------------------------------
(* The steps of the program.                                                 *)

\* A client connects while the runner is ready, and is reported to be open.
LEMMA MissConnect ==
    ASSUME TypeInv, MissInv, NEW p \in Ports, Connect(p)
    PROVE  MissInv'
<1>1. /\ pc = "ready" /\ pc' = pc /\ results' = results /\ parsed' = parsed
      /\ emit(Open(Client(p)))
  BY DEF Connect, runnerVars
<1>2. /\ conns'[Client(p)].state = "open" /\ conns'[Server(p)].state = "opening"
      /\ \A e \in Ends : e # Client(p) /\ e # Server(p) => conns'[e] = conns[e]
  BY ConnectFacts
<1>3. Client(p) \in Ends /\ Server(p) \in Ends
  BY EndsOf
<1>4. HandedOver' /\ Reported'
  BY <1>1, <1>3, ReportKinds, ProgramReports DEF MissInv
<1>5. Handshakes'
  BY <1>2, EndsOf DEF MissInv, Handshakes, IsOpen
<1>6. OpenTracked'
  <2>1. ASSUME NEW e \in Ends, IsOpen(e)' PROVE Tracked(reports', results.open, e)
    <3>1. CASE e = Client(p)
      BY <1>1, <1>3, <3>1, TrackedFrom
    <3>2. CASE e # Client(p)
      <4>1. e # Server(p) /\ IsOpen(e)
        BY <1>2, <1>3, <2>1, <3>2 DEF IsOpen
      <4>2. Tracked(reports, results.open, e)
        BY <4>1 DEF MissInv, OpenTracked
      <4>3. QED
        BY <1>1, <1>3, <4>2, ReportKinds, TrackedOn
    <3>3. QED
      BY <3>1, <3>2
  <2>2. QED
    BY <1>1, <2>1 DEF OpenTracked
<1>7. QED
  BY <1>1, <1>4, <1>5, <1>6 DEF MissInv, ClientsGone, NoneOpen

\* The server's end, which is open now, is reported.
LEMMA MissAccept ==
    ASSUME TypeInv, MissInv, NEW p \in Ports, Accept(p)
    PROVE  MissInv'
<1>1. /\ pc' = pc /\ results' = results /\ parsed' = parsed
      /\ emit(Open(Server(p))) /\ conns[Server(p)].state = "opening"
  BY DEF Accept, runnerVars
<1>2. /\ conns'[Server(p)].state = "open"
      /\ \A e \in Ends : e # Server(p) => conns'[e] = conns[e]
  BY AcceptFacts
<1>3. Client(p) \in Ends /\ Server(p) \in Ends
  BY EndsOf
<1>4. pc = "ready"
  BY <1>1, <1>3 DEF MissInv, Handshakes, ClientsGone, IsOpen
<1>5. HandedOver' /\ Reported'
  BY <1>1, <1>3, <1>4, ReportKinds, ProgramReports DEF MissInv
<1>6. Handshakes'
  BY <1>2, EndsOf DEF MissInv, Handshakes, IsOpen
<1>7. OpenTracked'
  <2>1. ASSUME NEW e \in Ends, IsOpen(e)' PROVE Tracked(reports', results.open, e)
    <3>1. CASE e = Server(p)
      BY <1>1, <1>3, <3>1, TrackedFrom
    <3>2. CASE e # Server(p)
      <4>1. Tracked(reports, results.open, e)
        BY <1>2, <2>1, <3>2 DEF MissInv, OpenTracked, IsOpen
      <4>2. QED
        BY <1>1, <1>3, <4>1, ReportKinds, TrackedOn
    <3>3. QED
      BY <3>1, <3>2
  <2>2. QED
    BY <1>1, <2>1 DEF OpenTracked
<1>8. QED
  BY <1>1, <1>4, <1>5, <1>6, <1>7 DEF MissInv, ClientsGone, NoneOpen

\* What is reported of an end that sends or closes.
LEMMA MissSendBlock ==
    ASSUME TypeInv, MissInv, NEW e \in Ends, SendBlock(e)
    PROVE  MissInv'
<1>1. /\ pc' = pc /\ results' = results /\ parsed' = Append(parsed, FrameOf(e))
      /\ emit(FrameOf(e))
  BY DEF SendBlock, runnerVars
<1>2. \A d \in Ends : conns'[d].state = conns[d].state
  BY SendBlockFacts
<1>3. FrameOf(e) \in Frame /\ FrameOf(e) \in Report /\ FrameOf(e).kind = "frame"
  BY FrameOfType, ReportKinds
<1>4. HandedOver' /\ Reported'
  BY <1>1, <1>3, ProgramReports DEF MissInv
<1>5. ClientsGone' /\ Handshakes' /\ NoneOpen'
  BY <1>1, <1>2, EndsOf DEF MissInv, ClientsGone, Handshakes, NoneOpen, IsOpen
<1>6. OpenTracked'
  <2>1. ASSUME NEW d \in Ends, IsOpen(d)' PROVE Tracked(reports', results.open, d)
    <3>1. Tracked(reports, results.open, d)
      BY <1>2, <2>1 DEF MissInv, OpenTracked, IsOpen
    <3>2. QED
      BY <1>1, <1>3, <3>1, TrackedOn
  <2>2. QED
    BY <1>1, <2>1 DEF OpenTracked
<1>7. QED
  BY <1>4, <1>5, <1>6 DEF MissInv

\* The closing of an end is reported, and it is open no more.
LEMMA MissCloseEnd ==
    ASSUME TypeInv, MissInv, NEW e \in Ends, CloseEnd(e)
    PROVE  MissInv'
<1>1. /\ pc' = pc /\ results' = results /\ parsed' = parsed /\ emit(Close(e))
      /\ IsOpen(e) /\ MayClose(e)
  BY DEF CloseEnd, runnerVars
<1>2. /\ conns'[e].state = "closed"
      /\ \A d \in Ends : d # e => conns'[d] = conns[d]
  BY CloseEndFacts
<1>3. HandedOver' /\ Reported'
  BY <1>1, ReportKinds, ProgramReports DEF MissInv
<1>4. ClientsGone' /\ NoneOpen'
  BY <1>1, <1>2, EndsOf DEF MissInv, ClientsGone, NoneOpen
<1>5. Handshakes'
  <2>1. SUFFICES ASSUME NEW p \in Ports
                 PROVE  /\ conns'[Client(p)].state # "opening"
                        /\ conns'[Server(p)].state = "opening" => conns'[Client(p)].state = "open"
    BY DEF Handshakes, IsOpen
  <2>2. /\ Client(p) \in Ends /\ Server(p) \in Ends /\ Client(p) # Server(p)
        /\ conns[Client(p)].state # "opening"
        /\ conns[Server(p)].state = "opening" => conns[Client(p)].state = "open"
    BY EndsOf DEF MissInv, Handshakes, IsOpen
  <2>3. CASE e = Client(p)
    <3>1. e[2] = "client" /\ e[1] = p
      BY <2>3 DEF Client
    <3>2. conns[Server(p)].state # "opening"
      BY <1>1, <3>1 DEF MayClose
    <3>3. QED
      BY <1>2, <2>2, <2>3, <3>2
  <2>4. CASE e # Client(p)
    BY <1>2, <2>2, <2>4
  <2>5. QED
    BY <2>3, <2>4
<1>6. OpenTracked'
  <2>1. ASSUME NEW d \in Ends, IsOpen(d)' PROVE Tracked(reports', results.open, d)
    <3>1. d # e /\ Tracked(reports, results.open, d)
      BY <1>2, <2>1 DEF MissInv, OpenTracked, IsOpen
    <3>2. QED
      BY <1>1, <3>1, ReportKinds, TrackedOn
  <2>2. QED
    BY <1>1, <2>1 DEF OpenTracked
<1>7. QED
  BY <1>3, <1>4, <1>5, <1>6 DEF MissInv

-----------------------------------------------------------------------------
(* The steps of the runner, and the theorem.                                 *)

\* What is known of the ends, with the connections as they are and no report handled.
LEMMA EndsAsTheyAre ==
    ASSUME TypeInv, ClientsGone, Handshakes, OpenTracked, NoneOpen, conns' = conns,
           reports' = reports, results'.open = results.open, pc' # "drain" \/ results.open = {},
           pc # "ready" \/ pc' = "ready"
    PROVE  ClientsGone' /\ Handshakes' /\ OpenTracked' /\ NoneOpen'
  BY DEF ClientsGone, Handshakes, OpenTracked, NoneOpen, IsOpen

\* Asking for a mark.
LEMMA MissSync ==
    ASSUME TypeInv, MissInv, SyncCase \/ SyncCheck
    PROVE  MissInv'
<1>1. /\ \/ sync("attach", "case_sync") /\ parsed' = <<>>
         \/ sync("ready", "check_sync") /\ parsed' = parsed
      /\ pc # "ready" \/ \A p \in Ports : conns[Client(p)].state = "closed"
  BY DEF SyncCase, SyncCheck, sync
<1>2. conns' = conns /\ emit(Mark) /\ pc' # "drain" /\ results'.open = results.open
  BY <1>1, SyncFacts DEF sync, kernelVars
<1>3. HandedOver' /\ Reported'
  BY <1>1, MarkAsked DEF MissInv
<1>4. ClientsGone' /\ Handshakes' /\ NoneOpen'
  BY <1>1, <1>2 DEF MissInv, ClientsGone, Handshakes, NoneOpen, IsOpen
<1>5. OpenTracked'
  BY <1>2, ReportKinds, TrackedOn DEF MissInv, OpenTracked, IsOpen
<1>6. QED
  BY <1>3, <1>4, <1>5 DEF MissInv

\* Handling a report.
LEMMA MissHandle ==
    ASSUME TypeInv, MissInv, handle
    PROVE  MissInv'
<1>1. conns' = conns /\ pc' = pc /\ results' = Handled(reports[1]) /\ reports[1] \in Report
  BY HandleFacts DEF handle, kernelVars
<1>2. HandedOver' /\ Reported'
  BY ReportHandled DEF MissInv
<1>3. ClientsGone' /\ Handshakes'
  BY <1>1 DEF MissInv, ClientsGone, Handshakes, IsOpen
<1>4. OpenTracked'
  BY <1>1, TrackedHandled DEF MissInv, OpenTracked, IsOpen
<1>5. NoneOpen'
  <2>1. SUFFICES ASSUME pc = "drain" PROVE results'.open = {}
    BY <1>1 DEF NoneOpen
  <2>2. reports[1].kind # "open"
    <3>1. 1 \in 1..Len(reports)
      BY HandleFacts
    <3>2. QED
      BY <2>1, <3>1 DEF MissInv, Reported, OpensBefore
  <2>3. results.open = {}
    BY <2>1 DEF MissInv, NoneOpen
  <2>4. QED
    BY <1>1, <2>2, <2>3, HandledFacts
<1>6. QED
  BY <1>2, <1>3, <1>4, <1>5 DEF MissInv

\* The other steps of the runner.
LEMMA MissRunner ==
    ASSUME TypeInv, MissInv, [Next]_vars, ~Kernel, ~handle, ~SyncCase, ~SyncCheck
    PROVE  MissInv'
<1>0. /\ ClientsGone /\ Handshakes /\ OpenTracked /\ NoneOpen /\ HandedOver /\ Reported
      /\ results \in Results
  BY DEF MissInv, TypeInv
<1>1. CASE UNCHANGED vars
  BY <1>0, <1>1 DEF vars, MissInv, ClientsGone, Handshakes, OpenTracked, NoneOpen, IsOpen,
       HandedOver, Handed, Reported, MarkAt, Awaited, OpensBefore, FramesBehind
<1>2. CASE attach \/ ForgetEntry \/ ForgetInfo
  <2>1. UNCHANGED <<conns, reports, results, pc, parsed>>
    BY <1>2 DEF attach, ForgetEntry, ForgetInfo, kernelVars, runnerVars
  <2>2. QED
    BY <1>0, <2>1 DEF MissInv, ClientsGone, Handshakes, OpenTracked, NoneOpen, IsOpen,
         HandedOver, Handed, Reported, MarkAt, Awaited, OpensBefore, FramesBehind
<1>3. CASE Check
  <2>1. /\ pc = "drain" /\ pc' = "forget" /\ reports = <<>> /\ reports' = reports
        /\ parsed' = <<>> /\ conns' = conns
        /\ results' = [results EXCEPT !.frames = <<>>]
    BY <1>3 DEF Check, Drained, kernelVars
  <2>2. results'.open = results.open /\ results'.frames = <<>>
    BY <1>0, <2>1 DEF Results
  <2>3. Len(<<>>) = 0 /\ Handed' = 0 /\ ~Awaited'
    BY <2>1, <2>2, EmptySeq DEF Handed, Awaited
  <2>4. HandedOver'
    BY <2>1, <2>3 DEF HandedOver
  <2>5. OnTheirWay(<<>>, <<>>, 0, 0)
    BY <2>3, NoneBehindLast, EmptySeq
  <2>6. Reported'
    <3>1. MarkAt(0)' /\ OpensBefore(0)'
      BY <2>1, <2>3 DEF MarkAt, OpensBefore
    <3>2. FramesBehind(0)'
      BY <2>1, <2>3, <2>5 DEF FramesBehind
    <3>3. 0 \in 0..Len(reports')
      BY <2>1, <2>3
    <3>4. QED
      BY <3>1, <3>2, <3>3 DEF Reported
  <2>7. ClientsGone' /\ Handshakes' /\ OpenTracked' /\ NoneOpen'
    BY <1>0, <2>1, <2>2, EndsAsTheyAre
  <2>8. QED
    BY <2>4, <2>6, <2>7 DEF MissInv
<1>4. CASE Ready
  <2>1. /\ pc = "case_sync" /\ results.marked /\ pc' = "ready" /\ conns' = conns
        /\ results' = [results EXCEPT !.frames = <<>>, !.closed = <<>>]
        /\ reports' = reports /\ parsed' = parsed
    BY <1>4 DEF Ready, kernelVars
  <2>2. results'.open = results.open /\ results'.frames = <<>>
    BY <1>0, <2>1 DEF Results
  <2>3. ~Awaited /\ ~Awaited' /\ Handed = 0 /\ Handed' = 0
    BY <2>1, <2>2, EmptySeq DEF Awaited, Handed
  <2>4. HandedOver' /\ Reported'
    BY <1>0, <2>1, <2>3, RunnerMovesOn
  <2>5. ClientsGone' /\ Handshakes' /\ OpenTracked' /\ NoneOpen'
    BY <1>0, <2>1, <2>2, EndsAsTheyAre
  <2>6. QED
    BY <2>4, <2>5 DEF MissInv
<1>5. CASE \/ CaseCommand \/ RunAgain \/ Synced \/ wait_closed \/ Timeout \/ ForgetLookup
           \/ Forgotten
  <2>1. results'.open = results.open /\ results'.frames = results.frames
    BY <1>0, <1>5, ForgetLookupFacts DEF CaseCommand, RunAgain, Synced, wait_closed, Timeout,
       Forgotten
  <2>2. conns' = conns /\ reports' = reports /\ parsed' = parsed
    BY <1>5 DEF CaseCommand, RunAgain, Synced, wait_closed, Timeout, ForgetLookup,
       Forgotten, kernelVars
  <2>3. /\ pc \notin {"ready", "case_sync"} /\ pc' # "case_sync" /\ ~Awaited /\ ~Awaited'
        /\ pc' = "drain" => pc = "drain" \/ results.open = {}
    BY <1>5 DEF CaseCommand, RunAgain, Synced, wait_closed, Timeout, ForgetLookup,
       Forgotten, Awaited
  <2>4. Handed' = Handed
    BY <2>1, <2>3 DEF Handed
  <2>5. HandedOver' /\ Reported'
    BY <1>0, <2>1, <2>2, <2>3, <2>4, RunnerMovesOn
  <2>6. ClientsGone' /\ Handshakes' /\ OpenTracked' /\ NoneOpen'
    BY <1>0, <2>1, <2>2, <2>3, EndsAsTheyAre DEF NoneOpen
  <2>7. QED
    BY <2>5, <2>6 DEF MissInv
<1>6. QED
  BY <1>1, <1>2, <1>3, <1>4, <1>5 DEF Next, Runner

\* No step misses a report.
LEMMA MissStep == TypeInv /\ MissInv /\ [Next]_vars => MissInv'
<1> SUFFICES ASSUME TypeInv, MissInv, [Next]_vars PROVE MissInv'
  OBVIOUS
<1>1. ASSUME NEW p \in Ports, Preface(p) PROVE MissInv'
  <2>1. UNCHANGED <<conns, reports, results, pc, parsed>>
    BY <1>1 DEF Preface, runnerVars
  <2>2. QED
    BY <2>1 DEF MissInv, ClientsGone, Handshakes, OpenTracked, NoneOpen, IsOpen,
       HandedOver, Handed, Reported, MarkAt, Awaited, OpensBefore, FramesBehind
<1>2. CASE Kernel
  BY <1>1, <1>2, MissConnect, MissAccept, MissSendBlock, MissCloseEnd DEF Kernel
<1>3. QED
  BY <1>2, MissSync, MissHandle, MissRunner

\* At the start there is nothing to miss.
LEMMA MissAtInit == Init => MissInv
<1> SUFFICES ASSUME Init PROVE MissInv
  OBVIOUS
<1>1. /\ reports = <<>> /\ parsed = <<>> /\ results.frames = <<>> /\ Len(<<>>) = 0
      /\ pc = "idle" /\ \A e \in Ends : conns[e].state = "closed"
  BY EmptySeq DEF Init, Closed
<1>2. Handed = 0 /\ ~Awaited
  BY <1>1 DEF Handed, Awaited
<1>3. OnTheirWay(<<>>, <<>>, 0, 0)
  BY <1>1, NoneBehindLast, EmptySeq
<1>4. Reported
  <2>1. MarkAt(0) /\ OpensBefore(0) /\ FramesBehind(0) /\ 0 \in 0..Len(reports)
    BY <1>1, <1>2, <1>3 DEF MarkAt, OpensBefore, FramesBehind
  <2>2. QED
    BY <2>1 DEF Reported
<1>5. QED
  BY <1>1, <1>2, <1>4, EndsOf
     DEF MissInv, ClientsGone, Handshakes, OpenTracked, NoneOpen, HandedOver, IsOpen

\* Every state keeps track of what is on its way.
LEMMA Misses == Spec => []MissInv
  BY MissAtInit, MissStep, Types, PTL DEF Spec

\* With everything handed over, no end is open and the frames of the check are those
\* the runner holds.
LEMMA NothingLeft ==
    ASSUME TypeInv, MissInv, Drained
    PROVE  AllClosed /\ results.frames = parsed
<1>1. /\ pc = "drain" /\ reports = <<>> /\ results.open = {} /\ Len(reports) = 0
      /\ ClientsGone /\ Handshakes /\ OpenTracked /\ HandedOver /\ Reported
  BY EmptySeq DEF Drained, MissInv, NoneOpen
<1>2. \A e \in Ends : ~IsOpen(e)
  BY <1>1 DEF OpenTracked, Tracked
<1>3. AllClosed
  <2>1. SUFFICES ASSUME NEW e \in Ends PROVE conns[e].state = "closed"
    BY DEF AllClosed
  <2>2. PICK p \in Ports : e = Client(p) \/ e = Server(p)
    BY EndsOf
  <2>3. conns[Client(p)].state = "closed"
    BY <1>1 DEF ClientsGone
  <2>4. conns[Server(p)].state \in {"closed", "opening", "open"}
    BY EndsOf DEF TypeInv, Conn
  <2>5. conns[Server(p)].state = "closed"
    BY <1>1, <1>2, <2>3, <2>4, EndsOf DEF Handshakes, IsOpen
  <2>6. QED
    BY <2>2, <2>3, <2>5
<1>4. PICK m \in 0..Len(reports) : FramesBehind(m)
  BY <1>1 DEF Reported
<1>5. OnTheirWay(<<>>, parsed, Handed, 0) /\ Handed = Len(results.frames)
  BY <1>1, <1>4 DEF FramesBehind, Handed
<1>6. Handed = Len(parsed)
  BY <1>1, <1>5, HandedType, AllArrived DEF HandedOver
<1>7. results.frames = parsed
  BY <1>1, <1>5, <1>6, HandedType, SeqEqual DEF HandedOver
<1>8. QED
  BY <1>3, <1>7

\* A reader that waits until both ends of every connection are reported closed misses
\* none of their frames, and nothing more is reported after it (TestProgram::results).
THEOREM NoReportMissed == Spec => []NothingMissed
<1>1. TypeInv /\ MissInv => NothingMissed
  BY NothingLeft DEF NothingMissed
<1>2. QED
  BY <1>1, Types, Misses, PTL

-----------------------------------------------------------------------------
(* The invariant of the tables.                                              *)

\* Between two cases, and while tables are forgotten, nothing is open or on its way.
Between == {"idle", "attach", "case_sync"}
QuietEnds ==
    pc \in Between \cup {"forget"} =>
        AllClosed /\ parsed = <<>> /\ (pc = "case_sync" \/ reports = <<>>)

\* Whatever is read is read by all of the parser.
Attached ==
    (pc \in {"ready", "check_sync", "wait", "drain", "forget", "case_sync"}
        \/ (pc = "idle" /\ current > 0)) => FullyAttached

\* An end that is open is of the case, and its table is that of its blocks.
OfCase ==
    \A e \in Ends : conns[e].state # "closed" =>
        /\ conns[e].case = current /\ e[1] \in used
        /\ EntriesEnd(dynamic_table_info[e]) = PerBlock * conns[e].sent
FramesOfCase ==
    \A j \in 1..Len(parsed) : parsed[j].full /\ parsed[j].own_table /\ parsed[j].case = current

\* The tables of ports that are not used, and all of them between two cases, are none.
Fresh ==
    /\ \A e \in Ends : e[1] \notin used => dynamic_table_info[e] = NoTable
    /\ pc \in Between => dynamic_table_info = NoTables /\ dynamic_table = {}

\* A table is there as long as its end is open, reported closed or forgotten next.
Due(e) ==
    \/ conns[e].state # "closed"
    \/ \E j \in 1..Len(reports) : ClosesOf(reports, j, e)
    \/ \E j \in 1..Len(results.closed) : results.closed[j] = e
    \/ victim # NoVictim /\ victim.end = e
StillDue ==
    \A e \in Ends : IF dynamic_table_info[e].seen THEN Due(e) ELSE dynamic_table_info[e] = NoTable

\* The entries there are of a table are those its state tells of, and of the one that is
\* being forgotten those that are left.
Within ==
    \A e \in Ends, i \in Nat : <<e, i>> \in dynamic_table =>
        /\ i >= dynamic_table_info[e].deleted /\ i < EntriesEnd(dynamic_table_info[e])
        /\ victim # NoVictim /\ victim.end = e => victim.idx <= i
Forgetting ==
    victim # NoVictim =>
        pc = "forget" /\ victim.stop = EntriesEnd(dynamic_table_info[victim.end])

Kept ==
    QuietEnds /\ Attached /\ OfCase /\ FramesOfCase /\ Fresh /\ StillDue /\ Within /\ Forgetting
TablesInv == late \/ Kept

-----------------------------------------------------------------------------
(* The tables and the steps of the program.                                  *)

\* A table that is none holds nothing.
LEMMA NoTableFacts ==
    /\ ~NoTable.seen /\ NoTable.deleted = 0 /\ EntriesEnd(NoTable) = 0
    /\ \A e \in Ends : NoTables[e] = NoTable
  BY DEF NoTable, NoTables, EntriesEnd

\* A table is due until its end is reported closed, and from then on.
LEMMA DueOn ==
    ASSUME TypeInv, NEW r \in Report, emit(r), NEW e \in Ends, Due(e),
           results'.closed = results.closed, victim' = victim,
           \/ conns[e].state = "closed"
           \/ conns'[e].state # "closed"
           \/ r.kind = "close" /\ r.end = e
    PROVE  Due(e)'
<1>1. /\ Len(reports) \in Nat /\ Len(reports') = Len(reports) + 1
      /\ reports'[Len(reports) + 1] = r
      /\ \A j \in 1..Len(reports) : reports'[j] = reports[j]
  BY EmitFacts
<1>2. ASSUME NEW j \in 1..Len(reports), ClosesOf(reports, j, e)
      PROVE  \E k \in 1..Len(reports') : ClosesOf(reports', k, e)
  <2>1. j \in 1..Len(reports') /\ ClosesOf(reports', j, e)
    BY <1>1, <1>2 DEF ClosesOf
  <2>2. QED
    BY <2>1
<1>3. ASSUME r.kind = "close", r.end = e
      PROVE  \E k \in 1..Len(reports') : ClosesOf(reports', k, e)
  <2>1. Len(reports) + 1 \in 1..Len(reports') /\ ClosesOf(reports', Len(reports) + 1, e)
    BY <1>1, <1>3 DEF ClosesOf
  <2>2. QED
    BY <2>1
<1>4. QED
  BY <1>2, <1>3 DEF Due

\* A client connects: the tables of both ends are none, as they were forgotten.
LEMMA KeptConnect ==
    ASSUME TypeInv, Kept, NEW p \in Ports, Connect(p)
    PROVE  Kept'
<1>1. /\ pc = "ready" /\ pc' = pc /\ results' = results /\ parsed' = parsed
      /\ emit(Open(Client(p))) /\ used' = used \cup {p} /\ p \notin used
      /\ UNCHANGED <<links, dynamic_table_info, dynamic_table, victim, current>>
      /\ conns[Client(p)].state = "closed" /\ conns[Server(p)].state = "closed"
  BY DEF Connect, Free, runnerVars, parserVars
<1>2. /\ conns'[Client(p)] = [state |-> "open", case |-> current, sent |-> 0]
      /\ conns'[Server(p)] = [state |-> "opening", case |-> current, sent |-> 0]
      /\ \A e \in Ends : e # Client(p) /\ e # Server(p) => conns'[e] = conns[e]
  BY ConnectFacts
<1>3. /\ Client(p) \in Ends /\ Server(p) \in Ends /\ Client(p)[1] = p /\ Server(p)[1] = p
      /\ Open(Client(p)) \in Report
  BY EndsOf, ReportKinds DEF Client, Server
<1>4. QuietEnds' /\ Attached' /\ FramesOfCase' /\ Fresh' /\ Within' /\ Forgetting'
  BY <1>1 DEF Kept, QuietEnds, Between, Attached, FullyAttached, FramesOfCase, Fresh, Within,
     Forgetting
<1>5. OfCase'
  <2>1. ASSUME NEW e \in Ends, conns'[e].state # "closed"
        PROVE  /\ conns'[e].case = current /\ e[1] \in used'
               /\ EntriesEnd(dynamic_table_info[e]) = PerBlock * conns'[e].sent
    <3>1. CASE e = Client(p) \/ e = Server(p)
      <4>1. conns'[e].case = current /\ conns'[e].sent = 0 /\ e[1] = p
        BY <1>2, <1>3, <3>1
      <4>2. EntriesEnd(dynamic_table_info[e]) = 0
        BY <1>1, <4>1, NoTableFacts DEF Kept, Fresh
      <4>3. PerBlock * 0 = 0
        BY ConnectionsOK
      <4>4. QED
        BY <1>1, <4>1, <4>2, <4>3
    <3>2. CASE e # Client(p) /\ e # Server(p)
      BY <1>1, <1>2, <2>1, <3>2 DEF Kept, OfCase
    <3>3. QED
      BY <3>1, <3>2
  <2>2. QED
    BY <1>1, <2>1 DEF OfCase
<1>6. StillDue'
  <2>1. ASSUME NEW e \in Ends, Due(e) PROVE Due(e)'
    BY <1>1, <1>2, <1>3, <2>1, DueOn
  <2>2. QED
    BY <1>1, <2>1 DEF Kept, StillDue
<1>7. QED
  BY <1>4, <1>5, <1>6 DEF Kept

\* The server accepts.
LEMMA KeptAccept ==
    ASSUME TypeInv, Kept, NEW p \in Ports, Accept(p)
    PROVE  Kept'
<1>1. /\ pc' = pc /\ results' = results /\ parsed' = parsed /\ used' = used
      /\ emit(Open(Server(p))) /\ conns[Server(p)].state = "opening"
      /\ UNCHANGED <<links, dynamic_table_info, dynamic_table, victim, current>>
  BY DEF Accept, runnerVars, parserVars
<1>2. /\ conns'[Server(p)].state = "open" /\ conns'[Server(p)].sent = conns[Server(p)].sent
      /\ conns'[Server(p)].case = conns[Server(p)].case
      /\ \A e \in Ends : e # Server(p) => conns'[e] = conns[e]
  BY AcceptFacts
<1>3. Server(p) \in Ends /\ Open(Server(p)) \in Report
  BY EndsOf, ReportKinds
<1>4. pc \notin Between \cup {"forget"}
  BY <1>1, <1>3 DEF Kept, QuietEnds, AllClosed
<1>5. /\ QuietEnds' /\ Attached' /\ OfCase' /\ FramesOfCase' /\ Fresh' /\ Within'
      /\ Forgetting'
  BY <1>1, <1>2, <1>3, <1>4 DEF Kept, QuietEnds, Between, Attached, FullyAttached, OfCase,
     FramesOfCase, Fresh, Within, Forgetting
<1>6. StillDue'
  <2>1. ASSUME NEW e \in Ends, Due(e) PROVE Due(e)'
    BY <1>1, <1>2, <1>3, <2>1, DueOn
  <2>2. QED
    BY <1>1, <2>1 DEF Kept, StillDue
<1>7. QED
  BY <1>5, <1>6 DEF Kept

\* An end closes, which makes its table due to be forgotten.
LEMMA KeptCloseEnd ==
    ASSUME TypeInv, Kept, NEW e \in Ends, CloseEnd(e)
    PROVE  Kept'
<1>1. /\ pc' = pc /\ results' = results /\ parsed' = parsed /\ used' = used
      /\ emit(Close(e)) /\ IsOpen(e)
      /\ UNCHANGED <<links, dynamic_table_info, dynamic_table, victim, current>>
  BY DEF CloseEnd, runnerVars, parserVars
<1>2. /\ conns'[e].state = "closed"
      /\ \A d \in Ends : d # e => conns'[d] = conns[d]
  BY CloseEndFacts
<1>3. pc \notin Between \cup {"forget"}
  BY <1>1 DEF Kept, QuietEnds, AllClosed, IsOpen
<1>4. /\ QuietEnds' /\ Attached' /\ OfCase' /\ FramesOfCase' /\ Fresh' /\ Within'
      /\ Forgetting'
  BY <1>1, <1>2, <1>3 DEF Kept, QuietEnds, Between, Attached, FullyAttached, OfCase,
     FramesOfCase, Fresh, Within, Forgetting
<1>5. StillDue'
  <2>1. ASSUME NEW d \in Ends, Due(d) PROVE Due(d)'
    BY <1>1, <1>2, <2>1, ReportKinds, DueOn
  <2>2. QED
    BY <1>1, <2>1 DEF Kept, StillDue
<1>6. QED
  BY <1>4, <1>5 DEF Kept

\* An end sends a block, which all of the parser reads, and which moves its table on.
LEMMA KeptSendBlock ==
    ASSUME TypeInv, Kept, NEW e \in Ends, SendBlock(e)
    PROVE  Kept'
<1> DEFINE old == dynamic_table_info[e]
           new == dynamic_table_info'[e]
           f == FrameOf(e)
<1>1. /\ pc' = pc /\ results' = results /\ parsed' = Append(parsed, f) /\ used' = used
      /\ emit(f) /\ IsOpen(e)
      /\ UNCHANGED <<links, victim, current>>
  BY DEF SendBlock, runnerVars
<1>2. pc \in {"ready", "check_sync", "wait", "drain"} /\ victim = NoVictim
  BY <1>1 DEF Kept, QuietEnds, Between, AllClosed, IsOpen, Forgetting, TypeInv
<1>3. FullyAttached /\ Parsing
  BY <1>2, FourSteps DEF Kept, Attached, FullyAttached, Parsing
<1>4. AddEntries(e)
  BY <1>3 DEF SendBlock
<1>5. /\ conns'[e].state = conns[e].state /\ conns'[e].sent = conns[e].sent + 1
      /\ conns'[e].case = conns[e].case /\ conns' \in [Ends -> Conn]
      /\ \A d \in Ends : d # e => conns'[d] = conns[d]
  BY SendBlockFacts
<1>6. /\ old \in Table /\ new = Added(old) /\ new \in Table
      /\ \A d \in Ends : d # e => dynamic_table_info'[d] = dynamic_table_info[d]
  BY <1>4, AddEntriesFacts, AddedFacts DEF TypeInv
<1>7. new.seen /\ new.deleted >= old.deleted /\ EntriesEnd(new) = EntriesEnd(old) + PerBlock
  BY <1>6, AddedFacts
<1>8. /\ old.deleted \in Nat /\ new.deleted \in Nat /\ EntriesEnd(old) \in Nat
      /\ EntriesEnd(new) \in Nat /\ PerBlock \in Nat
  BY <1>6, ConnectionsOK DEF Table, EntriesEnd
<1>9. /\ conns[e].case = current /\ e[1] \in used
      /\ EntriesEnd(old) = PerBlock * conns[e].sent
  BY <1>1 DEF Kept, OfCase, IsOpen
<1> HIDE DEF old, new, f
<1>10. conns[e].sent \in Nat
  BY DEF TypeInv, Conn
<1>11. EntriesEnd(new) = PerBlock * conns'[e].sent
  <2>1. PICK s \in Nat : s = conns[e].sent
    BY <1>10
  <2>2. PerBlock * (s + 1) = PerBlock * s + PerBlock
    BY <1>8
  <2>3. QED
    BY <1>5, <1>7, <1>9, <2>1, <2>2
<1>12. OfCase'
  <2>1. ASSUME NEW d \in Ends, conns'[d].state # "closed"
        PROVE  /\ conns'[d].case = current /\ d[1] \in used
               /\ EntriesEnd(dynamic_table_info'[d]) = PerBlock * conns'[d].sent
    <3>1. CASE d = e
      BY <1>5, <1>9, <1>11, <3>1 DEF new
    <3>2. CASE d # e
      BY <1>5, <1>6, <2>1, <3>2 DEF Kept, OfCase
    <3>3. QED
      BY <3>1, <3>2
  <2>2. QED
    BY <1>1, <2>1 DEF OfCase
<1>13. FramesOfCase'
  <2>1. /\ parsed \in Seq(Frame) /\ f \in Frame /\ f.full /\ f.own_table /\ f.case = current
    BY <1>3, <1>9, FrameOfType DEF TypeInv, f, old
  <2>2. /\ Len(parsed) \in Nat /\ Len(parsed') = Len(parsed) + 1
        /\ parsed'[Len(parsed) + 1] = f
        /\ \A j \in 1..Len(parsed) : parsed'[j] = parsed[j]
    BY <1>1, <2>1, AppendProperties, LenProperties
  <2>3. \A j \in 1..Len(parsed') : j = Len(parsed) + 1 \/ j \in 1..Len(parsed)
    BY <2>2
  <2>4. ASSUME NEW j \in 1..Len(parsed')
        PROVE  parsed'[j].full /\ parsed'[j].own_table /\ parsed'[j].case = current
    <3>1. CASE j = Len(parsed) + 1
      BY <2>1, <2>2, <3>1
    <3>2. CASE j \in 1..Len(parsed)
      BY <2>2, <3>2 DEF Kept, FramesOfCase
    <3>3. QED
      BY <2>3, <3>1, <3>2
  <2>5. QED
    BY <1>1, <2>4 DEF FramesOfCase
<1>14. Fresh'
  <2>1. \A d \in Ends : d[1] \notin used => d # e
    BY <1>9
  <2>2. QED
    BY <1>1, <1>2, <1>6, <2>1 DEF Kept, Fresh, Between
<1>15. StillDue'
  <2>1. Due(e)'
    BY <1>1, <1>5 DEF Due, IsOpen
  <2>2. f \in Report
    BY FrameOfType, ReportKinds DEF f
  <2>3. ASSUME NEW d \in Ends, Due(d) PROVE Due(d)'
    BY <1>1, <1>5, <2>2, <2>3, DueOn
  <2>4. ASSUME NEW d \in Ends
        PROVE  IF dynamic_table_info'[d].seen THEN Due(d)' ELSE dynamic_table_info'[d] = NoTable
    <3>1. CASE d = e
      BY <1>7, <2>1, <3>1 DEF new
    <3>2. CASE d # e
      BY <1>6, <2>3, <3>2 DEF Kept, StillDue
    <3>3. QED
      BY <3>1, <3>2
  <2>5. QED
    BY <2>4 DEF StillDue
<1>16. Within'
  <2>1. ASSUME NEW d \in Ends, NEW i \in Nat, <<d, i>> \in dynamic_table'
        PROVE  /\ i >= dynamic_table_info'[d].deleted
               /\ i < EntriesEnd(dynamic_table_info'[d])
    <3>1. CASE d = e
      <4>1. \/ /\ <<e, i>> \in dynamic_table
               /\ ~(i >= old.deleted /\ i < new.deleted)
            \/ i >= new.deleted /\ i < EntriesEnd(new)
        BY <1>4, <2>1, <3>1, AddEntriesFacts DEF old, new
      <4>2. <<e, i>> \in dynamic_table => i >= old.deleted /\ i < EntriesEnd(old)
        BY DEF Kept, Within, old
      <4>3. i >= new.deleted /\ i < EntriesEnd(new)
        BY <1>7, <1>8, <4>1, <4>2
      <4>4. QED
        BY <3>1, <4>3 DEF new
    <3>2. CASE d # e
      <4>1. <<d, i>> \in dynamic_table
        BY <1>4, <2>1, <3>2, AddEntriesFacts
      <4>2. QED
        BY <1>6, <3>2, <4>1 DEF Kept, Within
    <3>3. QED
      BY <3>1, <3>2
  <2>2. QED
    BY <1>1, <1>2, <2>1 DEF Within
<1>17. QuietEnds' /\ Attached' /\ Forgetting'
  BY <1>1, <1>2, <1>3 DEF QuietEnds, Between, Attached, FullyAttached, Forgetting
<1>18. QED
  BY <1>12, <1>13, <1>14, <1>15, <1>16, <1>17 DEF Kept

-----------------------------------------------------------------------------
(* The tables and the steps of the runner.                                   *)

\* The maps of the case before are gone, and the new parser is attached in steps.
LEMMA KeptCaseCommand ==
    ASSUME TypeInv, Kept, CaseCommand
    PROVE  Kept'
<1>1. /\ pc = "idle" /\ pc' = "attach" /\ victim = NoVictim /\ AllClosed /\ parsed = <<>>
      /\ reports = <<>> /\ Len(parsed) = 0
      /\ UNCHANGED <<conns, reports, results, victim, parsed>>
      /\ dynamic_table_info' = NoTables /\ dynamic_table' = {}
  BY EmptySeq DEF CaseCommand, Kept, QuietEnds, Between, Forgetting
<1>2. AllClosed'
  BY <1>1 DEF AllClosed
<1>3. QuietEnds' /\ Attached' /\ FramesOfCase' /\ Fresh' /\ Within' /\ Forgetting'
  BY <1>1, <1>2, NoTableFacts DEF QuietEnds, Attached, FramesOfCase, Fresh, Within, Forgetting
<1>4. OfCase'
  BY <1>2 DEF OfCase, AllClosed
<1>5. StillDue'
  BY <1>1, NoTableFacts DEF StillDue
<1>6. QED
  BY <1>3, <1>4, <1>5 DEF Kept

\* The parser is attached, and the case starts.
LEMMA KeptAttach ==
    ASSUME TypeInv, Kept, attach \/ SyncCase
    PROVE  Kept'
<1>1. /\ pc = "attach" /\ victim = NoVictim /\ AllClosed /\ parsed = <<>>
      /\ dynamic_table_info = NoTables /\ dynamic_table = {} /\ Len(parsed) = 0
  BY EmptySeq DEF attach, SyncCase, sync, Kept, QuietEnds, Between, Forgetting, Fresh
<1>2. /\ UNCHANGED <<conns, victim, dynamic_table_info, dynamic_table, current, used>>
      /\ \/ pc' = "attach" /\ parsed' = parsed /\ reports' = reports
         \/ pc' = "case_sync" /\ parsed' = <<>> /\ links' = links /\ FullyAttached
  BY DEF attach, SyncCase, sync, kernelVars, parserVars, runnerVars
<1>3. AllClosed' /\ parsed' = <<>>
  BY <1>1, <1>2 DEF AllClosed
<1>4. QuietEnds'
  BY <1>1, <1>2, <1>3 DEF QuietEnds, Kept, Between
<1>5. Attached'
  BY <1>2 DEF Attached, FullyAttached
<1>6. FramesOfCase' /\ Fresh' /\ Within' /\ Forgetting'
  BY <1>1, <1>2, <1>3, NoTableFacts DEF FramesOfCase, Fresh, Within, Forgetting
<1>7. OfCase'
  BY <1>3 DEF OfCase, AllClosed
<1>8. StillDue'
  BY <1>1, <1>2, NoTableFacts DEF StillDue
<1>9. QED
  BY <1>4, <1>5, <1>6, <1>7, <1>8 DEF Kept

\* A check starts, behind what is on its way.
LEMMA KeptSyncCheck ==
    ASSUME TypeInv, Kept, SyncCheck
    PROVE  Kept'
<1>1. /\ sync("ready", "check_sync") /\ pc = "ready" /\ pc' = "check_sync"
      /\ UNCHANGED <<conns, used, links, victim, dynamic_table_info, dynamic_table, current, parsed>>
      /\ emit(Mark)
  BY DEF SyncCheck, sync, kernelVars, parserVars
<1>2. results'.closed = results.closed /\ Mark \in Report /\ Mark.kind = "mark"
  BY <1>1, SyncFacts, ReportKinds
<1>3. /\ QuietEnds' /\ Attached' /\ OfCase' /\ FramesOfCase' /\ Fresh' /\ Within'
      /\ Forgetting'
  BY <1>1 DEF Kept, QuietEnds, Between, Attached, FullyAttached, OfCase, FramesOfCase, Fresh,
     Within, Forgetting
<1>4. StillDue'
  <2>1. ASSUME NEW e \in Ends, Due(e) PROVE Due(e)'
    BY <1>1, <1>2, <2>1, DueOn
  <2>2. QED
    BY <1>1, <2>1 DEF Kept, StillDue
<1>5. QED
  BY <1>3, <1>4 DEF Kept

\* The case has started: what is left of the one before is dropped, and none of it is
\* the closing of an end that has a table.
LEMMA KeptReady ==
    ASSUME TypeInv, Kept, Ready
    PROVE  Kept'
<1>1. /\ pc = "case_sync" /\ pc' = "ready" /\ dynamic_table_info = NoTables
      /\ UNCHANGED <<conns, used, links, victim, dynamic_table_info, dynamic_table, current, parsed>>
  BY DEF Ready, kernelVars, parserVars, Kept, Fresh, Between
<1>2. /\ QuietEnds' /\ Attached' /\ OfCase' /\ FramesOfCase' /\ Fresh' /\ Within'
      /\ Forgetting'
  BY <1>1 DEF Kept, QuietEnds, Between, Attached, FullyAttached, OfCase, FramesOfCase, Fresh,
     Within, Forgetting
<1>3. StillDue'
  BY <1>1, NoTableFacts DEF StillDue
<1>4. QED
  BY <1>2, <1>3 DEF Kept

\* The runner goes on with the check, or takes it again.
LEMMA KeptMovesOn ==
    ASSUME TypeInv, Kept, Synced \/ wait_closed \/ RunAgain
    PROVE  Kept'
<1>1. /\ pc' \in {"ready", "wait", "drain"}
      /\ pc \in {"check_sync", "wait"} \/ (pc = "idle" /\ current > 0)
      /\ UNCHANGED <<conns, used, links, victim, dynamic_table_info, dynamic_table, current,
                     reports, results, parsed>>
  BY DEF Synced, wait_closed, RunAgain, kernelVars, parserVars
<1>2. /\ QuietEnds' /\ Attached' /\ OfCase' /\ FramesOfCase' /\ Fresh' /\ Within'
      /\ Forgetting'
  BY <1>1 DEF Kept, QuietEnds, Between, Attached, FullyAttached, OfCase, FramesOfCase, Fresh,
     Within, Forgetting
<1>3. StillDue'
  BY <1>1 DEF Kept, StillDue, Due
<1>4. QED
  BY <1>2, <1>3 DEF Kept

\* A closing that is handled is one the runner knows of.
LEMMA KeptHandle ==
    ASSUME TypeInv, Kept, handle
    PROVE  Kept'
<1> DEFINE r == reports[1]
<1>1. /\ r \in Report /\ results' = Handled(r) /\ Len(reports) \in Nat \ {0}
      /\ Len(reports') = Len(reports) - 1
      /\ \A j \in 1..(Len(reports) - 1) : reports'[j] = reports[j + 1]
      /\ pc \in {"case_sync", "check_sync", "wait", "drain"}
      /\ UNCHANGED <<conns, used, links, victim, dynamic_table_info, dynamic_table, pc, current,
                     parsed>>
  BY HandleFacts DEF handle, Receiving, kernelVars, parserVars
<1>2. /\ results.closed \in Seq(Ends) /\ Len(results.closed) \in Nat
      /\ r.kind = "close" => results'.closed = Append(results.closed, r.end) /\ r.end \in Ends
      /\ r.kind # "close" => results'.closed = results.closed
  BY <1>1, HandledFacts, LenProperties DEF TypeInv, Results
<1> HIDE DEF r
<1>3. /\ QuietEnds' /\ Attached' /\ OfCase' /\ FramesOfCase' /\ Fresh' /\ Within'
      /\ Forgetting'
  BY <1>1 DEF Kept, QuietEnds, Between, AllClosed, Attached, FullyAttached, OfCase,
     FramesOfCase, Fresh, Within, Forgetting
<1>4. ASSUME NEW e \in Ends, NEW j \in 1..Len(results.closed), results.closed[j] = e
      PROVE  \E k \in 1..Len(results'.closed) : results'.closed[k] = e
  <2>1. CASE r.kind = "close"
    <3>1. j \in 1..Len(results'.closed) /\ results'.closed[j] = e
      BY <1>2, <1>4, <2>1, AppendProperties
    <3>2. QED
      BY <3>1
  <2>2. CASE r.kind # "close"
    BY <1>2, <1>4, <2>2
  <2>3. QED
    BY <2>1, <2>2
<1>5. ASSUME NEW e \in Ends, NEW j \in 1..Len(reports), ClosesOf(reports, j, e)
      PROVE  \/ \E k \in 1..Len(reports') : ClosesOf(reports', k, e)
             \/ \E k \in 1..Len(results'.closed) : results'.closed[k] = e
  <2>1. CASE j = 1
    <3>1. r.kind = "close" /\ r.end = e
      BY <1>5, <2>1 DEF ClosesOf, r
    <3>2. /\ Len(results'.closed) = Len(results.closed) + 1
          /\ results'.closed[Len(results.closed) + 1] = e
      BY <1>2, <3>1, AppendProperties
    <3>3. Len(results.closed) + 1 \in 1..Len(results'.closed)
      BY <1>2, <3>2
    <3>4. QED
      BY <3>2, <3>3
  <2>2. CASE j # 1
    <3>1. j - 1 \in 1..(Len(reports) - 1) /\ (j - 1) + 1 = j
      BY <1>1, <2>2
    <3>2. reports'[j - 1] = reports[(j - 1) + 1] /\ j - 1 \in 1..Len(reports')
      BY <1>1, <3>1
    <3>3. ClosesOf(reports', j - 1, e)
      BY <1>5, <3>1, <3>2 DEF ClosesOf
    <3>4. QED
      BY <3>2, <3>3
  <2>3. QED
    BY <2>1, <2>2
<1>6. StillDue'
  <2>1. ASSUME NEW e \in Ends, Due(e) PROVE Due(e)'
    BY <1>1, <1>4, <1>5, <2>1 DEF Due
  <2>2. QED
    BY <1>1, <2>1 DEF Kept, StillDue
<1>7. QED
  BY <1>3, <1>6 DEF Kept

\* The frames are taken, with every connection closed.
LEMMA KeptCheck ==
    ASSUME TypeInv, MissInv, Kept, Check
    PROVE  Kept'
<1>1. /\ pc = "drain" /\ pc' = "forget" /\ reports = <<>> /\ parsed' = <<>> /\ AllClosed
      /\ UNCHANGED <<conns, used, links, victim, dynamic_table_info, dynamic_table, current, reports>>
      /\ results' = [results EXCEPT !.frames = <<>>]
  BY NothingLeft DEF Check, Drained, kernelVars, parserVars
<1>2. AllClosed' /\ results'.closed = results.closed
  BY <1>1 DEF AllClosed, TypeInv, Results
<1>3. QuietEnds' /\ Attached' /\ Fresh' /\ Within' /\ Forgetting'
  BY <1>1, <1>2 DEF Kept, QuietEnds, Between, Attached, FullyAttached, Fresh, Within, Forgetting
<1>4. OfCase' /\ FramesOfCase'
  BY <1>1, <1>2, EmptySeq DEF OfCase, FramesOfCase, AllClosed
<1>5. StillDue'
  BY <1>1, <1>2 DEF Kept, StillDue, Due
<1>6. QED
  BY <1>3, <1>4, <1>5 DEF Kept

\* The table of an end reported closed is looked up: there is one, and it is the victim,
\* or there is none.
LEMMA KeptForgetLookup ==
    ASSUME TypeInv, Kept, ForgetLookup
    PROVE  Kept'
<1> DEFINE v == Head(results.closed)
           info == dynamic_table_info[v]
<1>1. /\ pc = "forget" /\ victim = NoVictim
      /\ UNCHANGED <<conns, used, links, dynamic_table_info, dynamic_table, pc, current, reports,
                     parsed>>
      /\ victim' = IF info.seen THEN [end |-> v, idx |-> info.deleted, stop |-> EntriesEnd(info)]
                   ELSE NoVictim
  BY DEF ForgetLookup, kernelVars, parserVars
<1>2. /\ v \in Ends /\ v = results.closed[1] /\ Len(results.closed) \in Nat \ {0}
      /\ Len(results'.closed) = Len(results.closed) - 1
      /\ \A j \in 1..(Len(results.closed) - 1) : results'.closed[j] = results.closed[j + 1]
  BY ForgetLookupFacts
<1> HIDE DEF v
<1>3. info.seen => victim' # NoVictim /\ victim'.end = v /\ victim'.idx = info.deleted
                     /\ victim'.stop = EntriesEnd(info)
  <2>1. info.seen => victim' = [end |-> v, idx |-> info.deleted, stop |-> EntriesEnd(info)]
    BY <1>1
  <2>2. <<>> \notin Ends
    BY DEF Ends
  <2> HIDE DEF info
  <2>3. QED
    BY <1>2, <2>1, <2>2 DEF NoVictim
<1>4. ~info.seen => victim' = NoVictim
  BY <1>1
<1>5. /\ QuietEnds' /\ Attached' /\ OfCase' /\ FramesOfCase' /\ Fresh'
  BY <1>1 DEF Kept, QuietEnds, AllClosed, Attached, FullyAttached, OfCase, FramesOfCase, Fresh
<1>6. Within' /\ Forgetting'
  BY <1>1, <1>3, <1>4 DEF Kept, Within, Forgetting
<1>7. StillDue'
  <2>1. ASSUME NEW e \in Ends, dynamic_table_info[e].seen PROVE Due(e)'
    <3>1. CASE e = v
      BY <1>3, <2>1, <3>1 DEF Due
    <3>2. CASE e # v
      <4>1. Due(e)
        BY <2>1 DEF Kept, StillDue
      <4>2. ASSUME NEW j \in 1..Len(results.closed), results.closed[j] = e
            PROVE  \E k \in 1..Len(results'.closed) : results'.closed[k] = e
        <5>1. j # 1
          BY <1>2, <3>2, <4>2
        <5>2. j - 1 \in 1..(Len(results.closed) - 1) /\ (j - 1) + 1 = j
          BY <1>2, <5>1
        <5>3. results'.closed[j - 1] = results.closed[(j - 1) + 1]
          BY <1>2, <5>2
        <5>4. j - 1 \in 1..Len(results'.closed) /\ results'.closed[j - 1] = e
          BY <1>2, <4>2, <5>2, <5>3
        <5>5. QED
          BY <5>4
      <4>3. QED
        BY <1>1, <4>1, <4>2 DEF Due
    <3>3. QED
      BY <3>1, <3>2
  <2>2. QED
    BY <1>1, <2>1 DEF Kept, StillDue
<1>8. QED
  BY <1>5, <1>6, <1>7 DEF Kept

\* Its entries are removed one by one, from the oldest one on.
LEMMA KeptForgetEntry ==
    ASSUME TypeInv, Kept, ForgetEntry
    PROVE  Kept'
<1>1. /\ victim # NoVictim /\ victim \in Victim
      /\ UNCHANGED <<conns, used, links, dynamic_table_info, pc, current, reports, results, parsed>>
      /\ dynamic_table' = dynamic_table \ {<<victim.end, victim.idx>>}
      /\ victim' = [victim EXCEPT !.idx = victim.idx + 1]
  BY DEF ForgetEntry, kernelVars, TypeInv
<1>2. /\ victim'.end = victim.end /\ victim'.idx = victim.idx + 1 /\ victim'.stop = victim.stop
      /\ victim.idx \in Nat /\ victim.end \in Ends
  BY <1>1 DEF Victim
<1>3. victim' # NoVictim
  <2>1. <<>> \notin Ends
    BY DEF Ends
  <2>2. QED
    BY <1>2, <2>1 DEF NoVictim
<1>4. /\ QuietEnds' /\ Attached' /\ OfCase' /\ FramesOfCase' /\ Forgetting'
  BY <1>1, <1>2 DEF Kept, QuietEnds, AllClosed, Attached, FullyAttached, OfCase, FramesOfCase,
     Forgetting
<1>5. Fresh'
  BY <1>1 DEF Kept, Fresh
<1>6. StillDue'
  BY <1>1, <1>2, <1>3 DEF Kept, StillDue, Due
<1>7. Within'
  <2>1. ASSUME NEW e \in Ends, NEW i \in Nat, <<e, i>> \in dynamic_table'
        PROVE  /\ i >= dynamic_table_info[e].deleted /\ i < EntriesEnd(dynamic_table_info[e])
               /\ victim.end = e => victim.idx + 1 <= i
    <3>1. <<e, i>> \in dynamic_table /\ <<e, i>> # <<victim.end, victim.idx>>
      BY <1>1, <2>1
    <3>2. /\ i >= dynamic_table_info[e].deleted /\ i < EntriesEnd(dynamic_table_info[e])
          /\ victim.end = e => victim.idx <= i
      BY <1>1, <3>1 DEF Kept, Within
    <3>3. victim.end = e => i # victim.idx
      BY <3>1
    <3>4. QED
      BY <1>2, <3>2, <3>3
  <2>2. QED
    BY <1>1, <1>2, <2>1 DEF Within
<1>8. QED
  BY <1>4, <1>5, <1>6, <1>7 DEF Kept

\* With all of them removed, so is the state of the table.
LEMMA KeptForgetInfo ==
    ASSUME TypeInv, Kept, ForgetInfo
    PROVE  Kept'
<1>1. /\ victim # NoVictim /\ victim \in Victim /\ victim.idx = victim.stop /\ victim' = NoVictim
      /\ UNCHANGED <<conns, used, links, dynamic_table, pc, current, reports, results, parsed>>
      /\ dynamic_table_info' = [dynamic_table_info EXCEPT ![victim.end] = NoTable]
      /\ dynamic_table_info \in [Ends -> Table]
  BY DEF ForgetInfo, kernelVars, TypeInv
<1>2. victim.end \in Ends /\ victim.idx \in Nat
  BY <1>1 DEF Victim
<1>3. /\ dynamic_table_info'[victim.end] = NoTable
      /\ \A e \in Ends : e # victim.end => dynamic_table_info'[e] = dynamic_table_info[e]
  BY <1>1, <1>2
<1>4. /\ pc = "forget" /\ victim.stop = EntriesEnd(dynamic_table_info[victim.end]) /\ AllClosed
  BY <1>1 DEF Kept, Forgetting, QuietEnds
<1>5. QuietEnds' /\ Attached' /\ FramesOfCase' /\ Forgetting'
  BY <1>1 DEF Kept, QuietEnds, AllClosed, Attached, FullyAttached, FramesOfCase, Forgetting
<1>6. OfCase'
  BY <1>1, <1>4 DEF OfCase, AllClosed
<1>7. Fresh'
  BY <1>1, <1>3, <1>4 DEF Kept, Fresh, Between
<1>8. StillDue'
  BY <1>1, <1>3, NoTableFacts DEF Kept, StillDue, Due
<1>9. Within'
  <2>1. ASSUME NEW e \in Ends, NEW i \in Nat, <<e, i>> \in dynamic_table
        PROVE  /\ i >= dynamic_table_info'[e].deleted /\ i < EntriesEnd(dynamic_table_info'[e])
    <3>1. /\ i >= dynamic_table_info[e].deleted /\ i < EntriesEnd(dynamic_table_info[e])
          /\ victim.end = e => victim.idx <= i
      BY <1>1, <2>1 DEF Kept, Within
    <3>2. e # victim.end
      <4>1. SUFFICES ASSUME e = victim.end PROVE FALSE
        OBVIOUS
      <4>2. victim.idx <= i /\ i < victim.idx
        BY <1>1, <1>4, <3>1, <4>1
      <4>3. QED
        BY <1>2, <4>2
    <3>3. QED
      BY <1>3, <3>1, <3>2
  <2>2. QED
    BY <1>1, <2>1 DEF Within
<1>10. QED
  BY <1>5, <1>6, <1>7, <1>8, <1>9 DEF Kept

\* When no end is left to forget, nothing is left of any table.
LEMMA KeptForgotten ==
    ASSUME TypeInv, Kept, Forgotten
    PROVE  Kept'
<1>1. /\ pc = "forget" /\ pc' = "idle" /\ victim = NoVictim /\ results.closed = <<>>
      /\ AllClosed /\ reports = <<>> /\ parsed = <<>> /\ Len(<<>>) = 0
      /\ UNCHANGED <<conns, links, dynamic_table_info, dynamic_table, victim, current, reports, results,
                     parsed>>
  BY EmptySeq DEF Forgotten, Kept, QuietEnds, parserVars
<1>2. \A e \in Ends : dynamic_table_info[e] = NoTable
  <2>1. \A e \in Ends : ~Due(e)
    BY <1>1 DEF Due, AllClosed
  <2>2. QED
    BY <2>1 DEF Kept, StillDue
<1>3. dynamic_table_info = NoTables
  BY <1>2 DEF NoTables, TypeInv
<1>4. dynamic_table = {}
  <2>1. ASSUME NEW e \in Ends, NEW i \in Nat, <<e, i>> \in dynamic_table PROVE FALSE
    <3>1. i >= 0 /\ i < 0
      BY <1>2, <2>1, NoTableFacts DEF Kept, Within
    <3>2. QED
      BY <3>1
  <2>2. dynamic_table \subseteq Ends \X Nat
    BY DEF TypeInv
  <2>3. QED
    BY <2>1, <2>2
<1>5. AllClosed'
  BY <1>1 DEF AllClosed
<1>6. QuietEnds' /\ Attached' /\ FramesOfCase' /\ Within' /\ Forgetting'
  BY <1>1, <1>4, <1>5 DEF Kept, QuietEnds, Attached, FullyAttached, FramesOfCase, Within,
     Forgetting
<1>7. Fresh' /\ StillDue'
  BY <1>1, <1>2, <1>3, <1>4, NoTableFacts DEF Fresh, StillDue
<1>8. OfCase'
  BY <1>5 DEF OfCase, AllClosed
<1>9. QED
  BY <1>6, <1>7, <1>8 DEF Kept

-----------------------------------------------------------------------------
(* The theorems about the tables.                                            *)

\* A step keeps the tables and the frames in order, until a check is late.
LEMMA TablesStep == TypeInv /\ MissInv /\ TablesInv /\ [Next]_vars => TablesInv'
<1> SUFFICES ASSUME TypeInv, MissInv, TablesInv, [Next]_vars PROVE TablesInv'
  OBVIOUS
<1>1. CASE late
  <2>1. late'
    BY <1>1 DEF Next, Kernel, Runner, Connect, Accept, Preface, SendBlock, CloseEnd, CaseCommand,
       SyncCheck, RunAgain, Timeout, attach, SyncCase, Ready, handle, Synced, wait_closed, Check,
       ForgetLookup, ForgetEntry, ForgetInfo, Forgotten, sync, runnerVars, vars
  <2>2. QED
    BY <2>1 DEF TablesInv
<1>2. CASE Timeout
  BY <1>2 DEF Timeout, TablesInv
<1>3. CASE Kept
  <2>1. ASSUME UNCHANGED <<conns, used, links, dynamic_table_info, dynamic_table, victim,
                           pc, current, reports, results, parsed>>
        PROVE  Kept'
    BY <1>3, <2>1 DEF Kept, QuietEnds, AllClosed, Attached, FullyAttached, OfCase, FramesOfCase,
       Fresh, StillDue, Due, Within, Forgetting
  <2>2. CASE UNCHANGED vars
    BY <2>1, <2>2 DEF vars, TablesInv
  <2>3. ASSUME NEW p \in Ports, Preface(p) PROVE Kept'
    BY <2>1, <2>3 DEF Preface, parserVars, runnerVars
  <2>4. CASE Kernel
    BY <1>3, <2>3, <2>4, KeptConnect, KeptAccept, KeptSendBlock, KeptCloseEnd
       DEF Kernel, TablesInv
  <2>5. CASE Runner
    BY <1>3, <2>5, KeptAttach, KeptReady, KeptHandle, KeptMovesOn, KeptCheck, KeptForgetLookup,
       KeptForgetEntry, KeptForgetInfo, KeptForgotten DEF Runner, TablesInv
  <2>6. CASE CaseCommand \/ SyncCheck \/ RunAgain
    BY <1>3, <2>6, KeptCaseCommand, KeptSyncCheck, KeptMovesOn DEF TablesInv
  <2>7. QED
    BY <1>2, <2>2, <2>4, <2>5, <2>6 DEF Next
<1>4. QED
  BY <1>1, <1>3 DEF TablesInv

\* At the start there are no tables and no frames.
LEMMA TablesAtInit == Init => TablesInv
<1> SUFFICES ASSUME Init PROVE TablesInv
  OBVIOUS
<1>1. /\ pc = "idle" /\ current = 0 /\ parsed = <<>> /\ reports = <<>> /\ victim = NoVictim
      /\ dynamic_table_info = NoTables /\ dynamic_table = {} /\ Len(<<>>) = 0
      /\ \A e \in Ends : conns[e].state = "closed"
  BY EmptySeq DEF Init, Closed
<1>2. QuietEnds /\ Attached /\ OfCase /\ FramesOfCase /\ Within /\ Forgetting
  BY <1>1 DEF QuietEnds, AllClosed, Attached, OfCase, FramesOfCase, Within, Forgetting
<1>3. Fresh /\ StillDue
  BY <1>1, NoTableFacts DEF Fresh, StillDue
<1>4. QED
  BY <1>2, <1>3 DEF TablesInv, Kept

\* Every state does, until a check is late.
LEMMA TablesKept == Spec => [](TypeInv /\ MissInv /\ TablesInv)
  BY TablesAtInit, TablesStep, Types, Misses, PTL DEF Spec

\* The frames a check judges are of connections of its case and were read by the whole of
\* its parser, with the static table filled and with the dynamic table the connection
\* built up itself (attach_parser, forget_conn and the runner's waiting), unless a check
\* has timed out before.
THEOREM FramesOfTheCase == Spec => []ReadByTheCase
<1>1. TypeInv /\ MissInv /\ TablesInv => ReadByTheCase
  <2>1. SUFFICES ASSUME TypeInv, MissInv, TablesInv, Drained, ~late,
                        NEW j \in DOMAIN results.frames
                 PROVE  /\ results.frames[j].full /\ results.frames[j].own_table
                        /\ results.frames[j].case = current
    BY DEF ReadByTheCase
  <2>2. results.frames = parsed /\ FramesOfCase
    BY <2>1, NothingLeft DEF TablesInv, Kept
  <2>3. DOMAIN parsed = 1..Len(parsed)
    BY HandedType, LenProperties, <2>1
  <2>4. QED
    BY <2>1, <2>2, <2>3 DEF FramesOfCase
<1>2. QED
  BY <1>1, TablesKept, PTL

\* Once a check is over, nothing is left of the dynamic tables: forget_conn removes every
\* entry and the state of each.
THEOREM TablesGone == Spec => []TablesForgotten
<1>1. TablesInv => TablesForgotten
  BY DEF TablesInv, Kept, Fresh, Between, TablesForgotten
<1>2. QED
  BY <1>1, TablesKept, PTL
===============================================================================
