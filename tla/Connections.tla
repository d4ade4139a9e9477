------------------------------ MODULE Connections ------------------------------
(***************************************************************************)
(* The connections to the server under test, from the program that parses  *)
(* them (utils/src/prog.bpf.c) to the conformance runner that judges a     *)
(* case once all of them are closed (utils/src/bin/conformance/main.rs,    *)
(* utils/src/test.rs): which ends are read as HTTP/2, which parser reads   *)
(* them and how much of it is attached (beeper/src/http2/parser.rs), whose *)
(* dynamic table it uses, and what of its reports has been handled.        *)
(*                                                                         *)
(* h2spec and the script that drives it and the runner (ci/h2spec.sh) are  *)
(* the environment.                                                        *)
(***************************************************************************)
EXTENDS Integers, Sequences, FiniteSetsExt, TLC

CONSTANTS
    Ports,          \* of the client ends, numbers
    TableLimit,     \* how many entries a dynamic table holds
    PerBlock,       \* how many a header block adds to the table of its end
    EarlyClose,     \* whether the server may close before the client's preface
    MaxCases,       \* bound: the cases run
    MaxConns,       \* bound: the connections opened
    MaxBlocks       \* bound: the blocks sent on a connection's open ends

ASSUME ConnectionsOK ==
    /\ Ports \subseteq Nat /\ {TableLimit, PerBlock} \subseteq Nat \ {0} /\ EarlyClose \in BOOLEAN
    /\ MaxCases \in Nat /\ MaxConns \in Nat /\ MaxBlocks \in Nat

VARIABLES
    conns,      \* the ends of connections: their state, and what they sent
    num_conns,  \* how many were opened
    used,       \* the ports used since the tables were last forgotten
    upgraded_conns,
    links,      \* how many steps the attaching of the parser has taken
    dynamic_table_info, dynamic_table,  \* maps of that parser
    reports,    \* the ring buffer and the channel behind it
    results,    \* struct Results
    pc,         \* where the runner is
    current,    \* the case it runs
    victim,     \* the table it forgets, and its entries that are left
    parsed,     \* the frames reported for the current check
    late        \* whether a check has run into its timeout

vars == <<conns, num_conns, used, upgraded_conns, links, dynamic_table_info,
          dynamic_table, reports, results, pc, current, victim, parsed, late>>
kernelVars == <<conns, num_conns, used, upgraded_conns>>
parserVars == <<links, dynamic_table_info, dynamic_table>>
runnerVars == <<results, pc, current, victim, late>>

Ends == Ports \X {"client", "server"}
Client(p) == <<p, "client">>
Server(p) == <<p, "server">>
IsOpen(e) == conns[e].state = "open"
AllClosed == \A e \in Ends : conns[e].state = "closed"
Closed == [state |-> "closed", case |-> 0, sent |-> 0]

NoTable == [deleted |-> 0, count |-> 0, seen |-> FALSE]
NoVictim == [end |-> <<>>, idx |-> 0, stop |-> 0]

Open(e) == [kind |-> "open", end |-> e]
Close(e) == [kind |-> "close", end |-> e]
Mark == [kind |-> "mark"]
emit(r) == reports' = Append(reports, r)

-----------------------------------------------------------------------------
(* The program: monitor_sockets, and msg_verdict on an end's messages.       *)

\* A port is not handed out again while its last connection lingers in TIME_WAIT.
Free(p) == p \notin used /\ conns[Client(p)].state = "closed" /\ conns[Server(p)].state = "closed"

\* h2spec connects while the runner is ready.  Bounds: ports being alike, the first
\* free one is taken, and none once a check has timed out.
Connect(p) ==
    /\ pc = "ready" /\ ~late /\ num_conns < MaxConns
    /\ Free(p) /\ \A q \in Ports : Free(q) => p <= q
    /\ conns' = [conns EXCEPT ![Client(p)] = [state |-> "open", case |-> current, sent |-> 0],
                              ![Server(p)] = [state |-> "opening", case |-> current, sent |-> 0]]
    /\ num_conns' = num_conns + 1
    /\ used' = used \union {p}
    /\ emit(Open(Client(p)))
    /\ UNCHANGED <<upgraded_conns, parserVars, runnerVars, parsed>>

\* The server's end is established by the last packet of the handshake.
Accept(p) ==
    /\ conns[Server(p)].state = "opening"
    /\ conns' = [conns EXCEPT ![Server(p)].state = "open"]
    /\ emit(Open(Server(p)))
    /\ UNCHANGED <<num_conns, used, upgraded_conns, parserVars, runnerVars, parsed>>

\* The preface upgrades both ends of its connection.
upgrade_conn(p) == upgraded_conns' = upgraded_conns \union {Client(p), Server(p)}

Preface(p) ==
    /\ IsOpen(Client(p)) /\ Client(p) \notin upgraded_conns
    /\ upgrade_conn(p)
    /\ UNCHANGED <<conns, num_conns, used, parserVars, reports, runnerVars, parsed>>

\* Mutant: what the table has no room for is not evicted.
Added_unbounded(info) == [info EXCEPT !.count = @ + PerBlock, !.seen = TRUE]

\* The entries of a block are added, each after the oldest one left if the table
\* is full.
Added(info) ==
    LET count == Min({info.count + PerBlock, TableLimit})
    IN  [deleted |-> info.deleted + info.count + PerBlock - count, count |-> count, seen |-> TRUE]

AddEntries(e) ==
    LET old == dynamic_table_info[e]
        new == Added(old)
    IN  /\ dynamic_table_info' = [dynamic_table_info EXCEPT ![e] = new]
        /\ dynamic_table' =
            (dynamic_table \ {<<e, idx>> : idx \in old.deleted..(new.deleted - 1)})
                \union {<<e, idx>> : idx \in Max({old.deleted + old.count, new.deleted})..
                                            (new.deleted + new.count - 1)}

\* Which attach steps replace the stubs of the program: without a parser a frame
\* fails, and until the last step names and values are missing from its report.
AttachSteps == <<"parse_msg", "matched", "get_match_msg", "static_table">>
Parsing == links > 0
FullyAttached == links = Len(AttachSteps)

\* A report of a block says how it was read: whether by all of the parser, and
\* with the table its connection has built up.
FrameOf(e) ==
    [kind |-> "frame", end |-> e, case |-> conns[e].case, full |-> FullyAttached,
     own_table |->
         dynamic_table_info[e].deleted + dynamic_table_info[e].count = PerBlock * conns[e].sent]

SendBlock(e) ==
    /\ IsOpen(e) /\ e \in upgraded_conns
    /\ conns[Client(e[1])].sent + conns[Server(e[1])].sent < MaxBlocks
    /\ conns' = [conns EXCEPT ![e].sent = @ + 1]
    /\ emit(FrameOf(e))
    /\ parsed' = Append(parsed, FrameOf(e))
    /\ IF Parsing THEN AddEntries(e) ELSE UNCHANGED <<dynamic_table_info, dynamic_table>>
    /\ UNCHANGED <<num_conns, used, upgraded_conns, links, runnerVars>>

MayClose(e) ==
    IF e[2] = "client" THEN conns[Server(e[1])].state # "opening"
    ELSE EarlyClose \/ e \in upgraded_conns \/ conns[Client(e[1])].state = "closed"

\* Mutant: the upgrade of an end that closes is not forgotten.
CloseEndUpgraded(e) ==
    /\ IsOpen(e) /\ MayClose(e)
    /\ conns' = [conns EXCEPT ![e] = Closed]
    /\ emit(Close(e))
    /\ UNCHANGED <<num_conns, used, upgraded_conns, parserVars, runnerVars, parsed>>

\* TCP_CLOSE: nothing more is sent on the end.
CloseEnd(e) ==
    /\ IsOpen(e) /\ MayClose(e)
    /\ conns' = [conns EXCEPT ![e] = Closed]
    /\ upgraded_conns' = upgraded_conns \ {e}
    /\ emit(Close(e))
    /\ UNCHANGED <<num_conns, used, parserVars, runnerVars, parsed>>

Kernel ==
    \/ \E p \in Ports : Connect(p)
    \/ \E p \in Ports : Accept(p)
    \/ \E p \in Ports : Preface(p)
    \/ \E e \in Ends : SendBlock(e)
    \/ \E e \in Ends : CloseEnd(e)

-----------------------------------------------------------------------------
(* The runner.                                                               *)

NoTables == [e \in Ends |-> NoTable]

\* The command `case`: the parser of the case before lets go of the program,
\* along with its maps.
CaseCommand ==
    /\ pc = "idle" /\ current < MaxCases
    /\ pc' = "attach" /\ current' = current + 1 /\ links' = 0
    /\ dynamic_table_info' = NoTables /\ dynamic_table' = {} /\ used' = {}
    /\ UNCHANGED <<conns, num_conns, upgraded_conns, reports, results, victim, parsed, late>>

\* The programs are attached one by one, and the static table is filled last.
attach ==
    /\ pc = "attach" /\ ~FullyAttached
    /\ links' = links + 1
    /\ UNCHANGED <<kernelVars, dynamic_table_info, dynamic_table, reports, runnerVars, parsed>>

\* Asks for a mark, behind everything reported so far.
sync(from, to) ==
    /\ pc = from
    /\ pc' = to
    /\ results' = [results EXCEPT !.marked = FALSE]
    /\ emit(Mark)
    /\ UNCHANGED <<kernelVars, parserVars, current, victim, late>>

\* Mutant: the case starts while its parser is being attached.
SyncCaseEarly == Parsing /\ sync("attach", "case_sync") /\ parsed' = <<>>

SyncCase == FullyAttached /\ sync("attach", "case_sync") /\ parsed' = <<>>

\* What is left of the case before is dropped.
Ready ==
    /\ pc = "case_sync" /\ results.marked
    /\ pc' = "ready"
    /\ results' = [results EXCEPT !.frames = <<>>, !.closed = <<>>]
    /\ UNCHANGED <<kernelVars, parserVars, reports, current, victim, parsed, late>>

\* The command `check`, once h2spec has exited.
SyncCheck ==
    /\ \A p \in Ports : conns[Client(p)].state = "closed"
    /\ sync("ready", "check_sync")
    /\ UNCHANGED parsed

\* The runner takes `check` any number of times for a case.
RunAgain ==
    /\ pc = "idle" /\ current > 0
    /\ pc' = "ready"
    /\ UNCHANGED <<kernelVars, parserVars, reports, results, current, victim, parsed, late>>

\* Mutant: an end that closes stays among the open ones.
Handled_kept(r) ==
    CASE r.kind = "open" -> [results EXCEPT !.open = @ \union {r.end}]
      [] r.kind = "close" -> [results EXCEPT !.closed = Append(@, r.end)]
      [] r.kind = "frame" -> [results EXCEPT !.frames = Append(@, r)]
      [] r.kind = "mark" -> [results EXCEPT !.marked = TRUE]

Handled(r) ==
    CASE r.kind = "open" -> [results EXCEPT !.open = @ \union {r.end}]
      [] r.kind = "close" -> [results EXCEPT !.open = @ \ {r.end}, !.closed = Append(@, r.end)]
      [] r.kind = "frame" -> [results EXCEPT !.frames = Append(@, r)]
      [] r.kind = "mark" -> [results EXCEPT !.marked = TRUE]

\* Handles a report, while the runner waits for the mark or for the connections
\* to be closed, or drains what is there.
Receiving ==
    \/ pc \in {"case_sync", "check_sync"} /\ ~results.marked
    \/ pc = "wait" /\ results.open # {}
    \/ pc = "drain"

handle ==
    /\ Receiving /\ reports # <<>>
    /\ results' = Handled(Head(reports))
    /\ reports' = Tail(reports)
    /\ UNCHANGED <<kernelVars, parserVars, pc, current, victim, parsed, late>>

\* Mutant: what is on its way is not waited for.
SyncedAtOnce ==
    /\ pc = "check_sync"
    /\ pc' = "wait"
    /\ UNCHANGED <<kernelVars, parserVars, reports, results, current, victim, parsed, late>>

Synced ==
    /\ pc = "check_sync" /\ results.marked
    /\ pc' = "wait"
    /\ UNCHANGED <<kernelVars, parserVars, reports, results, current, victim, parsed, late>>

wait_closed ==
    /\ pc = "wait" /\ results.open = {}
    /\ pc' = "drain"
    /\ UNCHANGED <<kernelVars, parserVars, reports, results, current, victim, parsed, late>>

Drained == pc = "drain" /\ reports = <<>>

\* The frames are taken and judged.
Check ==
    /\ Drained
    /\ pc' = "forget"
    /\ results' = [results EXCEPT !.frames = <<>>]
    /\ parsed' = <<>>
    /\ UNCHANGED <<kernelVars, parserVars, reports, current, victim, late>>

\* CLOSE_TIMEOUT passes with nothing more reported: the check fails.
Timeout ==
    /\ pc = "wait" /\ results.open # {} /\ reports = <<>>
    /\ pc' = "forget" /\ late' = TRUE
    /\ UNCHANGED <<kernelVars, parserVars, reports, results, current, victim, parsed>>

\* Mutant: the newest entry is taken for one that is not there yet.
EntriesEnd_short(info) == info.deleted + info.count - 1

\* Where the entries of a table end.
EntriesEnd(info) == info.deleted + info.count

\* forget_conn: the state of the table is read once, its entries are removed one
\* by one, and then the state.
ForgetLookup ==
    /\ pc = "forget" /\ victim = NoVictim /\ results.closed # <<>>
    /\ LET e == Head(results.closed)
           info == dynamic_table_info[e]
       IN  victim' = IF info.seen THEN [end |-> e, idx |-> info.deleted,
                                        stop |-> EntriesEnd(info)]
                                  ELSE NoVictim
    /\ results' = [results EXCEPT !.closed = Tail(@)]
    /\ UNCHANGED <<kernelVars, parserVars, reports, pc, current, parsed, late>>

ForgetEntry ==
    /\ victim # NoVictim /\ victim.idx < victim.stop
    /\ dynamic_table' = dynamic_table \ {<<victim.end, victim.idx>>}
    /\ victim' = [victim EXCEPT !.idx = @ + 1]
    /\ UNCHANGED <<kernelVars, links, dynamic_table_info, reports, results, pc, current,
                   parsed, late>>

ForgetInfo ==
    /\ victim # NoVictim /\ victim.idx = victim.stop
    /\ dynamic_table_info' = [dynamic_table_info EXCEPT ![victim.end] = NoTable]
    /\ victim' = NoVictim
    /\ UNCHANGED <<kernelVars, links, dynamic_table, reports, results, pc, current,
                   parsed, late>>

\* The verdict is printed.
Forgotten ==
    /\ pc = "forget" /\ victim = NoVictim /\ results.closed = <<>>
    /\ pc' = "idle" /\ used' = {}
    /\ UNCHANGED <<conns, num_conns, upgraded_conns, parserVars, reports, results, current,
                   victim, parsed, late>>

Runner ==
    \/ attach
    \/ SyncCase
    \/ Ready
    \/ handle
    \/ Synced
    \/ wait_closed
    \/ Check
    \/ ForgetLookup
    \/ ForgetEntry
    \/ ForgetInfo
    \/ Forgotten

-----------------------------------------------------------------------------
Init ==
    /\ conns = [e \in Ends |-> Closed] /\ num_conns = 0 /\ used = {} /\ upgraded_conns = {}
    /\ links = 0 /\ dynamic_table_info = NoTables /\ dynamic_table = {}
    /\ reports = <<>> /\ parsed = <<>> /\ late = FALSE
    /\ results = [open |-> {}, frames |-> <<>>, marked |-> FALSE, closed |-> <<>>]
    /\ pc = "idle" /\ current = 0 /\ victim = NoVictim

Next == Kernel \/ Runner \/ CaseCommand \/ SyncCheck \/ RunAgain \/ Timeout

\* The runner runs on, and the server closes an end whose client is gone.
Fairness ==
    /\ WF_vars(Runner)
    /\ \A p \in Ports : WF_vars(conns[Client(p)].state = "closed" /\ CloseEnd(Server(p)))

Spec == Init /\ [][Next]_vars /\ Fairness

-----------------------------------------------------------------------------
(* Properties.                                                               *)

\* Everything is of its kind, and only ends of connections are open or upgraded.
TypeOK ==
    /\ conns \in [Ends -> [state : {"closed", "opening", "open"}, case : 0..MaxCases,
                           sent : 0..MaxBlocks]]
    /\ upgraded_conns \subseteq Ends /\ used \subseteq Ports
    /\ links \in 0..Len(AttachSteps) /\ current \in 0..MaxCases
    /\ \A e \in Ends : dynamic_table_info[e].count \in 0..TableLimit
    /\ dynamic_table \subseteq Ends \X Nat /\ results.open \subseteq Ends
    /\ pc \in {"idle", "attach", "case_sync", "ready", "check_sync", "wait", "drain", "forget"}

\* A reader that waits until both ends of every connection are reported closed
\* misses none of their frames, and nothing more is reported after it
\* (TestProgram::results).
NothingMissed == Drained => AllClosed /\ results.frames = parsed

\* The frames a check judges are of connections of its case and were read by
\* the whole of its parser, with the static table filled and with the dynamic
\* table the connection built up itself, unless a check has timed out before.
ReadByTheCase ==
    (Drained /\ ~late) =>
        \A j \in DOMAIN results.frames :
            LET f == results.frames[j] IN f.full /\ f.own_table /\ f.case = current

\* Once a check is over, nothing is left of the dynamic tables.
TablesForgotten ==
    (pc = "idle" /\ ~late) => dynamic_table = {} /\ dynamic_table_info = NoTables

\* A connection that is closed leaves neither end upgraded to a later one.
UpgradesForgotten ==
    \A p \in Ports :
        conns[Client(p)].state = "closed" /\ conns[Server(p)].state = "closed" =>
            {Client(p), Server(p)} \intersect upgraded_conns = {}

\* A check ends, without its timeout, as the server closes what the client closed,
\* and so does the attaching of a case's parser.
CommandsEnd == (pc # "ready") ~> (pc \in {"idle", "ready"})
=============================================================================
