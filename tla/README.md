# A TLA+ model of beeper

beeper is a library of eBPF parsers for HTTP/1 and HTTP/2. A client program
declares stub functions at an `sk_msg` or `sk_skb` hook, and beeper replaces
them (`freplace`) with a parser configured in Rust with the headers to capture.
For HTTP/2 the parser only watches the bytes of a connection go by. It never
talks to either end, so it has to mirror what the sender's HPACK encoder does
from the stream alone, in a program without memory allocation, with bounded
loops, and with its state in BPF maps.

This directory holds the specifications of that program, the TLC configurations
that check them on small instances, and the theorems about them that TLAPS
checks for every instance. `PROJECT.json` maps every definition to the lines it
stands for.

## The system

| Component | State | Operations | Hard about it |
| --- | --- | --- | --- |
| HPACK dynamic table mirror (`beeper/src/http2/parser.bpf.c`) | `dynamic_table_info` (count, size, max_size, deleted, dirty) and `dynamic_table` (entries by slot), both BPF hash maps keyed by connection; the matches `pres->ms` | indexed fields, literals with and without addition, eviction, size updates, SETTINGS, look-ups, `get_match`, `get_dt_entry` | two tables kept in step without talking to each other; refused additions; cut strings; slots of 16 bits; a full map |
| Framing and header blocks (same file) | per-CPU block buffer | `parse_msg`, `parse_skb`, `_collect_block`, `_parse_frame` | frames cut anywhere, broken blocks, fixed limits, partial linear data |
| sk_msg verdict (`utils/src/prog.bpf.c`, `example/src/monitor.bpf.c`) | `upgraded_conns`, the kernel's cork and apply counters | parse, cork, apply, upgrade | the kernel runs the verdict again on what is left of a message and keeps the cork |
| sk_skb stream parser and verdict (`utils/src/prog.bpf.c`) | `upgraded_conns`, the kernel's offset into the stream | `h2_msg_len`, `skb_parser`, `skb_verdict` | messages within sk_buffs cut anywhere; one chance to parse each |
| HPACK representation decoder (`parser.bpf.c`, `hpack.rs`, `action.rs`, `http2/parser.rs`) | `struct http2_parse_state`, the rows of the automaton, the static table | `capture_hdr`, `inject`, `populate_static_table`, `_parse_hdr_byte`, `_run_action` | two spellings of every name, integers of 32 bits, lengths masked to 15, empty strings, a representation read out of step |
| Header tries and DFA builder (`dfa.rs`) | states and edges | `push*`, `insert_edge`, `restart_with` | shared prefixes, optional prefixes, wildcards |
| HTTP/1 parser (`http1/`) | the configured matches; none between messages | `capture_hdr`, `match_http2_preface`, `attach`, `parse_msg`, `parse_skb` | fields whose patterns share states, a walk that resumes in the middle of a field, the end of the header, the boundary at `MAX_BYTES` |
| Connection lifecycle (`http2/parser.rs`, `prog.bpf.c`, `conformance/main.rs`) | the maps of all connections, `upgraded_conns`, `Results` | `monitor_sockets`, `upgrade_conn`, `forget_conn`, `sync`, `wait_closed`, `forget_closed` | user space deletes entries while the parser runs; ports are reused; reports are in flight |
| Attaching (`http1/parser.rs`, `http2/parser.rs`) | links, static table | `attach` | programs are live before the static table is populated |
| Huffman lengths (`parser.bpf.c`) | none | `hpack_huffman_decoded_len` | canonical codes decoded bit by bit |
| Conformance runner (`utils/src/bin/conformance`) | the cases of h2spec, the frames reported | `check`, `check_requests`, `check_violation`, `matches` | values cut, in either spelling; frames a violation may swallow; answers of any of the requests |
| RESP2, example in user space, build and CI | | | not modelled: not compiled, or I/O only |

The parts meet as follows. A peer writes frames; the kernel hands messages to a
verdict program; the verdict calls the attached parser; the parser cuts the
message into a frame or a header block, decodes its representations, looks up
and updates the mirror of the sender's table, and records matches; the verdict
asks for the values of the matches, and tells the kernel how many bytes it is
done with or how many it needs. User space reads the tables and forgets
connections through the same maps.

What makes each part correct:

- the mirror: an index of the peer names the field the peer means, or the mirror
  knows it does not know; its counters describe what its map holds; a match
  keeps its meaning;
- framing: every header block is decoded once, in order, whatever the cut of the
  stream; broken blocks are told from incomplete ones;
- the verdicts: nothing reaches the other end unread, nothing complete is held
  back;
- the decoder, the DFA, the Huffman lengths and HTTP/1: they agree with a
  reference definition on every input within their limits, and refuse the rest;
- the lifecycle: no table and no upgrade outlives its connection into the next
  one, and what a check judges is all of its case and nothing else;
- the runner: it passes a parser that is right and fails one that is not.

`PROJECT.json` lists under `hazards` the places where each can go wrong.

## Modules

### `DynamicTable`

One connection's mirror and the encoder of its peer. `dt_info`, `dynamic_table`
and `ms` are the C structures; `ps` holds the fields of `http2_parse_state` that
live across the eviction loop; `pc` says whether the parser is between fields,
in `_add_dynamic_table_entry` or in a size update. The eviction loop takes one
step per iteration, so that invariants see the table in the middle of it.

A representation is one action: `Indexed`, `LiteralIndexedName`,
`LiteralNewName`, `AddIndexedName`, `AddNewName`, `TableSizeUpdate`; `Settings`
is a SETTINGS frame, `NextBlock` the caller reusing `pres`. The additions go
through `StartAdd` (the early returns of `_add_dynamic_table_entry`: dirty,
unreadable name, a cut Huffman string), `EvictOldest`, and one of `Insert`,
`InsertFindsMapFull`, `DropOversized`. The caller ignores the result of an
addition and takes the value anyway, which is why each of these ends in
`TakeValue`.

The peer is part of the model, because the mirror is right only relative to it:
`sent` records every field it added, with running sizes, and `peer` how many of
the newest it keeps and its limit. The parser is synchronous in the stream, so
the peer's emission of a representation and the parser's reading of it are one
step. Names, values and patterns are abstract, with lengths as constants; a name
or value longer than `FieldMaxLen` is one an entry cuts. Two names are not cut
to the same prefix.

`SuffixMirror` is the abstract specification: a mirror sees every addition and
may forget, but only oldest entries. `DynamicTable` implements it with the
refinement mapping `Abs` (what the mirror answers from: nothing once dirty).

### `Framing`

The outcome of `parse_msg` and `parse_skb` at the start of a frame, as functions
of the stream (a sequence of frames with type, stream, END_HEADERS, length and
whether their payload can be read), the size of the message, and how much of it
is within reach. The results are the codes of `docs/error-codes.md` with the
number of bytes consumed or needed (`frame.need`). Lengths and offsets are kept,
payload bytes are not. Beside them stand the definitions of what there is to
read in a stream (`Units`, `IsOpen`, `Unreadable`), which say nothing of how the
parser works.

### `MsgVerdict`

One direction of an upgraded connection at `sk_msg`. The peer writes the stream
in pieces of any length; `Write`, `Return` and `Push` are the kernel's
`tcp_bpf_sendmsg` with its `cork_bytes` and `apply_bytes` (external: what the
programs rely on, as their comments state it); `Wait`, `Reject`, `GiveUp` and
`Accept` are the exits of `msg_verdict`. `ResetsCork` selects between the
verdict of `prog.bpf.c` and that of the example, `Fragments` lets the linear part
of a message be any part of it.

After a verdict gave up, the kernel passes on bytes up to a place that need not
be the start of a frame. From there on a frame header is whatever the bytes say:
`Results` is then any code and length up to `GarbageMax`.

### `SkbVerdict`

What a client sends at `sk_skb`: the preface, and the frames behind it. `Arrive`
cuts it into sk_buffs anywhere. Until the connection is upgraded, `skb_parser` cuts
off a preface that lies within the first sk_buff and else takes what is there, and
the verdict looks for the preface (`HTTP1Verdict`); a preface that is cut upgrades
nothing, ever. From there on `h2_msg_len` tells the length of the message at the
front from the frame headers that arrived as far as `PeekLen` bytes; `Verdict`
runs `parse_skb` at the message's offset in its sk_buff, once the message has
arrived, and consumes it whatever the parser returned.

The kernel's stream parser (`__strp_recv` of `net/strparser/strparser.c`) is external. It asks for the length of the
message at the front with each sk_buff until it is told one (`Told`). A length has to
reach into that sk_buff and to fit the receive buffer (`Fits`); with any other it
stops for good and reports -EPROTO or -EMSGSIZE on the socket (`Abort`).

### `Dfa`

The builder of `dfa.rs`: a DFA and a builder are values, and each method of the
code is an operator from one to the next. `push_edge_from`, `insert_edge` and
`add_action` keep what makes the builder subtle: an edge that is there is
followed and not replaced, so patterns share states; a transition that is asked
for twice with different targets or actions panics (`panicked`); optional inputs
loop, or branch off to states the next input has to follow too; an action goes to
the edges that led into the current state, of which there may be none. Inputs are
abstract, a sequence of them stands for a string, and `OtherCase` says which are
letters. An optional input is one byte, as in every pattern of the code. The
chain of calls that builds a pattern is a sequence, which `Pattern` folds.

### `Http1`

The HTTP/1 parser from configuration to result. `CaptureHdr` compiles a field
into the DFA (`capture_new_hdr`, `capture_method`, `capture_path`,
`capture_status_code`, `match_http2_preface`) in an order the user chooses,
`Attach` adds the empty line, and `AttachFails` refuses a DFA that does not fit.
`ParseByte` and `SkipNull` are one iteration of `_parse_from`'s loop; `Pull` is
`parse_msg` going on after pulling in the whole message, at any byte the linear
part may end with; `RunOut` is the end of the bytes. `Next` draws the message
byte by byte, so every message of the given tokens is parsed.

`HttpMessage` says what a message holds: its lines, fields, start line and empty
lines, of the whole message at once. It models no code: it is the reference the
captured ranges are compared with after every byte.

### `Hpack` and `HpackDecoder`

`Hpack` is what user space loads: the rows of `hpack.rs` as functions from a state
and a byte to an edge (`insert_field_row`, `insert_length_rows`,
`insert_continuation_rows`), the tries `capture_hdr` adds for both spellings of a
name, built with the operators of `Dfa`, and the static table. States have the
numbers of `action.rs`; `inject` gives the zeroed edges a fallback as `_next` does.

`HpackDecoder` reads a header block with it. `_parse_hdr_byte` takes one byte per
step: within a string (`ReadString`), within an integer (`StartInt`,
`ContinueInt`), or with an action, one operator each (`RunIndexed` to `RunErr`).
`ps` is `http2_parse_state`, `ms` the matches with the place they were found at,
`dt` the names of the mirror's entries. The peer is an encoder in the terms of
RFC 7541, with the names of its appendix A: it may use any of the representations,
pad integers, spell names either way, and remembers in `want` what the block is to
be captured as. Entries count one unit here; their sizes and the failures to add
one are `DynamicTable`'s.

### `H2specCases` and `Conformance`

`H2specCases` are the cases of `cases.rs`, those that send the same made one.
`Conformance` is the runner's judgement of a case: `check_requests`,
`check_violation`, `check_responses`, `matches`. A frame is what the parser reports
of it, a value its length and the bytes that are reported. The program under test
reports what it should, in any spelling and out of the table or the message, but
for at most one fault: a wrong result, a wrong or missing value, a block lost or
reported twice, a failure of another frame (`Wrong`, `LoseRequest`,
`RepeatRequest`, `MisreadResponse`, `FailOther`). A wrong result is one of success, -EPROTO
and -EBADMSG, a wrong value one that no case sends; a malformed block that fails
with another error is not a fault here, as the runner takes any but -EPROTO
(`conformance/main.rs:466`). `PeerCloses` is the peer that closes
on the first violation.

### `Connections`

Several connections to the server under test, the parser of the current case and
the runner. The ends of a connection open, upgrade, send blocks and close
(`Connect`, `Accept`, `Preface`, `SendBlock`, `CloseEnd`), each reporting into one
queue. `attach` takes a step per program and fills the static table last. The
runner goes through `case` (attach, wait for a mark), `check` (mark, wait until
closed, drain, judge) and the forgetting of each closed end: `ForgetLookup` reads
the table's state once, `ForgetEntry` removes an entry per step, `ForgetInfo` the
state, with the parser running in between. A dynamic table is its counters and the
keys of its entries, so that what is left behind shows; `parsed` and `late` are
history.

### MC modules and proofs

`MCDynamicTable`, `MCMsgVerdict`, `MCSkbVerdict`, `MCHttp1` and `MCHpackDecoder` give the constants that a
`.cfg` cannot express. The theorems and their proofs are in `DynamicTable_proofs`,
`DynamicTableAgreement_proofs`, `Framing_proofs`, `MsgVerdict_proofs`,
`SkbVerdict_proofs`, `HpackDecoder_proofs`, `Connections_proofs` and
`Conformance_proofs`, each of which extends the module it is about. Definitions
commented as mutants are wrong versions of the definition they precede; no
action uses them, and each breaks a property that a run checks.

## Runs

| Run | Module | Shows | Bounds |
| --- | --- | --- | --- |
| `DynamicTable` | `MCDynamicTable` | the mirror's accounts, agreement of indices, no wrong header, no slot reused, refinement of `SuffixMirror`, for a peer whose SETTINGS only raise the limit | 2 names, 2 values, one of each longer than an entry keeps; 3 additions; table of 9, entries of 3 to 7 bytes, resized to 4 and back |
| `DynamicTableDrift` | `MCDynamicTable` | with a full map, lowered SETTINGS and slots beyond a match the mirror drifts, and what it stores is still the window its counters describe | as above, slots up to 3 |
| `DynamicTableSettings` | `MCDynamicTable` | violation: SETTINGS shrink the mirror of the wrong direction | 4 additions |
| `MsgVerdict` | `MCMsgVerdict` | each unit read once, in order, before it passes; no stall | all streams of up to 3 of 8 frames, all cuts |
| `MsgVerdictLimits` | `MCMsgVerdict` | the same units with unreadable and too long frames and misaligned parses; gives up only on the unreadable | all streams of up to 3 of 8 frames, walk of 6 bytes, blocks of 3 |
| `MsgVerdictMonitor` | `MCMsgVerdict` | violation: the example stalls | |
| `SkbVerdict` | `MCSkbVerdict` | a whole preface upgrades, and from there on each unit is read once and in order but for those refused; refused is only what is broken, too big, or ends beyond the limit of its sk_buff; the kernel gives up only at a block broken apart or a message beyond the receive buffer; no stall else | preface of 2 bytes and all streams of up to 3 of 7 frames, or 2 with one longer than the limits, in up to 3 sk_buffs; walk and receive buffer of 8 bytes, blocks of 2 |
| `Http1` | `MCHttp1` | no order of captures panics; fields, start line and preface are captured as the message holds them, at every byte; stops at the empty line | 7 scenarios: messages of up to 5 tokens of up to 3 bytes; 4 matches, 40 states |
| `Http1Offset` | `MCHttp1` | violation: the method of a message at an offset | offset 2 |
| `HpackDecoder` | `MCHpackDecoder` | names are captured whatever their spelling, encoding and padding, representations are read in step, the mirror's names are the peer's, index 0 alone is refused | 2 representations; 200 old entries; accumulator of 16 bits |
| `Conformance` | `Conformance` | a right parser passes every case, one with a single fault passes none, but where a violation hides that a block is missing or there twice | all cases, one fault, 2 responses, 3 requests for 201 |
| `Connections` | `Connections` | a check judges every frame of its case, read by all of its parser; no table and no upgrade is left; checks end | 2 ports, 2 connections, 2 cases, a block each, tables of 2 that 3 entries overflow |

The bounds are chosen so that the cases of the code happen. In the table, three
additions into a table of 9 evict one entry, several at once, all, and refuse a
field that is too large, with either string cut and with Huffman cuts; the size
update evicts to 4. A frame header of 2 bytes instead of 9, and 1 byte that
`h2_msg_len` looks at instead of 5, leave every cut of a header and of a payload
possible; three frames make a block of three, a block that is broken at each of
its places, and a frame behind it. The limits of the parser are scaled to lie
between two of the lengths that occur.

The passing runs of `MsgVerdict` have the linear part of a message be all of it
(`Fragments` is FALSE): with `Fragments` TRUE `ReadBeforePassed` fails, as told under
Findings. `EndWidth`, the 16 bits `_http2_block` keeps the end of a block in, lies above every
frame of all runs. No property is stated of frames that exceed it, as the code has none to keep.

The longest sk_buffs of `SkbVerdict` exceed `MaxBytes`, which lies among the
lengths of the frames. So a frame is refused as too big for its length or for where
it lies in its sk_buff. `RefusesOnlyBroken` allows both and fails without
`OutOfReach`. A message is longer than `RcvBuf` for a long frame alone, and a block
is broken by a frame of its own sk_buff and by one of a later.

With `MapMayBeFull` TRUE, `IndicesAgree` fails as it does with
lowered SETTINGS: the failed insertion is ignored and the table not marked. A full
map is therefore part of `DynamicTableDrift` alone, which checks what the counters say of the
store and not what indices mean.

The scenarios of `Http1` each ask for a few fields and draw messages from tokens
chosen for them: names that share a first letter or extend each other, in both
cases, with white space, bare CRs and empty values; requests beside the preface;
responses; messages at an offset or behind a prefix of NULs; and six fields where
four fit, in every order, of which some exceed the 40 states. Tokens only bound
how many messages there are: the parser knows nothing of them. `MAX_BYTES` of 12
lies within the longest messages. A request whose method only begins with a
known one, and a start line without its three parts, are not compared
(`StartsAsRequired`), as patterns then wait for the rest of theirs; nor is white
space behind a name that begins another, nor the method at an offset, which
`Http1Offset` has (see Findings for both).

In `HpackDecoder` an accumulator of 16 bits with a last shift of 14 stands for one
of 32 bits with a last shift of 28: either takes the groups that fit and one that
does not. The indices name entries of both tables, at either end of the prefixes
of 4, 6 and 7 bits, and past both tables; 200 old entries make an index of two
groups name one. An index of 65538 is wider than the accumulator. "te" is captured,
"t" and "tee" lie along its pattern, and the plain spelling of "coded" is the
Huffman code of "te"; other names have a byte of their own. A value of 130 bytes
has a length of two groups. Two representations in one block or in two let a field
use what the one before added, and overwrite what it captured.

In `Connections` one connection is enough to leave a table to the next one on its
port, and two for one to go on while a check waits for the other. Ports
being alike, the lowest free one is taken. A port is taken again once its tables are
forgotten, and the runner forgets an end once it has closed: that it forgets one beside traffic follows a
timeout, and `TablesForgotten` and `ReadByTheCase` except that. Neither a port that
comes back before its tables are gone nor forgetting under traffic is checked any further. A table of two that a block of three
overflows has evicted entries as well as live ones. After a check that timed out
no connection is opened any more; what it leaves is under Findings.

### Fairness

`MsgVerdict` assumes weak fairness of `Verdict` and `Push`: both run within the
kernel's `sendmsg`, which loops until the message is passed on or held.
`SkbVerdict` assumes it of `Verdict \/ Abort`: as data arrives, the kernel's stream
parser either cuts off the message at the front or gives the connection up. Neither assumes anything of the peer: it may stop after any byte,
and `NoStall` must hold all the same. Deadlock is not checked in these runs and
those of `Http1`, as a stream or a message ends. `DynamicTable` has no liveness: everything it does is in answer to
a byte of the stream; nor have `Http1` and `HpackDecoder`, which read what is there,
and `Conformance`, which judges it.

`Connections` assumes weak fairness of the runner's own steps, which nothing holds
up but what they wait for, and that the server closes an end whose client is gone,
which its TCP stack tells it. Commands, connections, blocks and closing clients
are up to h2spec and its script and need not come: `CommandsEnd` says that a
command, once given, ends. `Timeout` is not assumed to happen. Deadlock is not
checked as the cases run out.

## Findings

Where the code and what it says of itself disagree, a violation run shows it:

1. `_parse_stg_from` applies a peer's SETTINGS_HEADER_TABLE_SIZE to the mirror of
   that peer's own encoder, without evicting; the table then drifts and `dirty`
   stays 0 (`DynamicTableSettings`).
2. The example never clears the cork (`MsgVerdictMonitor`).
3. The pattern of the method attaches the start of its capture to no edge, so
   the method of a message at an offset is captured from the sk_buff's first
   byte (`Http1Offset`); the preface has the same pattern.

Disagreements met while modelling that have no run of their own; where a constant
or a definition is named, the run fails with it changed:

- a slot above 0xffff becomes 0, which drops additions and reports wrong values,
  against the comment at `parser.bpf.c:705` (`NeverWrongHeader` of `DynamicTable`
  fails with `MaxIdx` 3);
- `parse_msg` returns 0 for a short linear part, which the answer documented at
  `error-codes.md:20`, waiting for more, does not repair (`ReadBeforePassed` of
  `MsgVerdict` fails with `Fragments` TRUE);
- white space behind a captured name loops on a state that a longer captured name
  shares, so that a name with white space in it is taken for another
  (`http1/parser.rs:138`);
- an HPACK integer wider than the accumulator wraps: 2^32 + 2 names entry 2, and
  2^32 is index 0 without being refused, against the comment at
  `parser.bpf.c:838`, by which such a field is one that cannot be resolved
  (`CapturesAgree` of `HpackDecoder` fails if it does not except wide indices);
- a server that closes before the client's preface leaves its key to be upgraded
  by it after the close, against the comment at `prog.bpf.c:558`
  (`UpgradesForgotten` of `Connections` fails with `EarlyClose` TRUE);
- after a check that timed out the connections that are left still report, their
  frames are judged with the next case, and a table they build before the mark of
  that case is never forgotten, as `closed` is cleared (`conformance/main.rs:671`;
  `ReadByTheCase` and `TablesForgotten` except it by `late`);
- a name read back from a cut entry is sized by the 128 bytes kept of it,
  against the comment at `parser.bpf.c:519`;
- `_http2_block` cuts the end of a block to 16 bits (`parser.bpf.c:247`), so that a frame of 65536
  bytes and more can pass the check against `MAX_BYTES` and is read in part;
- `error-codes.md:13` has -E2BIG for what "exceeds the parser's fixed limit", while
  `parse_skb` counts its limits from the start of the sk_buff (`parser.bpf.c:1088`,
  `1095` and `1184`): a small frame or block far into its sk_buff is refused
  (`RefusesOnlyBroken` of `SkbVerdict` fails without `OutOfReach`);
- "A frame that breaks into the block ends the message before it, which leaves the
  parser to reject the block" (`prog.bpf.c:398`) does not hold where that
  frame's header comes in a later sk_buff: the length then ends before the sk_buff
  it is told with, and the kernel's stream parser gives the connection up
  (`NoStall` of `SkbVerdict` fails without its `aborted`);
- `h2_msg_len` ends a message on five bytes of the header of the frame that
  breaks into its block, and the parser waits for nine: a broken block is then
  answered with -EAGAIN for a message that is not handed over again;
- a status line without a space behind its code lets `push_any` read its line
  feed, so that a header block of bare line feeds does not end at its empty line.

## Proofs

The theorems hold for every value of the constants that the `ASSUME` of the
module allows and the hypotheses named here, all of which the constants of a
passing run satisfy.

| Theorem | Module (`_proofs`) | Hypotheses | Inductive invariant |
| --- | --- | --- | --- |
| `Accounts`, `TypeCorrect`, `StoreCorrect`, `SizeCorrect`, `SlotsCorrect` | `DynamicTable` | none | `AccountInv` |
| `IndicesCorrect`, `IndicesComplete` | `DynamicTableAgreement` | `KeepsUp` | `AgreeInv` |
| `NeverWrong` | `DynamicTableAgreement` | `KeepsUp` | `CaptureInv` |
| `Refinement` | `DynamicTableAgreement` | `KeepsUp` | `AgreeInv` |
| `TypeCorrect` | `MsgVerdict` | none | `TypeOK` |
| `EveryUnitRead`, `NonePassedUnread`, `GivesUpRightly` | `MsgVerdict` | `ResetsCork = TRUE`, `Fragments = FALSE` | `InStep` |
| `TypeCorrect` | `SkbVerdict` | none | `Types` |
| `EveryUnitRead` | `SkbVerdict` | `SoundStreams` | `CutBetween`, `RejectedBefore`, `ReadUpTo` |
| `NoneRefusedWrongly` | `SkbVerdict` | `SoundStreams` | `CutBetween`, `RejectedBefore` |
| `AbortsRightly` | `SkbVerdict` | none | `GaveUp` |
| `TypeCorrect` | `Connections` | none | `TypeInv` |
| `Upgrades` | `Connections` | `EarlyClose = FALSE` | `UpgradeInv` |
| `NoReportMissed` | `Connections` | none | `MissInv` |
| `FramesOfTheCase`, `TablesGone` | `Connections` | none | `TablesInv` |
| `ReaderInStep`, `MirrorAgrees`, `OnlyZeroRefused`, `LastValueCaptured` | `HpackDecoder` | `WideEnough`, `LengthsFit`, `StaticTableAgrees` | `Inv` |
| `ReaderTyped` | `HpackDecoder` | those, `MAX_BYTES >= 127`, `Fits(Parser.dfa)` | `Inv`, `Bounded` |
| `RightParserPasses` | `Conformance` | none | `SoundInv` |
| `WrongParserFails` | `Conformance` | none | `FaultInv` |
| `CasesFit` | `Conformance` | `MAX_MATCHES >= 21` | `RunOfCase` |

### The mirror

`DynamicTable_proofs` proves its accounts for every alphabet, table size, static
table, bound on additions, behaviour of the peer, SETTINGS and full map: the type
invariant, the window of slots, the size of the table, and that a slot is never
reused.

None of the invariants is inductive alone. An eviction subtracts the size
of the entry in the oldest slot, which is the size the history has for it only
if the store is the window (`StoreIsWindow`); that the result is not negative
needs the size to be that of the window (`SizeIsWindow`) and the running sums of
the history to grow (`StoredGrows`); an insertion needs the pending field to be
a field (`PendingShape`), and the peer's window needs `PeerCounts`. `AccountInv`
is their conjunction. The proof has a lemma per action (`AccountIndexed` to
`AccountBetween`), a lemma on frames for the actions that leave the store alone,
and lemmas on what the operators return.

`DynamicTableAgreement_proofs` proves that an index means the same field to the
mirror as to the peer, that every index of the peer is known to the mirror unless
it is dirty, that no capture reports another field than was sent, and that the
mirror implements `SuffixMirror`. `KeepsUp` says when: the map has room, slots fit
the 16 bits of a match, and no SETTINGS announce less than the peer's encoder uses.
Where one of these does not hold the mirror drifts, as the findings tell, so they
are what the code needs and not what the proof does. The argument is a race the
mirror wins (`AgreeInv`): the newest entries it kept are the peer's newest
additions (`Aligned`), any number of them takes no more room in the mirror than
at the peer, as a cut string counts no more than the whole one (`NoMoreRoom`), and
its limit is no lower (`Limits`); so the eviction loop stops before it takes an
entry the peer still has (`PeerHeld`). `CaptureInv` adds that each match has
pointed at the right field since it was made.

### The verdicts

`Framing_proofs` has the lemmas on streams that both verdicts need: the offsets of
frames grow and add up (`OffsetFacts`, `OffsetsGrow`; a recursive function is
reasoned about by the least index at which a claim would fail, as the library's
induction theorems cannot be applied), where a walk over frames stops
(`FirstStop`, `CollectFacts`), what the result of a parse says of the frame or block
it began with (`Says`, `ParseFacts`), and which units lie across or before a
boundary (`UnitPassed`).

`MsgVerdict_proofs` proves of the verdict that clears the cork, on messages in one
piece where a frame header is read, that it reads each unit it is past once and in
order, that no byte passes unread, and that it gives up only on what is unreadable
or too long. `InStep`: until it gives up, what has passed and what the last verdict
applies to end together at a frame no unit lies across, and the units before that
place are those that were read. The example's verdict, which never clears the cork,
and linear parts that cut a frame header break these properties (findings 2 and the
list below it), hence the two hypotheses. Type correctness needs neither: even
on garbage the kernel never passes on more than it holds.

`SkbVerdict_proofs` proves the same reading of every unit that is not refused as too
big, and that only what is broken or out of the parser's limits is refused, for the messages the stream parser cuts off (`CutBetween`:
after a preface that arrived whole the next message begins at a frame no unit lies
across; after any other nothing is read). `SoundStreams`: the payloads can be read and no block has more than
`MAX_CONTINUATIONS` CONTINUATION frames, at which `h2_msg_len` cuts. What was refused
lies before the front of the stream (`RejectedBefore`), so that where its sk_buff
begins does not change as more arrive. `AbortsRightly` says that the kernel gives up on
no stream of a peer that keeps the rules but for a message longer than the receive
buffer. A length that was told once stays as more arrives, and it
ends before the sk_buff it is told with only when what was waited for is the header
of a frame that breaks into the block. `GaveUp` is that, and that nothing is cut off
any more.

### The reader of header blocks

`HpackDecoder_proofs` proves that a block is read in step with the peer, that the
mirror's names are the peer's after each representation, that only an index 0 is
refused, and that each name asked for is captured as its last value, for every set of names to capture, every spelling of them, every way to pad
an integer and every width of the accumulator. It goes in six parts.

1. The automaton keeps its rows. `capture_hdr` adds a path to the trie of the names,
   byte by byte, and a callback may ask for any names in any order. A path begins in
   a state a name is read in and only makes new states (`FreeStates`), so the rows
   the representations are read by stay what `hpack.rs` gives them (`RowsKept`,
   `CaptureKept`). The calls are a fold; that a fold keeps what each of its
   steps keeps is proved by the least number of elements after which it would not.
2. The rows are those of RFC 7541: `RowEdge` says for every state and byte which edge
   is there (`FieldEdge`, `LengthEdge`, `EdgeOfCont`).
3. Integers. The groups a peer splits an integer into, padded by any number of zero
   ones, add up to it in an accumulator that takes `MaxShift + 7` bits (`IntLeft`: what is
   accumulated and what the remaining groups stand for, at the place they have, is the integer).
   `Form` is an integer of a representation: its prefix, the state it carries on in
   and what is run at its end; `Reads` says that the rows read it.
4. The names. Each state of the trie is labelled with its root and the bytes that lead
   to it (`Label`), no two states alike, and the edge into it carries a capture just if its label is
   a spelling of a name asked for (`IsTrie`, `Names`). It stays so when a path is added, be it
   along states that are there or new ones (`TrieOf`), so the walk of a
   spelling (`WalkStep`, `KeyMatched`) ends at a capture just if the name was
   asked for. This is what `_match_header_key` finds for a name out of a table; for one that
   is sent, the reader walks the same edges with the bytes as they arrive (`Walking`).
5. The reader. `Rest` says what the bytes not read yet are: nothing, an integer, a value, a
   name and a value, each from where the reader stands in it. In each case
   the mirror agrees with the table the peer had before the representation
   (`Synced`), and the peer's table differs from that by the addition or
   the size update that is under way (`OwesName`, `OwesSize`); the name that is owed is the one the reader's
   key leads to (`KeyIs`). The invariant `Inv` is that the block is of such a form, or ends with an
   index 0, or was refused for one. One lemma per form shows that the next byte
   leads to a form again, and one per representation that the peer's sending begins one.
   What the captures still miss of what the peer wants of them is a part of the same
   forms: nothing once a representation is read (`Settled`), the match that is due at the end of its
   value (`OwesMatch`), or what an index stands for (`OwesIndexed`). An index too wide to be held
   leads to some other name or none, so a block that has one is excepted, as in `CapturesAgree`.
6. The types. Each edge leads to a state there is, captures into a match there is, and
   begins an integer with what a prefix holds (`NextFits`, from the rows and the trie); an index
   that is valid, an index too wide for the accumulator as well, names an entry (`ValidNamed`).
   So `Bounded` is kept: the state, the accumulator, the length left and the capture that is
   due stay in their ranges. A name is added to an automaton along edges that are there, or by new
   ones, and its capture goes to an edge that has none (`Calm`): building it never
   panics, and stops at `MAX_MATCHES`.

The hypotheses are facts of the code and of RFC 7541 that TLC evaluates for the
constants of the run. `WideEnough`: the last group the accumulator takes fills it, as 28 is
the last shift into 32 bits, and it holds a length up to `MAX_BYTES`. `LengthsFit`: the strings are no
longer than `MAX_BYTES`, the mask a length is cut by and a limit on the block they are in, and
the indices of names and the table sizes fit the accumulator; an
indexed field may have an index of any width. `StaticTableAgrees`: the static table is spelled as
the RFC lists it. `ReaderTyped` also asks that the mask keeps every length a prefix holds
(`MAX_BYTES >= 127`) and that the automaton fits the program (`Fits`): `inject` refuses to
load one that does not, so no reader runs with it.

### Connections

`Connections_proofs` proves type correctness and, without an early close of the
server, that no upgrade outlives its connection: an end that is upgraded lives, and
the client's close finds its end upgraded whenever the server's is (`UpgradeInv`).
The second part of the module proves that a check which ended of its own has judged
every frame its case's connections parsed: the frames read and not handed over are
exactly those on their way, in order (`OnTheirWay`); an end the runner does not know to be open has
its opening before the mark (`OpensBefore`, `OpenTracked`); so once the mark is seen and
all known ends are closed, nothing is behind. The third part proves that the
frames judged are of the case, read by the whole parser with the connection's own
table, and that no table is left: one that is there has an end that is open, reported as
closed, or being forgotten (`StillDue`), and its entries lie within what its state
tells (`Within`), so that `forget_conn`, which only reads the state once, removes
all of them. Both hold until a check runs into its timeout (`late`).

### The conformance runner

`Conformance_proofs` proves that the runner passes every parser that is right, whatever the
values of the bounds: no case of h2spec fails because of how a value was spelled, cut or
stored, of which requests the server answered and when, or of where the peer closed.
`SoundInv`: until the verdict, each request that was reported is a report of the block
of its number, of which there are as many as were sent, every other frame is
an answer the server may give, and the peer has only closed behind a violation. From
that `CheckPasses` derives every part of the runner's check. It rests on the cases being
well formed (`CasesWellFormed`: all their fields have a value, a violation has
no malformed block and nothing else a rejected one), on a value being taken for itself in
either spelling and from the table (`ReportedMatches`, which needs h2spec's dummy
to be longer than what is reported of a value in both), and on the server giving the
answers the runner expects (`AnswerFacts`).

The second part proves that a parser with a single fault fails. `FaultInv`: until the
verdict, once something is got wrong, either the requests reported are one less or one
more than those sent, each a report of the block `Source` gives for its number
(`CountsOff`), or the wrong report is among the frames where it was made
(`RequestWrong`, `ResponseWrong`, `OtherFailed`). A wrong report never agrees with its
block (`WrongRequest`), as no case sends the text it carries and every field of a case
has a value (`NeverMatch`). A wrong response agrees with none of the answers, although
any of them will do, because no two requests of a case are answered differently
(`OneAnswer`): a case added to `cases.rs` that asks for two answers could
let a parser pass that takes one for the other. A block that is missing or there twice
is off in the count where nothing is violated; in a violation, whose blocks are all
refused but for one set of fields (`ViolationsAgree`), each report that agrees with the
block of its number is of one just like it, so that what was reported is the first of
the blocks, up to the violation at least: what a right parser reports to a peer that
closes there, the only excuse of `Complete`.

`CasesFit` is the type invariant: the names all cases use together, with those of the
answers, are 21 (`KnownNames`, `FewNames`), so that with room for as many matches, and
the code has room for 32, no case fails to be attached (`MatchLimitExceeded`) for the
names it asks for; and the blocks of a case are of the kinds its rules allow (`CaseKinds`).

### Only model-checked

Liveness under fairness is out of the prover's reach: `NoStall` of both verdicts and
`CommandsEnd`. `Http1` has no theorems: what a DFA built by folds over
the calls of a pattern does with a message is induction over that data.

## Not modelled

Failures of the BPF helpers (`-EFAULT`) and of per-CPU look-ups (`-ENOSPC` for
scratch); at HTTP/2 the null prefix TLS leaves in an sk_buff; log output; the
bytes of the values in a table and in the per-CPU block buffer; in the HTTP/1
parser the limit on actions, the getters and the linking of BPF objects. In the
programs of `utils`, what the HTTP/1 branches store of an HTTP/1 message. The capacity
of the ring buffer. The lengths of Huffman coded strings, which `DynamicTable` takes as given: they are counted
bit by bit from two tables of constants. RESP2 is not part of the build; the example's user space
prints what it reads; build, CI and the test servers have no state of the system. `PROJECT.json`
gives the reason for each component that is left out.

## Plan

1. `DynamicTable`; `Framing`, `MsgVerdict`, `SkbVerdict`; `Dfa` and `Http1`; `Hpack`
   and `HpackDecoder`; `Conformance`; `Connections`: done.
2. Theorems on the mirror and its agreement with the peer, on both verdicts, on
   the reader of header blocks, on connections, and on the runner passing what is
   right and nothing else: done.
3. Huffman lengths, with the two tables scaled, if they can share a run.
