------------------------------- MODULE UmdfFeed -------------------------------
(***************************************************************************)
(* The C++ feed process: SessionManager (one receive thread per multicast  *)
(* channel), the UMDFParser, the BookManager and the ZmqPublisher the      *)
(* threads share without a lock, and main(), which starts and stops them.  *)
(*                                                                         *)
(* The exchange multicasts packets 1, 2, ...; a socket may miss one, and   *)
(* may see one again or late, since multicast promises neither order nor   *)
(* single delivery and every socket, bound to INADDR_ANY on the same port, *)
(* may hear the groups of the others.  A packet carries its number modulo  *)
(* SeqMod (uint32 on the wire) and a sequence of entries; no entry at all  *)
(* is a heartbeat.  A thread takes a datagram through recv, the sequence   *)
(* check, and then one entry at a time through the book and the            *)
(* publisher.  Each access to shared data is a step of its own, so the     *)
(* threads interleave as two threads without a lock do.  What a racing     *)
(* read-modify-write leaves behind is either order of the two updates or   *)
(* the loss of one of them (StoreSide, StoreTrade); a race that corrupts   *)
(* the map and kills the process just ends the behaviour, which no safety  *)
(* property can tell from a prefix.                                        *)
(*                                                                         *)
(* Left out: where fields lie.  Contents are the entries the parser's      *)
(* cursor reaches.  A message whose size runs past the datagram ends the   *)
(* packet as its last entry does, one too short for its body is an entry   *)
(* of type "other", and the uint16 body size that a message length below   *)
(* the header's wraps around (umdf_parser.cpp:53) does not occur.          *)
(***************************************************************************)
EXTENDS OrderBook, Sequences

CONSTANTS NumChannels,   \* channels A, B, ... are 1 .. NumChannels
          Securities,    \* security ids; the symbol of a security is itself
          NoSymbol,      \* the empty symbol
          Contents,      \* the entry sequences the parser finds in a packet
          SeqMod,        \* sequence numbers are modulo SeqMod, 2^32 in the code
          MaxPackets,    \* bound: packets the exchange multicasts
          MaxCopies,     \* bound: times the network brings a packet again
          MaxStrays      \* bound: foreign datagrams that reach the port

Channels == 1 .. NumChannels

Entry == [via : {"W", "X"}, type : {"bid", "offer", "trade", "other"},
          sec : Securities, price : Prices, qty : Nat, action : 0 .. 2]

ASSUME UmdfFeedAssumption ==
  /\ NumChannels \in Nat \ {0}
  /\ NoSymbol \notin Securities
  /\ Symbols = Securities \cup {NoSymbol}
  /\ Contents \subseteq Seq(Entry)
  /\ SeqMod \in Nat /\ SeqMod > 1
  /\ MaxPackets \in Nat /\ MaxCopies \in Nat /\ MaxStrays \in Nat

VARIABLES
  running,    \* SessionManager::running_
  mpc,        \* where main() is: start, connect, run, close, join, stopped
  mi,         \* the channel main()'s loop is at
  sock,       \* per channel: "none" before start, "open", "closed" (fd is -1)
  net,        \* per channel: datagrams in the socket's receive buffer
  pc,         \* per channel: where its receive thread is
  pkt,        \* per channel: the datagram its thread is parsing
  at,         \* per channel: the entry of that datagram the parser is at
  held,       \* per channel: the book as the thread read it before changing it
  out,        \* per channel: frames the thread has still to send for the entry
  lastSeq,    \* UMDFParser::last_seq_
  keys,       \* securities that have a book
  books,      \* the books
  partial,    \* parts of the message the ZMQ socket has not completed
  published,  \* complete messages the ZMQ socket has put on the wire
  sent,       \* history: contents of the datagrams so far, in order of arrival
  number,     \* history: the numbers of the packets they hold
  copies,     \* history: how many of them brought a packet again
  strays,     \* history: foreign datagrams so far
  failed,     \* history: channels whose recv failed or returned nothing
  stored,     \* history: datagrams whose number has been put in last_seq_
  opening,    \* history: <<c, n>>, c checked datagram n before any was stored
  gaps,       \* history: the calls of the gap callback
  log         \* history: entries handled, as <<datagram, position>>

mainVars   == <<running, mpc, mi>>
feedVars   == <<sent, number, copies>>
netVars    == <<sock, net, feedVars, strays, failed>>
threadVars == <<pc, pkt, at, held, out>>
bookVars   == <<keys, books>>
wireVars   == <<partial, published>>
seqVars    == <<lastSeq, stored, opening, gaps>>
vars == <<mainVars, netVars, threadVars, bookVars, wireVars, seqVars, log>>

-------------------------------------------------------------------------------
\* Packets, entries and frames.

\* The number on the wire of the packet in datagram n.
Seqno(n) == number[n] % SeqMod

MaxDatagrams == MaxPackets + MaxCopies

Datagram == [kind : {"packet", "runt", "empty"}, n : 0 .. MaxDatagrams]

Packet(n) == [kind |-> "packet", n |-> n]

EntryOf(x) == sent[x[1]][x[2]]

\* The entry thread c is at.
Current(c) == sent[pkt[c]][at[c]]

\* Only a snapshot message carries the symbol; the events built from an
\* incremental message keep the symbol field they were zeroed with.
Symbol(e) == IF e.via = "W" THEN e.sec ELSE NoSymbol

Aggressor(e) == IF e.via = "W" THEN "U" ELSE IF e.action = 0 THEN "B" ELSE "S"

SideOf(e) == IF e.type = "bid" THEN "bids" ELSE "asks"

IsQuote(e) == e.type \in {"bid", "offer"}

\* A frame is what publish_snapshot or publish_trade hands to send_frame.
SnapshotFrame(e, book) ==
  [topic |-> "snapshot",
   payload |-> [type |-> "snapshot", sec |-> e.sec, body |-> SnapshotOf(book)]]

TradeFrame(e) ==
  [topic |-> "trade",
   payload |-> [type |-> "trade", sec |-> e.sec,
                body |-> [symbol |-> Symbol(e), price |-> e.price,
                          qty |-> e.qty, aggressor |-> Aggressor(e)]]]

-------------------------------------------------------------------------------
\* main() and SessionManager::start, stop.

Init ==
  /\ running = FALSE /\ mpc = "start" /\ mi = 1
  /\ sock = [c \in Channels |-> "none"]
  /\ net = [c \in Channels |-> <<>>]
  /\ pc = [c \in Channels |-> "none"]
  /\ pkt = [c \in Channels |-> 0]
  /\ at = [c \in Channels |-> 1]
  /\ held = [c \in Channels |-> NewBook(NoSymbol)]
  /\ out = [c \in Channels |-> <<>>]
  /\ lastSeq = 0
  /\ keys = {}
  /\ books = [s \in Securities |-> NewBook(NoSymbol)]
  /\ partial = <<>> /\ published = <<>>
  /\ sent = <<>> /\ number = <<>> /\ copies = 0 /\ strays = 0 /\ failed = {}
  /\ stored = {} /\ opening = {} /\ gaps = {}
  /\ log = <<>>

\* start(): open the socket of the next channel and spawn its thread, or go on
\* with the other channels when the socket cannot be opened.
StartChannel ==
  /\ mpc = "start" /\ mi \in Channels
  /\ running' = TRUE
  /\ \/ /\ sock' = [sock EXCEPT ![mi] = "open"]
        /\ pc' = [pc EXCEPT ![mi] = "loop"]
     \/ UNCHANGED <<sock, pc>>
  /\ mi' = mi + 1
  /\ UNCHANGED <<mpc, net, feedVars, strays, failed, pkt, at, held, out, bookVars,
                 wireVars, seqVars, log>>

\* start() is over; main() connects an order-entry client if it was given a host.
Started ==
  /\ mpc = "start" /\ mi \notin Channels
  /\ mpc' \in {"connect", "run"}
  /\ UNCHANGED <<running, mi, netVars, threadVars, bookVars, wireVars, seqVars,
                 log>>

\* StepClient::connect() returned, with or without a session: main() goes on either
\* way.  Until then it hears no signal, and nothing says that it returns.
StepConnect ==
  /\ mpc = "connect"
  /\ mpc' = "run"
  /\ UNCHANGED <<running, mi, netVars, threadVars, bookVars, wireVars, seqVars,
                 log>>

\* SIGINT or SIGTERM ends main's sleep loop and session.stop() clears running_.
Shutdown ==
  /\ mpc = "run"
  /\ running' = FALSE /\ mpc' = "close" /\ mi' = 1
  /\ UNCHANGED <<netVars, threadVars, bookVars, wireVars, seqVars, log>>

\* Mutant: the descriptor is left open, which leaves a blocked recv blocked.
LeaveSocket(c) == UNCHANGED <<sock, net>>

\* close_socket: shutdown wakes a blocked recv, the buffered datagrams are gone.
CloseSocket(c) ==
  IF sock[c] = "open"
  THEN /\ sock' = [sock EXCEPT ![c] = "closed"]
       /\ net' = [net EXCEPT ![c] = <<>>]
  ELSE UNCHANGED <<sock, net>>

StopClose ==
  /\ mpc = "close"
  /\ CloseSocket(mi)
  /\ mpc' = "join"
  /\ UNCHANGED <<running, mi, feedVars, strays, failed, threadVars, bookVars,
                 wireVars, seqVars, log>>

\* Mutant: stop() does not wait for the thread (detach instead of join).
NoWait(c) == TRUE

\* recv_thread.join() returns once the thread is over; there may be none.
Joined(c) == pc[c] \in {"none", "exited"}

StopJoin ==
  /\ mpc = "join"
  /\ Joined(mi)
  /\ IF mi < NumChannels THEN mi' = mi + 1 /\ mpc' = "close"
                         ELSE mi' = mi /\ mpc' = "stopped"
  /\ UNCHANGED <<running, netVars, threadVars, bookVars, wireVars, seqVars, log>>

-------------------------------------------------------------------------------
\* The network.  Any channel may miss any datagram.  One socket's buffer hands over
\* what it holds in the order it came, which is all the order the code can rely on.

Deliver(receivers, d) ==
  net' = [c \in Channels |-> IF c \in receivers /\ sock[c] = "open"
                             THEN Append(net[c], d) ELSE net[c]]

\* A datagram with packet k reaches the receivers.
Arrive(k, entries, receivers) ==
  /\ sent' = Append(sent, entries)
  /\ number' = Append(number, k)
  /\ Deliver(receivers, Packet(Len(sent) + 1))
  /\ UNCHANGED <<mainVars, sock, strays, failed, threadVars, bookVars, wireVars,
                 seqVars, log>>

\* The exchange multicasts its next packet.
Multicast(entries, receivers) ==
  /\ Len(sent) - copies < MaxPackets
  /\ Arrive(Len(sent) - copies + 1, entries, receivers)
  /\ UNCHANGED copies

\* A packet comes again, or, where nobody received it before, late: by the other
\* group, by another route, or repeated on the way.
Repeat(m, receivers) ==
  /\ copies < MaxCopies
  /\ Arrive(number[m], sent[m], receivers)
  /\ copies' = copies + 1

\* A datagram that is not a packet: shorter than the header, or empty.
Stray(kind, c) ==
  /\ strays < MaxStrays
  /\ strays' = strays + 1
  /\ Deliver({c}, [kind |-> kind, n |-> 0])
  /\ UNCHANGED <<mainVars, sock, feedVars, failed, threadVars, bookVars, wireVars,
                 seqVars, log>>

-------------------------------------------------------------------------------
\* A receive thread.

Goto(c, from, to) == pc[c] = from /\ pc' = [pc EXCEPT ![c] = to]

\* while (running_.load())
LoopTest(c) ==
  /\ Goto(c, "loop", IF running THEN "recv" ELSE "exited")
  /\ UNCHANGED <<mainVars, netVars, pkt, at, held, out, bookVars, wireVars,
                 seqVars, log>>

\* Mutant: the 0 that parse() returns for a short datagram ends the loop.
RuntEndsLoop(d) == IF d.kind = "packet" THEN "check" ELSE "exited"

\* A zero length datagram ends the loop like an error does; one shorter than the
\* packet header is dropped by parse().
AfterRecv(d) == IF d.kind = "empty" THEN "exited"
                ELSE IF d.kind = "runt" THEN "loop" ELSE "check"

\* recv() returned a datagram.
Recv(c) ==
  /\ sock[c] = "open" /\ net[c] # <<>>
  /\ LET d == Head(net[c]) IN
       /\ Goto(c, "recv", AfterRecv(d))
       /\ pkt' = [pkt EXCEPT ![c] = d.n]
       /\ failed' = IF d.kind = "empty" THEN failed \cup {c} ELSE failed
  /\ net' = [net EXCEPT ![c] = Tail(@)]
  /\ UNCHANGED <<mainVars, sock, feedVars, strays, at, held, out, bookVars,
                 wireVars, seqVars, log>>

\* recv() returns 0 or -1: the loop ends, whatever the error.
RecvFails(c) ==
  /\ Goto(c, "recv", "exited")
  /\ failed' = failed \cup {c}
  /\ UNCHANGED <<mainVars, sock, net, feedVars, strays, pkt, at, held, out, bookVars,
                 wireVars, seqVars, log>>

\* It does so once the descriptor was shut down or closed; on an open one it may.
RecvWakes(c) == sock[c] = "closed" /\ RecvFails(c)

\* Mutant: one number left out is let pass.
GapOfTwo(last, seq) == last # 0 /\ seq # (last + 1) % SeqMod /\ seq # (last + 2) % SeqMod

\* 0 means "no packet yet"; the successor is computed modulo 2^32.
IsGap(last, seq) == last # 0 /\ seq # (last + 1) % SeqMod

\* parse(): last_seq_ is read, compared, and the gap callback called.
CheckSeq(c) ==
  /\ Goto(c, "check", "store")
  /\ LET seq == Seqno(pkt[c]) IN
       gaps' = IF IsGap(lastSeq, seq)
               THEN gaps \cup {[expected |-> (lastSeq + 1) % SeqMod, got |-> seq]}
               ELSE gaps
  /\ opening' = IF stored = {} THEN opening \cup {<<c, pkt[c]>>} ELSE opening
  /\ UNCHANGED <<mainVars, netVars, pkt, at, held, out, bookVars, wireVars,
                 lastSeq, stored, log>>

\* last_seq_ = seq; a heartbeat ends here, otherwise the entries follow.
StoreSeq(c) ==
  /\ Goto(c, "store", IF sent[pkt[c]] = <<>> THEN "loop" ELSE "entry")
  /\ lastSeq' = Seqno(pkt[c])
  /\ stored' = stored \cup {pkt[c]}
  /\ at' = [at EXCEPT ![c] = 1]
  /\ UNCHANGED <<mainVars, netVars, pkt, held, out, bookVars, wireVars,
                 opening, gaps, log>>

\* Mutant: the last entry of a message is not reached.
LessEntries(c) == pc[c] = "entry" /\ at[c] < Len(sent[pkt[c]])

\* The parser's loop condition: an entry is left between the cursor and the end.
MoreEntries(c) == pc[c] = "entry" /\ at[c] <= Len(sent[pkt[c]])

Handled(c) == log' = Append(log, <<pkt[c], at[c]>>)

\* on_quote: get_or_create finds or inserts the book; its symbol is that of the
\* event that created it.  A price of 0 skips the level, not the snapshot.
BeginQuote(c) ==
  /\ MoreEntries(c)
  /\ IsQuote(Current(c))
  /\ LET e == Current(c)
         book == IF e.sec \in keys THEN books[e.sec] ELSE NewBook(Symbol(e))
     IN  /\ Goto(c, "entry", IF e.price > 0 THEN "apply" ELSE "snap")
         /\ keys' = keys \cup {e.sec}
         /\ books' = [books EXCEPT ![e.sec] = book]
         /\ held' = [held EXCEPT ![c] = book]
         /\ IF e.price > 0 THEN log' = log ELSE Handled(c)
  /\ UNCHANGED <<mainVars, netVars, pkt, at, out, wireVars, seqVars>>

\* on_trade publishes the trade whether or not there is a book.
FramesWithoutBook(e) == <<TradeFrame(e)>>

\* on_trade: find the book; without one the trade is only published.
BeginTrade(c) ==
  /\ MoreEntries(c)
  /\ Current(c).type = "trade"
  /\ LET e == Current(c) IN
       IF e.sec \in keys
       THEN /\ Goto(c, "entry", "apply")
            /\ held' = [held EXCEPT ![c] = books[e.sec]]
            /\ UNCHANGED <<out, log>>
       ELSE /\ Goto(c, "entry", "topic")
            /\ out' = [out EXCEPT ![c] = FramesWithoutBook(e)]
            /\ Handled(c)
            /\ UNCHANGED held
  /\ UNCHANGED <<mainVars, netVars, pkt, at, bookVars, wireVars, seqVars>>

\* An entry of another type is skipped.
SkipEntry(c) ==
  /\ MoreEntries(c)
  /\ Current(c).type = "other"
  /\ Goto(c, "entry", "entry")
  /\ at' = [at EXCEPT ![c] = @ + 1]
  /\ Handled(c)
  /\ UNCHANGED <<mainVars, netVars, pkt, held, out, bookVars, wireVars, seqVars>>

\* parse() returns when the last entry of the packet is done.
EndPacket(c) ==
  /\ Goto(c, "entry", "loop")
  /\ ~MoreEntries(c)
  /\ UNCHANGED <<mainVars, netVars, pkt, at, held, out, bookVars, wireVars,
                 seqVars, log>>

\* main.cpp passes 0 to apply_bid and apply_ask; the event has no action field.
QuoteAction(e) == 0

\* apply_bid or apply_ask writes the side back: on top of the side as it is now,
\* or, when another thread changed it meanwhile, on top of what was read.
StoreSide(c) ==
  /\ Goto(c, "apply", "snap")
  /\ IsQuote(Current(c))
  /\ LET e == Current(c)
         s == SideOf(e)
     IN  \E side \in {books[e.sec][s], held[c][s]} :
           books' = [books EXCEPT ![e.sec][s] =
                       SetLevel(side, e.price, e.qty, QuoteAction(e))]
  /\ Handled(c)
  /\ UNCHANGED <<mainVars, netVars, pkt, at, held, out, keys, wireVars, seqVars>>

\* apply_trade: last price and quantity are overwritten; the two sums are read and written
\* separately, so each may lose what another thread added meanwhile.
StoreTrade(c) ==
  /\ Goto(c, "apply", "snap")
  /\ Current(c).type = "trade"
  /\ LET e == Current(c) IN
       \E volume \in {books[e.sec].volume, held[c].volume},
          value \in {books[e.sec].value, held[c].value} :
         books' = [books EXCEPT ![e.sec] =
                     [@ EXCEPT !.lastPx = e.price, !.lastQty = e.qty,
                               !.volume = volume + e.qty,
                               !.value = value + e.price * e.qty]]
  /\ Handled(c)
  /\ UNCHANGED <<mainVars, netVars, pkt, at, held, out, keys, wireVars, seqVars>>

\* Mutant: a trade changes the book without a new snapshot going out.
TradeAlone(e, book) ==
  IF IsQuote(e) THEN <<SnapshotFrame(e, book)>> ELSE <<TradeFrame(e)>>

\* Mutant: the trade is published only in the branch without a book.
SnapshotAlone(e, book) == <<SnapshotFrame(e, book)>>

\* What on_quote and on_trade publish once the book has been changed.
FramesWithBook(e, book) ==
  IF IsQuote(e) THEN <<SnapshotFrame(e, book)>>
                ELSE <<SnapshotFrame(e, book), TradeFrame(e)>>

\* book.snapshot() reads the book as it is now.
TakeSnapshot(c) ==
  /\ Goto(c, "snap", "topic")
  /\ out' = [out EXCEPT ![c] =
               FramesWithBook(Current(c), books[Current(c).sec])]
  /\ UNCHANGED <<mainVars, netVars, pkt, at, held, bookVars, wireVars, seqVars,
                 log>>

\* send_frame, first zmq_send: the topic, with ZMQ_SNDMORE.
SendTopic(c) ==
  /\ Goto(c, "topic", "payload")
  /\ partial' = Append(partial, [part |-> "topic", is |-> Head(out[c]).topic])
  /\ UNCHANGED <<mainVars, netVars, pkt, at, held, out, bookVars, published,
                 seqVars, log>>

\* send_frame, second zmq_send: the payload completes the message, whatever
\* parts the socket was holding.  Then the next frame, or the next entry.
SendPayload(c) ==
  /\ Goto(c, "payload", IF Len(out[c]) > 1 THEN "topic" ELSE "entry")
  /\ published' = Append(published,
                    Append(partial, [part |-> "payload", is |-> Head(out[c]).payload]))
  /\ partial' = <<>>
  /\ out' = [out EXCEPT ![c] = Tail(@)]
  /\ at' = [at EXCEPT ![c] = IF Len(out[c]) > 1 THEN @ ELSE @ + 1]
  /\ UNCHANGED <<mainVars, netVars, pkt, held, bookVars, seqVars, log>>

Parse(c) ==
  \/ CheckSeq(c) \/ StoreSeq(c)
  \/ BeginQuote(c) \/ BeginTrade(c) \/ SkipEntry(c) \/ EndPacket(c)
  \/ StoreSide(c) \/ StoreTrade(c) \/ TakeSnapshot(c)
  \/ SendTopic(c) \/ SendPayload(c)

Thread(c) == LoopTest(c) \/ Recv(c) \/ RecvFails(c) \/ Parse(c)

Main ==
  StartChannel \/ Started \/ StepConnect \/ Shutdown \/ StopClose \/ StopJoin

Exchange ==
  \/ \E entries \in Contents, receivers \in SUBSET Channels :
       Multicast(entries, receivers)
  \/ \E m \in DOMAIN sent, receivers \in SUBSET Channels : Repeat(m, receivers)
  \/ \E kind \in {"runt", "empty"}, c \in Channels : Stray(kind, c)

Next == Main \/ Exchange \/ \E c \in Channels : Thread(c)

Spec == Init /\ [][Next]_vars

\* The operating system runs every receive thread that is not blocked, and main()
\* makes progress once it has been told to stop.  Nothing says a signal or a packet
\* ever comes, or that an open descriptor fails.
FairSpec ==
  /\ Spec
  /\ \A c \in Channels : WF_vars(LoopTest(c) \/ Recv(c) \/ RecvWakes(c) \/ Parse(c))
  /\ WF_vars(StopClose \/ StopJoin)

-------------------------------------------------------------------------------
(* Properties. *)

MainTypeOK ==
  /\ running \in BOOLEAN
  /\ mpc \in {"start", "connect", "run", "close", "join", "stopped"}
  /\ mi \in 1 .. NumChannels + 1

NetTypeOK ==
  /\ sock \in [Channels -> {"none", "open", "closed"}]
  /\ net \in [Channels -> Seq(Datagram)]
  /\ sent \in Seq(Contents) /\ number \in Seq(1 .. MaxPackets)
  /\ Len(number) = Len(sent)
  /\ copies \in 0 .. MaxCopies /\ Len(sent) - copies \in 0 .. MaxPackets
  /\ strays \in 0 .. MaxStrays /\ failed \subseteq Channels

ThreadTypeOK ==
  /\ pc \in [Channels -> {"none", "loop", "recv", "check", "store", "entry",
                          "apply", "snap", "topic", "payload", "exited"}]
  /\ pkt \in [Channels -> 0 .. MaxDatagrams]
  /\ at \in [Channels -> Nat \ {0}]

BookTypeOK ==
  /\ keys \subseteq Securities
  /\ books \in [Securities -> Book]
  /\ held \in [Channels -> Book]

SeqTypeOK ==
  /\ lastSeq \in 0 .. SeqMod - 1
  /\ stored \subseteq 1 .. MaxDatagrams
  /\ opening \subseteq Channels \X (1 .. MaxDatagrams)

\* Every variable holds a value of its type.
TypeOK == MainTypeOK /\ NetTypeOK /\ ThreadTypeOK /\ BookTypeOK /\ SeqTypeOK

\* A packet whose predecessor no channel has delivered is always reported by the
\* gap callback (umdf_parser.cpp 23-26), whatever the network repeats or reorders
\* and the threads do between the read of last_seq_ and its update.  The only
\* datagrams excused are those that a thread compared before any thread had stored a
\* number, one per channel.
GapsReported ==
  /\ \A n \in stored :
       \/ \E c \in Channels : <<c, n>> \in opening
       \/ \E m \in stored : number[m] = number[n] - 1
       \/ \E g \in gaps : g.got = Seqno(n)
  /\ \A x, y \in opening : x[1] = y[1] => x = y

\* After stop() has joined the threads, no thread is left in a callback and the
\* publisher holds no half of a message, however late the stop came
\* (session_manager.cpp 42-48, zmq_publisher.cpp 96-100).
StoppedClean ==
  mpc = "stopped" =>
    /\ \A c \in Channels : pc[c] \in {"none", "exited"}
    /\ partial = <<>>

\* At most one channel could be opened, or there is only one.
Lone == Cardinality({c \in Channels : sock[c] # "none"}) <= 1

Before(x, y) == x[1] < y[1] \/ (x[1] = y[1] /\ x[2] < y[2])

Busy(c) == pc[c] \in {"entry", "apply", "snap", "topic", "payload"}

\* With one receive thread every entry of every datagram received is handled
\* exactly once and in the order in which the socket received them, repeats
\* included: the log is strictly increasing and holds every entry but those the
\* thread has still to come to.  What the network reorders or repeats stays so.
HandledOnceInOrder ==
  Lone =>
    /\ \A j, k \in DOMAIN log : j < k => Before(log[j], log[k])
    /\ \A n \in stored : \A i \in DOMAIN sent[n] :
         \/ \E k \in DOMAIN log : log[k] = <<n, i>>
         \/ \E c \in Channels : pc[c] = "store" /\ pkt[c] = n
         \/ \E c \in Channels : Busy(c) /\ pkt[c] = n /\ at[c] <= i

QuotesAt(sec, s, p) ==
  {k \in DOMAIN log : LET e == EntryOf(log[k]) IN
     IsQuote(e) /\ e.sec = sec /\ SideOf(e) = s /\ e.price = p /\ p > 0}

Latest(S) == CHOOSE k \in S : \A j \in S : j <= k

\* The last quote handled for a level.
LatestQuote(sec, s, p) == EntryOf(log[Latest(QuotesAt(sec, s, p))])

\* With one receive thread a level of a book shows the quantity of the last quote
\* handled for that security, side and price, and is absent when that quantity is
\* zero or no quote was handled.  A delete that still names a quantity is excepted:
\* docs/feed.md:64-68 says that it removes the level, and main.cpp:57 applies it as an
\* insertion.
BookShowsLatestQuote ==
  Lone =>
    \A sec \in Securities, s \in Sides, p \in Prices :
      IF QuotesAt(sec, s, p) = {} THEN books[sec][s][p] = 0
      ELSE LET e == LatestQuote(sec, s, p)
           IN  (e.action = 2 /\ e.qty > 0) \/ books[sec][s][p] = e.qty

WholeFrame(m) ==
  /\ Len(m) = 2
  /\ m[1].part = "topic" /\ m[2].part = "payload"
  /\ m[2].is.type = m[1].is

TradesOut == {k \in DOMAIN published :
                published[k][Len(published[k])].is.type = "trade"}

TradesIn == {k \in DOMAIN log : EntryOf(log[k]).type = "trade"}

Rank(S, k) == Cardinality({j \in S : j <= k})

\* With one receive thread every message on the wire is a topic followed by a
\* payload of that topic, and the trades among them are the trades of the feed, in
\* order and each once: the n-th on the wire is the n-th handled, and between
\* packets none is missing.
TapeFollowsFeed ==
  Lone =>
    /\ \A k \in DOMAIN published : WholeFrame(published[k])
    /\ Cardinality(TradesOut) <= Cardinality(TradesIn)
    /\ \A k \in TradesOut, j \in TradesIn :
         Rank(TradesOut, k) = Rank(TradesIn, j) =>
           published[k][Len(published[k])].is = TradeFrame(EntryOf(log[j])).payload
    /\ (\A c \in Channels : ~Busy(c)) => Cardinality(TradesOut) = Cardinality(TradesIn)

SnapshotsOf(sec) ==
  {k \in DOMAIN published : LET m == published[k][Len(published[k])].is IN
     m.type = "snapshot" /\ m.sec = sec}

\* With one receive thread, between packets, the last snapshot on the wire is the
\* book as it is: no change of a book waits for the next event to be seen.
SnapshotIsBook ==
  Lone /\ (\A c \in Channels : ~Busy(c)) =>
    \A sec \in keys :
      /\ SnapshotsOf(sec) # {}
      /\ LET m == published[Latest(SnapshotsOf(sec))]
         IN  m[Len(m)].is.body = SnapshotOf(books[sec])

\* stop() terminates: a thread blocked in recv is woken and every thread reaches
\* its loop test.
StopTerminates == mpc = "close" ~> mpc = "stopped"

\* Datagram n is in the buffer of channel c, whose thread is not over.
InBuffer(c, n) ==
  pc[c] # "exited" /\ \E k \in DOMAIN net[c] : net[c][k] = Packet(n)

\* A packet that has reached the buffer of a channel is parsed whatever becomes of
\* the other channel, unless the process is told to stop or recv fails on this one.
PacketsParsed ==
  \A c \in Channels, n \in 1 .. MaxDatagrams :
    InBuffer(c, n) ~> (n \in stored \/ ~running \/ c \in failed)

(* What the documents promise and the code does not do. *)

\* docs/feed.md:169: packets repeated by channel B are simply ignored.
DuplicatesIgnored ==
  \A j, k \in DOMAIN log :
    j # k => number[log[j][1]] # number[log[k][1]] \/ log[j][2] # log[k][2]

===============================================================================
