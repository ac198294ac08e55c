---------------------------- MODULE UmdfFeedProofs ----------------------------
(***************************************************************************)
(* Theorems about UmdfFeed, for any number of channels, securities,        *)
(* packets, repeats and any contents; then, with one open channel at the   *)
(* most, the order of arrival, the books and the tape.                     *)
(***************************************************************************)
EXTENDS UmdfFeed, FiniteSetTheorems, SequenceTheorems, TLAPS

LEMMA ModType ==
  ASSUME NEW m \in Nat \ {0}, NEW a \in Nat PROVE a % m \in 0 .. m - 1
  BY SMT

LEMMA ModSmall ==
  ASSUME NEW m \in Nat, NEW a \in Nat, a < m PROVE a % m = a
  BY SMT

LEMMA Member ==
  ASSUME NEW S, NEW q \in Seq(S), NEW i \in DOMAIN q PROVE q[i] \in S
  OBVIOUS

-------------------------------------------------------------------------------
\* The operators of the book return books.

LEMMA NewBookType ==
  ASSUME NEW symbol \in Symbols PROVE NewBook(symbol) \in Book
  BY OrderBookAssumption DEF NewBook, Book, EmptySide, Side

LEMMA SetLevelType ==
  ASSUME NEW side \in Side, NEW price \in Prices, NEW qty \in Nat, NEW action
  PROVE  SetLevel(side, price, qty, action) \in Side
  BY DEF SetLevel, Side

LEMMA SymbolType ==
  ASSUME NEW e \in Entry PROVE Symbol(e) \in Symbols
  BY UmdfFeedAssumption DEF Entry, Symbol

-------------------------------------------------------------------------------
\* Where a thread stands: the datagram it parses has arrived, and from the
\* moment it begins an entry until it is done with it that entry exists.

Parsing(c) == pc[c] \in {"check", "store", "entry", "apply", "snap", "topic",
                         "payload"}

InEntry(c) == pc[c] \in {"apply", "snap", "topic", "payload"}

NetPos == \A c \in Channels : \A k \in DOMAIN net[c] :
            net[c][k].kind = "packet" => net[c][k].n \in 1 .. Len(sent)

PktPos == \A c \in Channels : Parsing(c) => pkt[c] \in 1 .. Len(sent)

AtPos == \A c \in Channels : InEntry(c) => at[c] \in 1 .. Len(sent[pkt[c]])

NetInv == NetTypeOK /\ NetPos

ThreadInv == ThreadTypeOK /\ PktPos /\ AtPos

TypeInv == MainTypeOK /\ NetInv /\ ThreadInv /\ BookTypeOK /\ SeqTypeOK

LEMMA ConstantTypes ==
  /\ NumChannels \in Nat \ {0} /\ SeqMod \in Nat \ {0}
  /\ MaxPackets \in Nat /\ MaxCopies \in Nat /\ MaxStrays \in Nat
  /\ MaxDatagrams \in Nat /\ MaxDatagrams = MaxPackets + MaxCopies
  BY UmdfFeedAssumption DEF MaxDatagrams

\* What an action leaves alone keeps its type.

LEMMA MainFrame == MainTypeOK /\ UNCHANGED mainVars => MainTypeOK'
  BY DEF MainTypeOK, mainVars

LEMMA NetFrame == NetInv /\ UNCHANGED netVars => NetInv'
  BY DEF NetInv, NetTypeOK, NetPos, netVars, feedVars

LEMMA ThreadFrame == ThreadInv /\ UNCHANGED <<pc, pkt, at, sent>> => ThreadInv'
  BY DEF ThreadInv, ThreadTypeOK, PktPos, AtPos, Parsing, InEntry

LEMMA BookFrame == BookTypeOK /\ UNCHANGED <<bookVars, held>> => BookTypeOK'
  BY DEF BookTypeOK, bookVars

LEMMA SeqFrame == SeqTypeOK /\ UNCHANGED seqVars => SeqTypeOK'
  BY DEF SeqTypeOK, seqVars

LEMMA SentBound ==
  TypeInv => /\ Len(sent) \in Nat /\ Len(sent) <= MaxDatagrams
             /\ number \in Seq(1 .. MaxPackets) /\ Len(number) = Len(sent)
  <1> SUFFICES ASSUME NetTypeOK
               PROVE  /\ Len(sent) \in Nat /\ Len(sent) <= MaxDatagrams
                      /\ number \in Seq(1 .. MaxPackets) /\ Len(number) = Len(sent)
    BY DEF TypeInv, NetInv
  <1> QED
    BY ConstantTypes DEF NetTypeOK

\* The entry a thread is in is an entry.
LEMMA CurrentType ==
  ASSUME TypeInv, NEW c \in Channels, Parsing(c), at[c] \in 1 .. Len(sent[pkt[c]])
  PROVE  Current(c) \in Entry
  <1>1. sent \in Seq(Contents) /\ pkt[c] \in 1 .. Len(sent)
    BY DEF TypeInv, NetInv, NetTypeOK, ThreadInv, PktPos
  <1>2. sent[pkt[c]] \in Seq(Entry)
    BY <1>1, UmdfFeedAssumption
  <1> QED
    BY <1>2 DEF Current

LEMMA TypeInvInit == Init => TypeInv
  <1> SUFFICES ASSUME Init PROVE TypeInv
    OBVIOUS
  <1> USE DEF Init, Channels
  <1>1. NewBook(NoSymbol) \in Book
    BY UmdfFeedAssumption, NewBookType
  <1>2. MainTypeOK
    <2>1. running \in BOOLEAN
      OBVIOUS
    <2> QED
      BY <2>1, ConstantTypes DEF MainTypeOK
  <1>3. NetInv
    BY UmdfFeedAssumption DEF NetInv, NetTypeOK, NetPos
  <1>4. ThreadInv
    BY ConstantTypes DEF ThreadInv, ThreadTypeOK, PktPos, AtPos, Parsing, InEntry
  <1>5. BookTypeOK
    BY <1>1 DEF BookTypeOK
  <1>6. SeqTypeOK
    BY UmdfFeedAssumption DEF SeqTypeOK
  <1> QED
    BY <1>2, <1>3, <1>4, <1>5, <1>6 DEF TypeInv

\* main(), start() and stop() keep the types.
LEMMA MainType == TypeInv /\ Main => TypeInv'
  <1> SUFFICES ASSUME TypeInv, Main PROVE TypeInv'
    OBVIOUS
  <1> USE DEF TypeInv, feedVars
  <1>1. UNCHANGED <<bookVars, held, seqVars, pkt, at, feedVars, strays, failed>>
    BY DEF Main, StartChannel, Started, StepConnect, Shutdown, StopClose, StopJoin, threadVars,
           netVars, feedVars
  <1>2. MainTypeOK'
    <2>1. running' \in BOOLEAN
      BY DEF Main, StartChannel, Started, StepConnect, Shutdown, StopClose, StopJoin, MainTypeOK
    <2>2. mpc' \in {"start", "connect", "run", "close", "join", "stopped"}
      BY DEF Main, StartChannel, Started, StepConnect, Shutdown, StopClose, StopJoin, MainTypeOK
    <2>3. mi' \in 1 .. NumChannels + 1
      BY ConstantTypes DEF Main, StartChannel, Started, StepConnect, Shutdown, StopClose,
         StopJoin, MainTypeOK, Channels
    <2> QED
      BY <2>1, <2>2, <2>3 DEF MainTypeOK
  <1>3. NetInv'
    <2>1. CASE StartChannel
      BY <2>1 DEF StartChannel, NetInv, NetTypeOK, NetPos, netVars, feedVars
    <2>2. CASE StopClose
      <3>1. CASE sock[mi] # "open"
        BY <1>1, <2>2, <3>1, NetFrame DEF StopClose, CloseSocket, netVars, feedVars
      <3>2. CASE sock[mi] = "open"
        <4>1. UNCHANGED <<feedVars, strays, failed>>
          BY <1>1
        <4>2. /\ sock' = [sock EXCEPT ![mi] = "closed"]
              /\ net' = [net EXCEPT ![mi] = <<>>]
          BY <2>2, <3>2 DEF StopClose, CloseSocket
        <4>3. sock' \in [Channels -> {"none", "open", "closed"}]
          BY <4>2 DEF NetInv, NetTypeOK
        <4>4. net' \in [Channels -> Seq(Datagram)]
          <5>1. <<>> \in Seq(Datagram)
            OBVIOUS
          <5> QED
            BY <4>2, <5>1 DEF NetInv, NetTypeOK
        <4>5. \A c \in Channels : net'[c] = net[c] \/ net'[c] = <<>>
          BY <4>2 DEF NetInv, NetTypeOK
        <4>6. NetPos'
          BY <4>1, <4>5 DEF NetInv, NetPos
        <4> QED
          BY <4>1, <4>3, <4>4, <4>6 DEF NetInv, NetTypeOK
      <3> QED
        BY <3>1, <3>2
    <2>3. CASE UNCHANGED netVars
      BY <2>3, NetFrame
    <2> QED
      BY <2>1, <2>2, <2>3 DEF Main, Started, StepConnect, Shutdown, StopJoin
  <1>4. ThreadInv'
    <2>1. CASE StartChannel
      BY <2>1 DEF StartChannel, ThreadInv, ThreadTypeOK, PktPos, AtPos, Parsing,
         InEntry
    <2>2. CASE UNCHANGED pc
      BY <1>1, <2>2, ThreadFrame
    <2> QED
      BY <2>1, <2>2 DEF Main, Started, StepConnect, Shutdown, StopClose, StopJoin, threadVars
  <1> QED
    BY <1>1, <1>2, <1>3, <1>4, BookFrame, SeqFrame

\* The exchange and the network keep the types.
LEMMA ExchangeType == TypeInv /\ Exchange => TypeInv'
  <1> SUFFICES ASSUME TypeInv, Exchange PROVE TypeInv'
    OBVIOUS
  <1> USE DEF TypeInv, feedVars
  <1>1. UNCHANGED <<mainVars, bookVars, threadVars, seqVars>>
    BY DEF Exchange, Multicast, Repeat, Arrive, Stray
  <1>2. ASSUME NEW k \in 1 .. MaxPackets, NEW entries \in Contents,
               NEW receivers \in SUBSET Channels, Arrive(k, entries, receivers),
               \/ copies' = copies /\ Len(sent) - copies < MaxPackets
               \/ copies' = copies + 1 /\ copies < MaxCopies
        PROVE  NetInv' /\ ThreadInv'
    <2>1. /\ sent' = Append(sent, entries) /\ number' = Append(number, k)
          /\ sent \in Seq(Contents) /\ number \in Seq(1 .. MaxPackets)
          /\ Len(number) = Len(sent) /\ UNCHANGED <<sock, strays, failed>>
      BY <1>2 DEF Arrive, NetInv, NetTypeOK
    <2>2. /\ sent' \in Seq(Contents) /\ Len(sent') = Len(sent) + 1
          /\ Len(sent) \in Nat
          /\ \A n \in 1 .. Len(sent) : sent'[n] = sent[n]
      BY <2>1
    <2>3. number' \in Seq(1 .. MaxPackets) /\ Len(number') = Len(sent')
      BY <2>1
    <2>4. copies' \in 0 .. MaxCopies /\ Len(sent') - copies' \in 0 .. MaxPackets
      BY <1>2, <2>2, ConstantTypes DEF NetInv, NetTypeOK
    <2>5. Packet(Len(sent) + 1) \in Datagram
      <3>1. Len(sent) + 1 \in 0 .. MaxDatagrams
        BY <2>2, <2>4, ConstantTypes
      <3> QED
        BY <3>1 DEF Packet, Datagram
    <2>6. net' \in [Channels -> Seq(Datagram)]
      BY <1>2, <2>5 DEF Arrive, Deliver, NetInv, NetTypeOK
    <2>7. NetTypeOK'
      BY <2>1, <2>2, <2>3, <2>4, <2>6 DEF NetInv, NetTypeOK
    <2>8. NetPos'
      BY <1>2, <2>1, <2>2 DEF Arrive, Deliver, NetInv, NetTypeOK, NetPos, Packet
    <2>9. ThreadInv'
      BY <1>1, <2>1, <2>2 DEF ThreadInv, ThreadTypeOK, PktPos, AtPos, Parsing,
         InEntry, threadVars
    <2> QED
      BY <2>7, <2>8, <2>9 DEF NetInv
  <1>4. ASSUME NEW entries \in Contents, NEW receivers \in SUBSET Channels,
               Multicast(entries, receivers)
        PROVE  NetInv' /\ ThreadInv'
    <2>1. Len(sent) - copies + 1 \in 1 .. MaxPackets
      BY <1>4, ConstantTypes DEF Multicast, NetInv, NetTypeOK
    <2> QED
      BY <1>2, <1>4, <2>1 DEF Multicast
  <1>5. ASSUME NEW m \in DOMAIN sent, NEW receivers \in SUBSET Channels,
               Repeat(m, receivers)
        PROVE  NetInv' /\ ThreadInv'
    <2>1. sent[m] \in Contents /\ number[m] \in 1 .. MaxPackets
      <3>1. /\ sent \in Seq(Contents) /\ number \in Seq(1 .. MaxPackets)
            /\ Len(number) = Len(sent)
        BY DEF NetInv, NetTypeOK
      <3>2. m \in DOMAIN number
        BY <3>1
      <3> QED
        BY <3>1, <3>2, Member
    <2> QED
      BY <1>2, <1>5, <2>1 DEF Repeat
  <1>3. ASSUME NEW kind \in {"runt", "empty"}, NEW c \in Channels, Stray(kind, c)
        PROVE  NetInv' /\ ThreadInv'
    <2>1. [kind |-> kind, n |-> 0] \in Datagram
      BY ConstantTypes DEF Datagram
    <2>2. NetTypeOK'
      BY <1>3, <2>1, UmdfFeedAssumption DEF Stray, Deliver, NetInv, NetTypeOK
    <2>3. NetPos'
      BY <1>3 DEF Stray, Deliver, NetInv, NetTypeOK, NetPos
    <2>4. ThreadInv'
      BY <1>1, <1>3, ThreadFrame DEF Stray, threadVars
    <2> QED
      BY <2>2, <2>3, <2>4 DEF NetInv
  <1> QED
    BY <1>1, <1>3, <1>4, <1>5, MainFrame, BookFrame, SeqFrame DEF Exchange, threadVars

\* A thread keeps the types.
LEMMA ThreadType == ASSUME TypeInv, NEW c \in Channels, Thread(c) PROVE TypeInv'
  <1> USE DEF TypeInv, feedVars
  <1>1. CASE LoopTest(c)
    <2>1. UNCHANGED <<mainVars, netVars, bookVars, held, seqVars>>
      BY <1>1 DEF LoopTest, netVars, feedVars, threadVars, bookVars, seqVars
    <2>2. ThreadInv'
      BY <1>1, <2>1 DEF LoopTest, Goto, netVars, feedVars, ThreadInv, ThreadTypeOK, PktPos,
         AtPos, Parsing, InEntry
    <2> QED
      BY <2>1, <2>2, MainFrame, NetFrame, BookFrame, SeqFrame
  <1>2. CASE Recv(c)
    <2>1. UNCHANGED <<mainVars, bookVars, held, seqVars, sock, feedVars, strays, at>>
      BY <1>2 DEF Recv, netVars, feedVars, threadVars, bookVars, seqVars
    <2>2. /\ net[c] \in Seq(Datagram) /\ net[c] # <<>>
          /\ net' = [net EXCEPT ![c] = Tail(net[c])]
          /\ Head(net[c]) = net[c][1] /\ Head(net[c]) \in Datagram
          /\ failed' \subseteq Channels
      BY <1>2 DEF Recv, NetInv, NetTypeOK
    <2>3. NetTypeOK'
      BY <2>1, <2>2 DEF NetInv, NetTypeOK
    <2>4. NetPos'
      BY <2>1, <2>2 DEF NetInv, NetTypeOK, NetPos
    <2>5. Head(net[c]).n \in 0 .. MaxDatagrams
          /\ Head(net[c]).kind \in {"packet", "runt", "empty"}
      BY <2>2 DEF Datagram
    <2>6. Head(net[c]).kind = "packet" => Head(net[c]).n \in 1 .. Len(sent)
      BY <2>2 DEF NetInv, NetPos
    <2>7. ThreadInv'
      BY <1>2, <2>1, <2>5, <2>6 DEF Recv, Goto, AfterRecv, ThreadInv, ThreadTypeOK,
         PktPos, AtPos, Parsing, InEntry
    <2> QED
      BY <2>1, <2>3, <2>4, <2>7, MainFrame, BookFrame, SeqFrame DEF NetInv
  <1>3. CASE RecvFails(c)
    <2>1. UNCHANGED <<mainVars, sock, net, feedVars, strays, bookVars, held, seqVars>>
      BY <1>3 DEF RecvFails, threadVars, bookVars, seqVars
    <2>2. NetInv'
      BY <1>3, <2>1 DEF RecvFails, feedVars, NetInv, NetTypeOK, NetPos
    <2>3. ThreadInv'
      BY <1>3, <2>1 DEF RecvFails, Goto, feedVars, ThreadInv, ThreadTypeOK, PktPos,
         AtPos, Parsing, InEntry
    <2> QED
      BY <2>1, <2>2, <2>3, MainFrame, BookFrame, SeqFrame
  <1>4. CASE CheckSeq(c)
    <2>1. UNCHANGED <<mainVars, netVars, bookVars, held>>
      BY <1>4 DEF CheckSeq, netVars, feedVars, threadVars, bookVars, seqVars
    <2>2. ThreadInv'
      BY <1>4, <2>1 DEF CheckSeq, Goto, netVars, feedVars, ThreadInv, ThreadTypeOK, PktPos,
         AtPos, Parsing, InEntry
    <2>3. SeqTypeOK'
      <3>1. pkt[c] \in 1 .. MaxDatagrams
        BY <1>4 DEF CheckSeq, Goto, NetInv, NetTypeOK, ThreadInv, ThreadTypeOK,
           PktPos, AtPos, Parsing, InEntry
      <3> QED
        BY <1>4, <3>1 DEF CheckSeq, SeqTypeOK
    <2> QED
      BY <2>1, <2>2, <2>3, MainFrame, NetFrame, BookFrame
  <1>5. CASE StoreSeq(c)
    <2>1. UNCHANGED <<mainVars, netVars, bookVars, held>>
      BY <1>5 DEF StoreSeq, netVars, feedVars, threadVars, bookVars, seqVars
    <2>2. ThreadInv'
      BY <1>5, <2>1 DEF StoreSeq, Goto, netVars, feedVars, ThreadInv, ThreadTypeOK, PktPos,
         AtPos, Parsing, InEntry
    <2>3. SeqTypeOK'
      <3>1. pkt[c] \in 1 .. MaxDatagrams
        BY <1>5 DEF StoreSeq, Goto, NetInv, NetTypeOK, ThreadInv, ThreadTypeOK,
           PktPos, AtPos, Parsing, InEntry
      <3>2. Seqno(pkt[c]) \in 0 .. SeqMod - 1
        <4>1. pkt[c] \in DOMAIN number /\ number \in Seq(1 .. MaxPackets)
          BY <1>5 DEF StoreSeq, Goto, NetInv, NetTypeOK, ThreadInv, PktPos, Parsing
        <4>2. number[pkt[c]] \in Nat /\ SeqMod \in Nat \ {0}
          BY <4>1, ConstantTypes
        <4>3. number[pkt[c]] % SeqMod \in 0 .. SeqMod - 1
          BY <4>2, ModType
        <4> QED
          BY <4>3 DEF Seqno
      <3> QED
        BY <1>5, <3>1, <3>2 DEF StoreSeq, SeqTypeOK
    <2> QED
      BY <2>1, <2>2, <2>3, MainFrame, NetFrame, BookFrame
  <1>6. CASE BeginQuote(c)
    <2>1. UNCHANGED <<mainVars, netVars, seqVars, at, pkt>>
      BY <1>6 DEF BeginQuote, netVars, feedVars, threadVars, bookVars, seqVars
    <2>2. Current(c) \in Entry
      BY <1>6, CurrentType DEF BeginQuote, MoreEntries, ThreadInv, ThreadTypeOK,
         PktPos, AtPos, Parsing, InEntry
    <2>3. ThreadInv'
      BY <1>6, <2>1 DEF BeginQuote, Goto, netVars, feedVars, ThreadInv, ThreadTypeOK, PktPos,
         AtPos, Parsing, InEntry, MoreEntries
    <2>4. BookTypeOK'
      <3> DEFINE e == Current(c)
                 book == IF e.sec \in keys THEN books[e.sec] ELSE NewBook(Symbol(e))
      <3>1. e.sec \in Securities
        BY <2>2 DEF Entry
      <3>2. book \in Book
        BY <2>2, <3>1, SymbolType, NewBookType DEF BookTypeOK
      <3>3. /\ keys' = keys \cup {e.sec}
            /\ books' = [books EXCEPT ![e.sec] = book]
            /\ held' = [held EXCEPT ![c] = book]
        BY <1>6 DEF BeginQuote
      <3> HIDE DEF e, book
      <3> QED
        BY <3>1, <3>2, <3>3 DEF BookTypeOK
    <2> QED
      BY <2>1, <2>3, <2>4, MainFrame, NetFrame, SeqFrame
  <1>7. CASE BeginTrade(c)
    <2>1. UNCHANGED <<mainVars, netVars, seqVars, bookVars, at, pkt>>
      BY <1>7 DEF BeginTrade, netVars, feedVars, threadVars, bookVars, seqVars
    <2>2. Current(c).sec \in Securities
      BY <1>7, CurrentType DEF BeginTrade, MoreEntries, Entry, ThreadInv,
         ThreadTypeOK, PktPos, AtPos, Parsing, InEntry
    <2>3. pc[c] = "entry" /\ (pc' = [pc EXCEPT ![c] = "apply"] \/ pc' = [pc EXCEPT ![c] = "topic"])
      BY <1>7 DEF BeginTrade, Goto
    <2>4. at[c] <= Len(sent[pkt[c]])
      BY <1>7 DEF BeginTrade, MoreEntries
    <2>5. ThreadInv'
      <3>1. ThreadTypeOK'
        BY <2>1, <2>3 DEF ThreadInv, ThreadTypeOK
      <3>2. PktPos'
        BY <2>1, <2>3 DEF netVars, feedVars, ThreadInv, ThreadTypeOK, PktPos, Parsing
      <3>3. at[c] \in 1 .. Len(sent[pkt[c]])
        BY <2>3, <2>4 DEF NetInv, NetTypeOK, ThreadInv, ThreadTypeOK, PktPos, AtPos,
           Parsing, InEntry
      <3>4. AtPos'
        BY <2>1, <2>3, <3>3 DEF netVars, feedVars, ThreadInv, ThreadTypeOK, AtPos, InEntry
      <3> QED
        BY <3>1, <3>2, <3>4 DEF ThreadInv
    <2>6. held' = held \/ held' = [held EXCEPT ![c] = books[Current(c).sec]]
      BY <1>7 DEF BeginTrade
    <2>7. BookTypeOK'
      BY <2>1, <2>2, <2>6 DEF BookTypeOK, bookVars
    <2> QED
      BY <2>1, <2>5, <2>7, MainFrame, NetFrame, SeqFrame
  <1>8. CASE SkipEntry(c)
    <2>1. UNCHANGED <<mainVars, netVars, bookVars, held, seqVars>>
      BY <1>8 DEF SkipEntry, netVars, feedVars, threadVars, bookVars, seqVars
    <2>2. ThreadInv'
      BY <1>8, <2>1 DEF SkipEntry, Goto, netVars, feedVars, ThreadInv, ThreadTypeOK, PktPos,
         AtPos, Parsing, InEntry, MoreEntries
    <2> QED
      BY <2>1, <2>2, MainFrame, NetFrame, BookFrame, SeqFrame
  <1>9. CASE EndPacket(c)
    <2>1. UNCHANGED <<mainVars, netVars, bookVars, held, seqVars>>
      BY <1>9 DEF EndPacket, netVars, feedVars, threadVars, bookVars, seqVars
    <2>2. ThreadInv'
      BY <1>9, <2>1 DEF EndPacket, Goto, netVars, feedVars, ThreadInv, ThreadTypeOK, PktPos,
         AtPos, Parsing, InEntry, MoreEntries
    <2> QED
      BY <2>1, <2>2, MainFrame, NetFrame, BookFrame, SeqFrame
  <1>10. CASE StoreSide(c)
    <2>1. UNCHANGED <<mainVars, netVars, seqVars, keys, held, at, pkt>>
      BY <1>10 DEF StoreSide, netVars, feedVars, threadVars, bookVars, seqVars
    <2>2. Current(c) \in Entry
      BY <1>10, CurrentType DEF StoreSide, Goto, ThreadInv, ThreadTypeOK, PktPos,
         AtPos, Parsing, InEntry
    <2>3. ThreadInv'
      BY <1>10, <2>1 DEF StoreSide, Goto, netVars, feedVars, ThreadInv, ThreadTypeOK, PktPos,
         AtPos, Parsing, InEntry
    <2>4. BookTypeOK'
      <3> DEFINE e == Current(c)
                 s == SideOf(e)
      <3>1. e.sec \in Securities /\ e.price \in Prices /\ e.qty \in Nat
        BY <2>2 DEF Entry
      <3>2. s \in Sides /\ (s = "bids" \/ s = "asks")
        BY DEF SideOf, Sides
      <3>3. books[e.sec][s] \in Side /\ held[c][s] \in Side
        BY <3>1, <3>2 DEF BookTypeOK, Book
      <3>4. PICK side \in Side :
              books' = [books EXCEPT ![e.sec][s] =
                          SetLevel(side, e.price, e.qty, QuoteAction(e))]
        BY <1>10, <3>3 DEF StoreSide
      <3>5. SetLevel(side, e.price, e.qty, QuoteAction(e)) \in Side
        BY <3>1, SetLevelType
      <3> HIDE DEF e, s
      <3>6. books' \in [Securities -> Book]
        BY <3>1, <3>2, <3>4, <3>5 DEF BookTypeOK, Book
      <3> QED
        BY <2>1, <3>6 DEF BookTypeOK
    <2> QED
      BY <2>1, <2>3, <2>4, MainFrame, NetFrame, SeqFrame
  <1>11. CASE StoreTrade(c)
    <2>1. UNCHANGED <<mainVars, netVars, seqVars, keys, held, at, pkt>>
      BY <1>11 DEF StoreTrade, netVars, feedVars, threadVars, bookVars, seqVars
    <2>2. Current(c) \in Entry
      BY <1>11, CurrentType DEF StoreTrade, Goto, ThreadInv, ThreadTypeOK, PktPos,
         AtPos, Parsing, InEntry
    <2>3. ThreadInv'
      BY <1>11, <2>1 DEF StoreTrade, Goto, netVars, feedVars, ThreadInv, ThreadTypeOK, PktPos,
         AtPos, Parsing, InEntry
    <2>4. BookTypeOK'
      <3> DEFINE e == Current(c)
      <3>1. e.sec \in Securities /\ e.price \in Prices /\ e.price \in Nat /\ e.qty \in Nat
        BY <2>2, OrderBookAssumption DEF Entry
      <3>2. /\ books[e.sec].volume \in Nat /\ held[c].volume \in Nat
            /\ books[e.sec].value \in Nat /\ held[c].value \in Nat
        BY <3>1 DEF BookTypeOK, Book
      <3>3. PICK volume \in Nat, value \in Nat :
              books' = [books EXCEPT ![e.sec] =
                          [@ EXCEPT !.lastPx = e.price, !.lastQty = e.qty,
                                    !.volume = volume + e.qty,
                                    !.value = value + e.price * e.qty]]
        BY <1>11, <3>2 DEF StoreTrade
      <3>4. volume + e.qty \in Nat /\ value + e.price * e.qty \in Nat
        BY <3>1
      <3> HIDE DEF e
      <3>5. books' \in [Securities -> Book]
        BY <3>1, <3>3, <3>4 DEF BookTypeOK, Book
      <3> QED
        BY <2>1, <3>5 DEF BookTypeOK
    <2> QED
      BY <2>1, <2>3, <2>4, MainFrame, NetFrame, SeqFrame
  <1>12. CASE TakeSnapshot(c)
    <2>1. UNCHANGED <<mainVars, netVars, bookVars, held, seqVars>>
      BY <1>12 DEF TakeSnapshot, netVars, feedVars, threadVars, bookVars, seqVars
    <2>2. ThreadInv'
      BY <1>12, <2>1 DEF TakeSnapshot, Goto, netVars, feedVars, ThreadInv, ThreadTypeOK,
         PktPos, AtPos, Parsing, InEntry
    <2> QED
      BY <2>1, <2>2, MainFrame, NetFrame, BookFrame, SeqFrame
  <1>13. CASE SendTopic(c)
    <2>1. UNCHANGED <<mainVars, netVars, bookVars, held, seqVars>>
      BY <1>13 DEF SendTopic, netVars, feedVars, threadVars, bookVars, seqVars
    <2>2. ThreadInv'
      BY <1>13, <2>1 DEF SendTopic, Goto, netVars, feedVars, ThreadInv, ThreadTypeOK, PktPos,
         AtPos, Parsing, InEntry
    <2> QED
      BY <2>1, <2>2, MainFrame, NetFrame, BookFrame, SeqFrame
  <1>14. CASE SendPayload(c)
    <2>1. UNCHANGED <<mainVars, netVars, bookVars, held, seqVars>>
      BY <1>14 DEF SendPayload, netVars, feedVars, threadVars, bookVars, seqVars
    <2>2. /\ UNCHANGED <<sent, pkt>> /\ pc' = [pc EXCEPT ![c] = pc'[c]]
          /\ \/ pc'[c] = "entry" /\ at' = [at EXCEPT ![c] = at[c] + 1]
             \/ pc'[c] = "topic" /\ at' = at /\ InEntry(c)
      BY <1>14, <2>1 DEF SendPayload, Goto, netVars, feedVars, ThreadInv, ThreadTypeOK,
         InEntry
    <2>3. Parsing(c)
      BY <1>14 DEF SendPayload, Goto, Parsing
    <2>4. ThreadTypeOK'
      BY <2>2 DEF ThreadInv, ThreadTypeOK
    <2>5. PktPos' /\ AtPos'
      BY <2>2, <2>3 DEF ThreadInv, ThreadTypeOK, PktPos, AtPos, Parsing, InEntry
    <2> QED
      BY <2>1, <2>4, <2>5, MainFrame, NetFrame, BookFrame, SeqFrame DEF ThreadInv
  <1> QED
    BY <1>1, <1>2, <1>3, <1>4, <1>5, <1>6, <1>7,
       <1>8, <1>9, <1>10, <1>11, <1>12, <1>13, <1>14 DEF Thread, Parse

LEMMA TypeInvNext == TypeInv /\ [Next]_vars => TypeInv'
  <1> SUFFICES ASSUME TypeInv, [Next]_vars PROVE TypeInv'
    OBVIOUS
  <1>1. CASE Main
    BY <1>1, MainType
  <1>2. CASE Exchange
    BY <1>2, ExchangeType
  <1>3. CASE \E c \in Channels : Thread(c)
    BY <1>3, ThreadType
  <1>4. CASE UNCHANGED vars
    BY <1>4, MainFrame, NetFrame, ThreadFrame, BookFrame, SeqFrame
       DEF vars, netVars, feedVars, threadVars, TypeInv
  <1> QED
    BY <1>1, <1>2, <1>3, <1>4 DEF Next

\* Every reachable state is of the type declared for it: in particular a quantity
\* in a book is never negative and last_seq_ stays within its width.
THEOREM FeedTypes == Spec => []TypeOK
  <1>1. TypeInv => TypeOK
    BY DEF TypeInv, NetInv, ThreadInv, TypeOK
  <1> QED
    BY <1>1, TypeInvInit, TypeInvNext, PTL DEF Spec

-------------------------------------------------------------------------------
(* stop() leaves nothing half done. *)

Over(c) == pc[c] \in {"none", "exited"}

\* While main() closes and joins, the channels before mi are over; a message the
\* socket has not completed belongs to a thread between its two zmq_send calls.
StopInv ==
  /\ mpc = "start" => \A c \in Channels : c >= mi => pc[c] = "none"
  /\ mpc \in {"close", "join"} => \A c \in Channels : c < mi => Over(c)
  /\ mpc = "stopped" => \A c \in Channels : Over(c)
  /\ partial # <<>> => \E c \in Channels : pc[c] = "payload"

\* A step of a thread is a step of a thread that is not over, and of no other.
LEMMA ThreadMoves ==
  ASSUME TypeInv, NEW c \in Channels, Thread(c)
  PROVE  /\ ~Over(c) /\ UNCHANGED mainVars
         /\ \A d \in Channels \ {c} : pc'[d] = pc[d]
  BY DEF Thread, Parse, LoopTest, Recv, RecvFails, CheckSeq, StoreSeq, BeginQuote,
         BeginTrade, SkipEntry, EndPacket, StoreSide, StoreTrade, TakeSnapshot,
         SendTopic, SendPayload, Goto, Over, TypeInv, ThreadInv, ThreadTypeOK

\* A thread that leaves "payload" has completed the message.
LEMMA ThreadSends ==
  ASSUME TypeInv, NEW c \in Channels, Thread(c)
  PROVE  \/ partial' = <<>>
         \/ UNCHANGED partial /\ pc[c] # "payload"
         \/ pc'[c] = "payload"
  <1> USE DEF TypeInv, ThreadInv, ThreadTypeOK, Goto
  <1>1. CASE SendTopic(c)
    BY <1>1 DEF SendTopic
  <1>2. CASE SendPayload(c)
    BY <1>2 DEF SendPayload
  <1>3. CASE LoopTest(c) \/ Recv(c) \/ RecvFails(c) \/ CheckSeq(c) \/ StoreSeq(c)
    BY <1>3 DEF LoopTest, Recv, RecvFails, CheckSeq, StoreSeq, wireVars
  <1>4. CASE BeginQuote(c) \/ BeginTrade(c) \/ SkipEntry(c) \/ EndPacket(c)
             \/ StoreSide(c) \/ StoreTrade(c) \/ TakeSnapshot(c)
    BY <1>4 DEF BeginQuote, BeginTrade, SkipEntry, EndPacket, StoreSide, StoreTrade,
       TakeSnapshot, wireVars
  <1> QED
    BY <1>1, <1>2, <1>3, <1>4 DEF Thread, Parse

LEMMA StopInvInit == Init => StopInv
  BY DEF Init, StopInv, Over

LEMMA StopInvNext == TypeInv /\ StopInv /\ [Next]_vars => StopInv'
  <1> SUFFICES ASSUME TypeInv, StopInv, [Next]_vars PROVE StopInv'
    OBVIOUS
  <1>1. ASSUME UNCHANGED <<mpc, mi, pc, partial>> PROVE StopInv'
    BY <1>1 DEF StopInv, Over
  <1>2. CASE StartChannel
    <2>1. /\ mpc = "start" /\ mpc' = "start" /\ mi' = mi + 1 /\ mi \in Channels
          /\ partial' = partial
          /\ \A c \in Channels : c # mi => pc'[c] = pc[c]
      BY <1>2 DEF StartChannel, wireVars, TypeInv, ThreadInv, ThreadTypeOK
    <2>2. \A c \in Channels : c >= mi' => pc'[c] = "none"
      BY <2>1 DEF StopInv, Channels
    <2>3. partial' # <<>> => \E c \in Channels : pc'[c] = "payload"
      BY <2>1 DEF StopInv, Channels
    <2> QED
      BY <2>1, <2>2, <2>3 DEF StopInv
  <1>3. CASE Started \/ StepConnect
    BY <1>3 DEF Started, StepConnect, StopInv, threadVars, wireVars
  <1>4. CASE Shutdown
    <2>1. mpc' = "close" /\ mi' = 1 /\ UNCHANGED <<pc, partial>>
      BY <1>4 DEF Shutdown, threadVars, wireVars
    <2> QED
      BY <2>1 DEF StopInv, Channels
  <1>5. CASE StopClose
    BY <1>5 DEF StopClose, StopInv, Over, threadVars, wireVars
  <1>6. CASE StopJoin
    <2>1. /\ mpc = "join" /\ Over(mi) /\ UNCHANGED <<pc, partial>>
          /\ \/ mi < NumChannels /\ mi' = mi + 1 /\ mpc' = "close"
             \/ mi >= NumChannels /\ mi' = mi /\ mpc' = "stopped"
      BY <1>6, ConstantTypes DEF StopJoin, Joined, Over, threadVars, wireVars,
         TypeInv, MainTypeOK
    <2>2. mi \in Nat /\ \A c \in Channels : c <= mi => Over(c)
      BY <2>1, ConstantTypes DEF StopInv, TypeInv, MainTypeOK, Channels
    <2> QED
      BY <2>1, <2>2, ConstantTypes DEF StopInv, Over, Channels
  <1>7. CASE Exchange
    BY <1>1, <1>7 DEF Exchange, Multicast, Repeat, Arrive, Stray, mainVars, threadVars, wireVars
  <1>8. ASSUME NEW c \in Channels, Thread(c) PROVE StopInv'
    <2>1. /\ ~Over(c) /\ UNCHANGED <<mpc, mi>>
          /\ \A d \in Channels \ {c} : pc'[d] = pc[d]
      BY <1>8, ThreadMoves DEF mainVars
    <2>2. partial' # <<>> => \E d \in Channels : pc'[d] = "payload"
      BY <1>8, <2>1, ThreadSends DEF StopInv
    <2> QED
      BY <2>1, <2>2 DEF StopInv, Over
  <1>9. CASE UNCHANGED vars
    BY <1>1, <1>9 DEF vars, mainVars, threadVars, wireVars
  <1> QED
    BY <1>2, <1>3, <1>4, <1>5, <1>6, <1>7, <1>8, <1>9 DEF Next, Main

\* When stop() returns, every receive thread is over and no message is left half
\* sent, for any number of channels and wherever the threads were when the signal
\* came.
THEOREM FeedStopsClean == Spec => []StoppedClean
  <1>1. StopInv => StoppedClean
    BY DEF StopInv, StoppedClean, Over
  <1> QED
    BY <1>1, TypeInvInit, TypeInvNext, StopInvInit, StopInvNext, PTL DEF Spec

-------------------------------------------------------------------------------
(* Gaps are reported. *)

\* Fewer packets than sequence numbers: last_seq_ does not wrap around.
NoWrap == MaxPackets + 1 < SeqMod

Excused(n) == \E c \in Channels : <<c, n>> \in opening

Preceded(n) == \E m \in stored : number[m] = number[n] - 1

Reported(n) == Preceded(n) \/ \E g \in gaps : g.got = Seqno(n)

\* last_seq_ is 0 before the first store and the number of a stored packet after
\* it; a thread between the check and the store has already reported what it had
\* to; a datagram is excused while nothing was stored, so its thread has not come
\* back for another.
GapInv ==
  /\ stored \subseteq 1 .. Len(sent)
  /\ stored = {} => lastSeq = 0
  /\ stored # {} => \E m \in stored : lastSeq = Seqno(m)
  /\ \A n \in stored : Excused(n) \/ Reported(n)
  /\ \A c \in Channels : pc[c] = "store" => Excused(pkt[c]) \/ Reported(pkt[c])
  /\ \A x \in opening : stored # {} \/ pc[x[1]] = "store"
  /\ \A x, y \in opening : x[1] = y[1] => x = y

LEMMA SeqnoSmall ==
  ASSUME NoWrap, TypeInv, NEW n \in 1 .. Len(sent)
  PROVE  /\ Seqno(n) = number[n] /\ number[n] \in 1 .. MaxPackets
         /\ (number[n] + 1) % SeqMod = number[n] + 1
  <1>1. number[n] \in 1 .. MaxPackets
    <2>1. number \in Seq(1 .. MaxPackets) /\ n \in DOMAIN number
      BY SentBound
    <2> QED
      BY <2>1, Member
  <1>2. /\ number[n] \in Nat /\ number[n] + 1 \in Nat /\ SeqMod \in Nat
        /\ number[n] < SeqMod /\ number[n] + 1 < SeqMod
    BY <1>1, ConstantTypes DEF NoWrap
  <1> QED
    BY <1>1, <1>2, ModSmall DEF Seqno

\* The thread that checks or stores a number is at a datagram that has arrived.
LEMMA SeqPlace ==
  ASSUME TypeInv, NEW c \in Channels, pc[c] \in {"check", "store"}
  PROVE  pkt[c] \in 1 .. Len(sent)
  BY DEF TypeInv, ThreadInv, PktPos, Parsing

\* The check lets a packet pass without a report only when its predecessor is the
\* packet last stored.
LEMMA CheckReports ==
  ASSUME NoWrap, TypeInv, GapInv, NEW c \in Channels, CheckSeq(c)
  PROVE  Excused(pkt[c])' \/ Reported(pkt[c])'
  <1>1. /\ pkt[c] \in 1 .. Len(sent)
        /\ UNCHANGED <<pkt, stored, number>>
    BY SeqPlace DEF CheckSeq, Goto, netVars, feedVars
  <1>2. CASE stored = {}
    BY <1>1, <1>2 DEF CheckSeq, Excused
  <1>3. CASE stored # {}
    <2>1. PICK m \in stored : lastSeq = Seqno(m) /\ m \in 1 .. Len(sent)
      BY <1>3 DEF GapInv
    <2>2. /\ Seqno(pkt[c]) = number[pkt[c]] /\ lastSeq = number[m]
          /\ (lastSeq + 1) % SeqMod = lastSeq + 1
          /\ lastSeq \in 1 .. MaxPackets /\ number[pkt[c]] \in 1 .. MaxPackets
      BY <1>1, <2>1, SeqnoSmall
    <2>3. CASE number[pkt[c]] = lastSeq + 1
      <3>1. number[m] = number[pkt[c]] - 1
        BY <2>2, <2>3, ConstantTypes
      <3> QED
        BY <1>1, <2>1, <3>1 DEF Reported, Preceded
    <2>4. CASE number[pkt[c]] # lastSeq + 1
      <3>1. IsGap(lastSeq, Seqno(pkt[c]))
        BY <2>2, <2>4, ConstantTypes DEF IsGap
      <3>2. gaps' = gaps \cup {[expected |-> (lastSeq + 1) % SeqMod,
                                got |-> Seqno(pkt[c])]}
        BY <3>1 DEF CheckSeq
      <3>3. \E g \in gaps' : g.got = Seqno(pkt[c])
        <4> DEFINE report == [expected |-> (lastSeq + 1) % SeqMod,
                              got |-> Seqno(pkt[c])]
        <4>1. report \in gaps'
          BY <3>2
        <4>2. report.got = Seqno(pkt[c])
          OBVIOUS
        <4> HIDE DEF report
        <4> QED
          BY <4>1, <4>2
      <3> QED
        BY <1>1, <3>3 DEF Reported, Seqno
    <2> QED
      BY <2>3, <2>4
  <1> QED
    BY <1>2, <1>3

LEMMA ThreadLeavesFeed ==
  ASSUME NEW c \in Channels, Thread(c) PROVE UNCHANGED feedVars
  BY DEF Thread, Parse, LoopTest, Recv, RecvFails, CheckSeq, StoreSeq, BeginQuote,
         BeginTrade, SkipEntry, EndPacket, StoreSide, StoreTrade, TakeSnapshot,
         SendTopic, SendPayload, netVars

LEMMA GapInvInit == Init => GapInv
  BY DEF Init, GapInv

LEMMA GapInvNext == NoWrap /\ TypeInv /\ StopInv /\ GapInv /\ [Next]_vars => GapInv'
  <1> SUFFICES ASSUME NoWrap, TypeInv, StopInv, GapInv, [Next]_vars PROVE GapInv'
    OBVIOUS
  <1>1. ASSUME UNCHANGED <<seqVars, pkt>>,
               Len(sent) \in Nat, Len(sent') \in Nat, Len(sent) <= Len(sent'),
               \A n \in 1 .. Len(sent) : number'[n] = number[n],
               \A c \in Channels : pc[c] = "store" <=> pc'[c] = "store"
        PROVE  GapInv'
    <2>1. /\ stored' = stored /\ lastSeq' = lastSeq /\ opening' = opening /\ gaps' = gaps
          /\ pkt' = pkt /\ stored \subseteq 1 .. Len(sent)
      BY <1>1 DEF seqVars, GapInv
    <2>2. \A n \in 1 .. Len(sent) : Seqno(n)' = Seqno(n)
      BY <1>1 DEF Seqno
    <2>3. ASSUME NEW n \in 1 .. Len(sent), Excused(n) \/ Reported(n)
          PROVE  Excused(n)' \/ Reported(n)'
      <3>1. CASE Excused(n)
        BY <2>1, <3>1 DEF Excused
      <3>2. CASE Preceded(n)
        BY <1>1, <2>1, <3>2 DEF Preceded, Reported
      <3>3. CASE \E g \in gaps : g.got = Seqno(n)
        BY <2>1, <2>2, <3>3 DEF Reported
      <3> QED
        BY <2>3, <3>1, <3>2, <3>3 DEF Reported
    <2>4. \A c \in Channels : pc'[c] = "store" => Excused(pkt[c])' \/ Reported(pkt[c])'
      BY <1>1, <2>3, SeqPlace DEF GapInv
    <2>5. stored' \subseteq 1 .. Len(sent')
      BY <1>1, <2>1
    <2>6. \A n \in stored' : Excused(n)' \/ Reported(n)'
      BY <2>1, <2>3 DEF GapInv
    <2>7. stored' # {} => \E m \in stored' : lastSeq' = Seqno(m)'
      BY <2>1, <2>2 DEF GapInv
    <2>8. /\ stored' = {} => lastSeq' = 0
          /\ \A x \in opening' : stored' # {} \/ pc'[x[1]] = "store"
          /\ \A x, y \in opening' : x[1] = y[1] => x = y
      <3>1. \A x \in opening : x[1] \in Channels
        BY DEF TypeInv, SeqTypeOK
      <3> QED
        BY <1>1, <2>1, <3>1 DEF GapInv
    <2> QED
      BY <2>1, <2>4, <2>5, <2>6, <2>7, <2>8 DEF GapInv, Excused, Reported, Preceded, Seqno
  <1>0. Len(sent) \in Nat /\ number \in Seq(1 .. MaxPackets) /\ Len(number) = Len(sent)
    BY SentBound
  <1>2. CASE Main
    <2>1. UNCHANGED <<seqVars, pkt, feedVars>>
      BY <1>2 DEF Main, StartChannel, Started, StepConnect, Shutdown, StopClose, StopJoin,
         threadVars, netVars
    <2>2. \A c \in Channels : pc[c] = "store" <=> pc'[c] = "store"
      <3>1. CASE StartChannel
        <4>1. pc[mi] = "none" /\ (UNCHANGED pc \/ pc' = [pc EXCEPT ![mi] = "loop"])
          BY <3>1 DEF StartChannel, StopInv, Channels
        <4> QED
          BY <4>1 DEF TypeInv, ThreadInv, ThreadTypeOK
      <3> QED
        BY <1>2, <3>1 DEF Main, Started, StepConnect, Shutdown, StopClose, StopJoin, threadVars
    <2> QED
      BY <1>0, <1>1, <2>1, <2>2 DEF feedVars
  <1>3. CASE Exchange
    <2>1. UNCHANGED <<seqVars, pkt, pc>>
      BY <1>3 DEF Exchange, Multicast, Repeat, Arrive, Stray, threadVars
    <2>2. \/ UNCHANGED feedVars
          \/ \E x, k : sent' = Append(sent, x) /\ number' = Append(number, k)
      BY <1>3 DEF Exchange, Multicast, Repeat, Arrive, Stray
    <2>3. /\ Len(sent') \in Nat /\ Len(sent) <= Len(sent')
          /\ \A n \in 1 .. Len(sent) : number'[n] = number[n]
      <3>1. sent \in Seq(Contents)
        BY DEF TypeInv, NetInv, NetTypeOK
      <3> QED
        BY <1>0, <2>2, <3>1 DEF feedVars
    <2> QED
      BY <1>0, <1>1, <2>1, <2>3
  <1>4. ASSUME NEW c \in Channels, Thread(c) PROVE GapInv'
    <2>0. pc \in [Channels -> {"none", "loop", "recv", "check", "store", "entry",
                               "apply", "snap", "topic", "payload", "exited"}]
      BY DEF TypeInv, ThreadInv, ThreadTypeOK
    <2>00. UNCHANGED <<sent, number>>
      BY <1>4, ThreadLeavesFeed DEF feedVars
    <2>01. ASSUME UNCHANGED <<seqVars, pkt>>,
                  \A d \in Channels : pc[d] = "store" <=> pc'[d] = "store"
           PROVE  GapInv'
      BY <1>0, <1>1, <2>00, <2>01
    <2>1. CASE CheckSeq(c)
      <3>1. /\ UNCHANGED <<pkt, lastSeq, stored>> /\ pc[c] = "check"
            /\ pc' = [pc EXCEPT ![c] = "store"]
            /\ gaps \subseteq gaps' /\ opening \subseteq opening'
            /\ stored # {} => opening' = opening
            /\ stored = {} => opening' = opening \cup {<<c, pkt[c]>>}
        BY <2>1 DEF CheckSeq, Goto
      <3>2. \A n : Excused(n) \/ Reported(n) => Excused(n)' \/ Reported(n)'
        BY <2>00, <3>1 DEF Excused, Reported, Preceded, Seqno
      <3>3. \A d \in Channels : pc'[d] = "store" =>
              Excused(pkt[d])' \/ Reported(pkt[d])'
        BY <2>0, <2>1, <3>1, <3>2, CheckReports DEF GapInv
      <3>4. \A n \in stored' : Excused(n)' \/ Reported(n)'
        BY <3>1, <3>2 DEF GapInv
      <3>5. /\ \A x \in opening' : stored' # {} \/ pc'[x[1]] = "store"
            /\ \A x, y \in opening' : x[1] = y[1] => x = y
        <4>1. CASE stored # {}
          BY <3>1, <4>1 DEF GapInv
        <4>2. CASE stored = {}
          <5>1. \A x \in opening : x[1] # c /\ x[1] \in Channels
            BY <3>1, <4>2 DEF GapInv, TypeInv, SeqTypeOK
          <5> QED
            BY <2>0, <3>1, <4>2, <5>1 DEF GapInv
        <4> QED
          BY <4>1, <4>2
      <3> QED
        BY <2>00, <3>1, <3>3, <3>4, <3>5 DEF GapInv, Excused, Reported, Preceded, Seqno
    <2>2. CASE StoreSeq(c)
      <3>1. /\ UNCHANGED <<pkt, opening, gaps>> /\ pc[c] = "store"
            /\ lastSeq' = Seqno(pkt[c]) /\ stored' = stored \cup {pkt[c]}
            /\ \A d \in Channels : pc'[d] = "store" => pc[d] = "store"
        BY <2>0, <2>2 DEF StoreSeq, Goto
      <3>2. pkt[c] \in 1 .. Len(sent)
        BY <3>1, SeqPlace
      <3>3. /\ stored' # {} /\ stored' \subseteq 1 .. Len(sent')
            /\ \E m \in stored' : lastSeq' = Seqno(m)'
        BY <2>00, <3>1, <3>2 DEF GapInv, Seqno
      <3>4. \A n : Excused(n) \/ Reported(n) => Excused(n)' \/ Reported(n)'
        BY <2>00, <3>1 DEF Excused, Reported, Preceded, Seqno
      <3>5. Excused(pkt[c]) \/ Reported(pkt[c])
        BY <3>1 DEF GapInv
      <3>6. \A n \in stored' : Excused(n)' \/ Reported(n)'
        BY <3>1, <3>4, <3>5 DEF GapInv
      <3>7. \A d \in Channels : pc'[d] = "store" =>
              Excused(pkt[d])' \/ Reported(pkt[d])'
        BY <3>1, <3>4 DEF GapInv
      <3> QED
        BY <2>00, <3>1, <3>3, <3>6, <3>7 DEF GapInv, Excused, Reported, Preceded, Seqno
    <2>3. CASE Recv(c)
      <3>1. /\ UNCHANGED seqVars /\ pc[c] = "recv"
            /\ pc' = [pc EXCEPT ![c] = AfterRecv(Head(net[c]))]
            /\ pkt' = [pkt EXCEPT ![c] = Head(net[c]).n]
        BY <2>3 DEF Recv, Goto
      <3>2. \A d \in Channels : /\ pc'[d] = "store" <=> pc[d] = "store"
                                /\ pc'[d] = "store" => pkt'[d] = pkt[d]
        BY <2>0, <3>1 DEF AfterRecv, TypeInv, ThreadInv, ThreadTypeOK
      <3>3. \A n : /\ Excused(n)' <=> Excused(n)
                   /\ Reported(n)' <=> Reported(n)
                   /\ Seqno(n)' = Seqno(n)
        BY <2>00, <3>1 DEF Excused, Reported, Preceded, Seqno, seqVars
      <3>4. \A x \in opening : x[1] \in Channels
        BY DEF TypeInv, SeqTypeOK
      <3>5. UNCHANGED <<stored, lastSeq, opening, gaps>>
        BY <3>1 DEF seqVars
      <3>6. \A d \in Channels : pc'[d] = "store" => Excused(pkt[d])' \/ Reported(pkt[d])'
        BY <3>2, <3>3 DEF GapInv
      <3> QED
        BY <2>00, <3>1, <3>2, <3>3, <3>4, <3>5, <3>6
           DEF GapInv, Excused, Reported, Preceded, Seqno
    <2>4. CASE LoopTest(c) \/ RecvFails(c) \/ SkipEntry(c) \/ EndPacket(c)
      <3>1. UNCHANGED <<seqVars, pkt>>
        BY <2>4 DEF LoopTest, RecvFails, SkipEntry, EndPacket
      <3>2. \A d \in Channels : pc[d] = "store" <=> pc'[d] = "store"
        BY <2>0, <2>4 DEF LoopTest, RecvFails, SkipEntry, EndPacket, Goto
      <3> QED
        BY <2>01, <3>1, <3>2
    <2>5. CASE BeginQuote(c) \/ BeginTrade(c) \/ StoreSide(c) \/ StoreTrade(c)
      <3>1. UNCHANGED <<seqVars, pkt>>
        BY <2>5 DEF BeginQuote, BeginTrade, StoreSide, StoreTrade
      <3>2. \A d \in Channels : pc[d] = "store" <=> pc'[d] = "store"
        BY <2>0, <2>5 DEF BeginQuote, BeginTrade, StoreSide, StoreTrade, Goto
      <3> QED
        BY <2>01, <3>1, <3>2
    <2>6. CASE TakeSnapshot(c) \/ SendTopic(c) \/ SendPayload(c)
      <3>1. UNCHANGED <<seqVars, pkt>>
        BY <2>6 DEF TakeSnapshot, SendTopic, SendPayload
      <3>2. \A d \in Channels : pc[d] = "store" <=> pc'[d] = "store"
        BY <2>0, <2>6 DEF TakeSnapshot, SendTopic, SendPayload, Goto
      <3> QED
        BY <2>01, <3>1, <3>2
    <2> QED
      BY <1>4, <2>1, <2>2, <2>3, <2>4, <2>5, <2>6 DEF Thread, Parse
  <1>5. CASE UNCHANGED vars
    BY <1>0, <1>1, <1>5 DEF vars, threadVars, netVars, feedVars
  <1> QED
    BY <1>2, <1>3, <1>4, <1>5 DEF Next

\* As long as the sequence numbers do not wrap around, a packet whose predecessor
\* no channel has delivered is reported, for any number of channels, any losses
\* and any interleaving of the threads between the unlocked read of last_seq_ and
\* its update.
THEOREM FeedReportsGaps == NoWrap /\ Spec => []GapsReported
  <1>1. ASSUME GapInv PROVE GapsReported
    BY <1>1 DEF GapInv, GapsReported, Excused, Reported, Preceded
  <1>2. NoWrap => (TypeInv /\ StopInv /\ GapInv /\ [Next]_vars => GapInv')
    BY GapInvNext
  <1>4. CASE ~NoWrap
    BY <1>4
  <1>5. CASE NoWrap
    <2>1. TypeInv /\ StopInv /\ GapInv /\ [Next]_vars => GapInv'
      BY <1>2, <1>5
    <2>3. Spec => []GapsReported
      BY <1>1, <2>1, TypeInvInit, TypeInvNext, StopInvInit, StopInvNext,
         GapInvInit, PTL DEF Spec
    <2> QED
      BY <2>3
  <1> QED
    BY <1>4, <1>5


-------------------------------------------------------------------------------
(* One open channel. *)

Opened(c) == sock[c] # "none"

One == \A c, d \in Channels : Opened(c) /\ Opened(d) => c = d

LEMMA LoneIsOne == Lone => One
  <1> SUFFICES ASSUME Lone, NEW c \in Channels, NEW d \in Channels, Opened(c), Opened(d),
                      c # d
               PROVE  FALSE
    BY DEF One
  <1> DEFINE S == {e \in Channels : sock[e] # "none"}
  <1>1. IsFiniteSet(S) /\ Cardinality(S) <= 1
    <2>1. IsFiniteSet(Channels)
      BY ConstantTypes, FS_Interval DEF Channels
    <2>2. S \in SUBSET Channels
      OBVIOUS
    <2> QED
      BY <2>1, <2>2, FS_Subset DEF Lone
  <1>2. {c, d} \in SUBSET S
    BY DEF Opened
  <1>3. Cardinality({c, d}) = 2
    <2>1. IsFiniteSet({c}) /\ Cardinality({c}) = 1 /\ d \notin {c}
      BY FS_Singleton
    <2>2. Cardinality({c} \cup {d}) = 1 + 1
      BY <2>1, FS_AddElement
    <2>3. {c} \cup {d} = {c, d}
      OBVIOUS
    <2> QED
      BY <2>2, <2>3
  <1> HIDE DEF S
  <1>4. Cardinality({c, d}) <= Cardinality(S) /\ Cardinality(S) \in Nat
    BY <1>1, <1>2, FS_Subset, FS_CardinalityType
  <1> QED
    BY <1>1, <1>3, <1>4

\* A channel once opened stays opened.
LEMMA StaysOpened ==
  ASSUME TypeInv, [Next]_vars
  PROVE  (\A c \in Channels : Opened(c) => Opened(c)') /\ (One' => One)
  <1>1. sock \in [Channels -> {"none", "open", "closed"}]
    BY DEF TypeInv, NetInv, NetTypeOK
  <1>2. CASE UNCHANGED sock
    BY <1>2 DEF Opened, One
  <1>3. CASE StartChannel
    BY <1>1, <1>3 DEF StartChannel, Opened, One
  <1>4. CASE StopClose
    BY <1>1, <1>4 DEF StopClose, CloseSocket, Opened, One
  <1>5. ASSUME NEW c \in Channels, Thread(c) PROVE UNCHANGED sock
    BY <1>5 DEF Thread, Parse, LoopTest, Recv, RecvFails, CheckSeq, StoreSeq, BeginQuote,
         BeginTrade, SkipEntry, EndPacket, StoreSide, StoreTrade, TakeSnapshot,
         SendTopic, SendPayload, netVars, feedVars
  <1>6. CASE Exchange
    BY <1>2, <1>6 DEF Exchange, Multicast, Repeat, Arrive, Stray
  <1>7. CASE Started \/ StepConnect \/ Shutdown \/ StopJoin
    BY <1>2, <1>7 DEF Started, StepConnect, Shutdown, StopJoin, netVars, feedVars
  <1>8. CASE UNCHANGED vars
    BY <1>2, <1>8 DEF vars, netVars, feedVars
  <1> QED
    BY <1>2, <1>3, <1>4, <1>5, <1>6, <1>7, <1>8 DEF Next, Main

-------------------------------------------------------------------------------
\* The packets in a buffer are in the order they arrived, and later than
\* the one the thread is parsing.

IsPacket(c, k) == k \in DOMAIN net[c] /\ net[c][k].kind = "packet"

WireInv ==
  \A c \in Channels :
    /\ pc[c] # "none" => Opened(c)
    /\ ~Opened(c) => net[c] = <<>>
    /\ \A j, k \in DOMAIN net[c] :
         j < k /\ IsPacket(c, j) /\ IsPacket(c, k) => net[c][j].n < net[c][k].n
    /\ \A k \in DOMAIN net[c] : Parsing(c) /\ IsPacket(c, k) => pkt[c] < net[c][k].n

LEMMA WireInit == Init => WireInv
  BY DEF Init, WireInv, Opened, Parsing

\* Steps that leave the buffers alone and parse no other packet.
LEMMA WireFrame ==
  ASSUME TypeInv, WireInv, UNCHANGED <<sock, net>>,
         \A d \in Channels : /\ pc'[d] # "none" => pc[d] # "none"
                             /\ Parsing(d)' => Parsing(d) /\ pkt'[d] = pkt[d]
  PROVE  WireInv'
  BY DEF WireInv, Opened, IsPacket

LEMMA AppendDatagram ==
  ASSUME NEW q \in Seq(Datagram), NEW d
  PROVE  /\ DOMAIN Append(q, d) = 1 .. Len(q) + 1 /\ Append(q, d)[Len(q) + 1] = d
         /\ DOMAIN q = 1 .. Len(q) /\ Len(q) \in Nat
         /\ \A k \in 1 .. Len(q) : Append(q, d)[k] = q[k]
  OBVIOUS

LEMMA WireNext == TypeInv /\ StopInv /\ WireInv /\ [Next]_vars => WireInv'
  <1> SUFFICES ASSUME TypeInv, StopInv, WireInv, [Next]_vars PROVE WireInv'
    OBVIOUS
  <1>1. /\ sock \in [Channels -> {"none", "open", "closed"}]
        /\ net \in [Channels -> Seq(Datagram)]
        /\ pc \in [Channels -> {"none", "loop", "recv", "check", "store", "entry",
                                "apply", "snap", "topic", "payload", "exited"}]
        /\ pkt \in [Channels -> 0 .. MaxDatagrams]
    BY DEF TypeInv, NetInv, NetTypeOK, ThreadInv, ThreadTypeOK
  <1>2. CASE StartChannel
    <2>1. CASE UNCHANGED <<sock, pc>>
      BY <1>2, <2>1, WireFrame DEF StartChannel, Parsing
    <2>2. CASE /\ sock' = [sock EXCEPT ![mi] = "open"] /\ pc' = [pc EXCEPT ![mi] = "loop"]
      <3>1. UNCHANGED <<net, pkt>> /\ mi \in Channels
        BY <1>2 DEF StartChannel
      <3> QED
        BY <1>1, <2>2, <3>1 DEF WireInv, Opened, IsPacket, Parsing
    <2> QED
      BY <1>2, <2>1, <2>2 DEF StartChannel
  <1>3. CASE StopClose
    <2>1. UNCHANGED <<pc, pkt>>
      BY <1>3 DEF StopClose, threadVars
    <2>2. CASE UNCHANGED <<sock, net>>
      BY <2>1, <2>2, WireFrame DEF Parsing
    <2>3. CASE /\ sock' = [sock EXCEPT ![mi] = "closed"] /\ net' = [net EXCEPT ![mi] = <<>>]
      BY <1>1, <2>1, <2>3 DEF WireInv, Opened, IsPacket, Parsing
    <2> QED
      BY <1>3, <2>2, <2>3 DEF StopClose, CloseSocket
  <1>4. CASE Started \/ StepConnect \/ Shutdown \/ StopJoin
    BY <1>4, WireFrame DEF Started, StepConnect, Shutdown, StopJoin, netVars, feedVars, threadVars, Parsing
  <1>5. ASSUME NEW D \in SUBSET Channels, NEW d, Deliver(D, d),
               UNCHANGED <<sock, pc, pkt>>,
               d.kind = "packet" => d.n = Len(sent) + 1
        PROVE  WireInv'
    <2> SUFFICES ASSUME NEW c \in Channels
                 PROVE  /\ pc'[c] # "none" => Opened(c)'
                        /\ ~Opened(c)' => net'[c] = <<>>
                        /\ \A j, k \in DOMAIN net'[c] :
                             j < k /\ IsPacket(c, j)' /\ IsPacket(c, k)' => net'[c][j].n < net'[c][k].n
                        /\ \A k \in DOMAIN net'[c] :
                             Parsing(c)' /\ IsPacket(c, k)' => pkt'[c] < net'[c][k].n
      BY DEF WireInv
    <2>1. CASE net'[c] = net[c]
      BY <1>5, <2>1 DEF WireInv, Opened, IsPacket, Parsing
    <2>2. CASE net'[c] = Append(net[c], d) /\ sock[c] = "open"
      <3> DEFINE q == net[c]
                 r == Append(q, d)
      <3>1. /\ DOMAIN r = 1 .. Len(q) + 1 /\ r[Len(q) + 1] = d
            /\ DOMAIN q = 1 .. Len(q) /\ Len(q) \in Nat
            /\ \A k \in 1 .. Len(q) : r[k] = q[k]
        BY <1>1, AppendDatagram
      <3>2. /\ \A k \in DOMAIN q : q[k].kind = "packet" => q[k].n \in 1 .. Len(sent)
            /\ Parsing(c) => pkt[c] \in 1 .. Len(sent)
            /\ Len(sent) \in Nat
        BY DEF TypeInv, NetInv, NetPos, NetTypeOK, ThreadInv, PktPos
      <3>3. /\ \A j, k \in DOMAIN q :
                 j < k /\ q[j].kind = "packet" /\ q[k].kind = "packet" => q[j].n < q[k].n
            /\ \A k \in DOMAIN q : Parsing(c) /\ q[k].kind = "packet" => pkt[c] < q[k].n
        BY DEF WireInv, IsPacket
      <3> HIDE DEF r, q
      <3>4. ASSUME NEW j \in DOMAIN r, NEW k \in DOMAIN r, j < k, r[j].kind = "packet",
                   r[k].kind = "packet"
            PROVE  r[j].n < r[k].n
        <4>1. j \in DOMAIN q /\ (k \in DOMAIN q \/ k = Len(q) + 1)
          BY <3>1, <3>4
        <4>2. CASE k \in DOMAIN q
          BY <3>1, <3>3, <3>4, <4>1, <4>2
        <4>3. CASE k = Len(q) + 1
          BY <1>5, <3>1, <3>2, <3>4, <4>1, <4>3
        <4> QED
          BY <4>1, <4>2, <4>3
      <3>5. ASSUME NEW k \in DOMAIN r, Parsing(c), r[k].kind = "packet" PROVE pkt[c] < r[k].n
        <4>1. k \in DOMAIN q \/ k = Len(q) + 1
          BY <3>1
        <4> QED
          BY <1>5, <3>1, <3>2, <3>3, <3>5, <4>1
      <3>6. net'[c] = r
        BY <2>2 DEF r, q
      <3> QED
        BY <1>5, <2>2, <3>4, <3>5, <3>6 DEF Opened, IsPacket, Parsing
    <2> QED
      BY <1>5, <2>1, <2>2 DEF Deliver
  <1>6. CASE Exchange
    <2>1. ASSUME NEW k, NEW entries, NEW receivers \in SUBSET Channels,
                 Arrive(k, entries, receivers)
          PROVE  WireInv'
      <3>1. Packet(Len(sent) + 1).n = Len(sent) + 1
        BY DEF Packet
      <3> QED
        BY <1>5, <2>1, <3>1 DEF Arrive, threadVars
    <2>2. ASSUME NEW kind \in {"runt", "empty"}, NEW c \in Channels, Stray(kind, c)
          PROVE  WireInv'
      BY <1>5, <2>2 DEF Stray, threadVars
    <2> QED
      BY <1>6, <2>1, <2>2 DEF Exchange, Multicast, Repeat
  <1>7. ASSUME NEW c \in Channels, Thread(c) PROVE WireInv'
    <2>1. CASE Recv(c)
      <3> DEFINE q == net[c]
      <3>1. /\ q \in Seq(Datagram) /\ q # <<>> /\ UNCHANGED sock
            /\ net' = [net EXCEPT ![c] = Tail(q)] /\ pc[c] = "recv"
            /\ pkt' = [pkt EXCEPT ![c] = q[1].n]
            /\ pc' = [pc EXCEPT ![c] = AfterRecv(q[1])]
        BY <1>1, <2>1 DEF Recv, Goto
      <3>2. /\ DOMAIN Tail(q) = 1 .. Len(q) - 1 /\ DOMAIN q = 1 .. Len(q) /\ Len(q) \in Nat
            /\ \A k \in 1 .. Len(q) - 1 : Tail(q)[k] = q[k + 1]
            /\ 1 \in DOMAIN q
        BY <3>1
      <3>3. \A j, k \in DOMAIN q :
              j < k /\ q[j].kind = "packet" /\ q[k].kind = "packet" => q[j].n < q[k].n
        BY DEF WireInv, IsPacket
      <3>4. AfterRecv(q[1]) \in {"exited", "loop", "check"}
            /\ (AfterRecv(q[1]) = "check" => q[1].kind = "packet")
        <4>1. q[1] \in Datagram
          BY <3>1, <3>2
        <4> QED
          BY <4>1 DEF AfterRecv, Datagram
      <3> HIDE DEF q
      <3>5. ASSUME NEW j \in DOMAIN Tail(q), NEW k \in DOMAIN Tail(q), j < k,
                   Tail(q)[j].kind = "packet", Tail(q)[k].kind = "packet"
            PROVE  Tail(q)[j].n < Tail(q)[k].n
        BY <3>2, <3>3, <3>5
      <3>6. ASSUME NEW k \in DOMAIN Tail(q), q[1].kind = "packet", Tail(q)[k].kind = "packet"
            PROVE  q[1].n < Tail(q)[k].n
        BY <3>2, <3>3, <3>6
      <3>7. \A d \in Channels \ {c} : net'[d] = net[d] /\ pc'[d] = pc[d] /\ pkt'[d] = pkt[d]
        BY <1>1, <3>1
      <3>8. net'[c] = Tail(q) /\ pkt'[c] = q[1].n /\ pc'[c] = AfterRecv(q[1]) /\ Opened(c)
        BY <1>1, <3>1 DEF WireInv
      <3> SUFFICES ASSUME NEW d \in Channels
                   PROVE  /\ pc'[d] # "none" => Opened(d)'
                          /\ ~Opened(d)' => net'[d] = <<>>
                          /\ \A j, k \in DOMAIN net'[d] :
                               j < k /\ IsPacket(d, j)' /\ IsPacket(d, k)' => net'[d][j].n < net'[d][k].n
                          /\ \A k \in DOMAIN net'[d] :
                               Parsing(d)' /\ IsPacket(d, k)' => pkt'[d] < net'[d][k].n
        BY DEF WireInv
      <3>9. CASE d = c
        BY <3>1, <3>4, <3>5, <3>6, <3>8, <3>9 DEF Opened, IsPacket, Parsing
      <3>10. CASE d # c
        BY <3>1, <3>7, <3>10 DEF WireInv, Opened, IsPacket, Parsing
      <3> QED
        BY <3>9, <3>10
    <2>2. CASE ~Recv(c)
      <3>1. /\ UNCHANGED <<sock, net, pkt>> /\ pc[c] # "none"
            /\ pc'[c] \in {"check", "store", "entry", "apply", "snap", "topic", "payload"} =>
                 pc[c] \in {"check", "store", "entry", "apply", "snap", "topic", "payload"}
            /\ \A d \in Channels \ {c} : pc'[d] = pc[d]
        <4>1. \A d \in Channels \ {c} : pc'[d] = pc[d]
          BY <1>7, ThreadMoves
        <4>2. CASE LoopTest(c) \/ RecvFails(c)
          BY <1>1, <4>1, <4>2 DEF LoopTest, RecvFails, Goto, netVars, feedVars
        <4>3. CASE CheckSeq(c) \/ StoreSeq(c) \/ SkipEntry(c) \/ EndPacket(c)
          BY <1>1, <4>1, <4>3 DEF CheckSeq, StoreSeq, SkipEntry, EndPacket, Goto, netVars, feedVars
        <4>4. CASE BeginQuote(c) \/ BeginTrade(c) \/ StoreSide(c) \/ StoreTrade(c)
          BY <1>1, <4>1, <4>4 DEF BeginQuote, BeginTrade, StoreSide, StoreTrade, Goto, netVars, feedVars
        <4>5. CASE TakeSnapshot(c) \/ SendTopic(c) \/ SendPayload(c)
          BY <1>1, <4>1, <4>5 DEF TakeSnapshot, SendTopic, SendPayload, Goto, netVars, feedVars
        <4> QED
          BY <1>7, <2>2, <4>2, <4>3, <4>4, <4>5 DEF Thread, Parse
      <3> QED
        BY <1>1, <3>1, WireFrame DEF Parsing
    <2> QED
      BY <2>1, <2>2
  <1>8. CASE UNCHANGED vars
    BY <1>8, WireFrame DEF vars, netVars, feedVars, threadVars, Parsing
  <1> QED
    BY <1>2, <1>3, <1>4, <1>6, <1>7, <1>8 DEF Next, Main

-------------------------------------------------------------------------------
\* The steps of a thread, by what they do to its place in the feed.

Place(c) == <<pkt[c], at[c]>>

Idles(c) ==
  /\ UNCHANGED <<log, stored, pkt, at, net>>
  /\ \/ pc[c] \in {"loop", "recv"} /\ pc'[c] \in {"recv", "exited"}
     \/ pc[c] = "check" /\ pc'[c] = "store"

Within(c) ==
  /\ UNCHANGED <<log, stored, pkt, at, net>>
  /\ \/ pc[c] = "entry" /\ pc'[c] = "apply"
     \/ pc[c] \in {"snap", "topic", "payload"} /\ pc'[c] \in {"topic", "payload"}

Handles(c) ==
  /\ log' = Append(log, Place(c)) /\ UNCHANGED <<stored, pkt, at, net>>
  /\ pc[c] \in {"entry", "apply"} /\ pc'[c] \in {"snap", "topic"}
  /\ at[c] \in DOMAIN sent[pkt[c]]

Skips(c) ==
  /\ log' = Append(log, Place(c)) /\ UNCHANGED <<stored, pkt, net>>
  /\ pc[c] = "entry" /\ pc'[c] = "entry" /\ at'[c] = at[c] + 1
  /\ at[c] \in DOMAIN sent[pkt[c]]

Moves(c) ==
  /\ UNCHANGED <<log, stored, pkt, net>>
  /\ pc[c] = "payload" /\ pc'[c] = "entry" /\ at'[c] = at[c] + 1

Ends(c) ==
  /\ UNCHANGED <<log, stored, pkt, at, net>>
  /\ pc[c] = "entry" /\ pc'[c] = "loop" /\ ~(at[c] <= Len(sent[pkt[c]]))

Begins(c) ==
  /\ UNCHANGED <<log, pkt, net>> /\ stored' = stored \cup {pkt[c]}
  /\ pc[c] = "store" /\ pc'[c] = (IF sent[pkt[c]] = <<>> THEN "loop" ELSE "entry")
  /\ at'[c] = 1

Receives(c) ==
  /\ UNCHANGED <<log, stored, at>> /\ net[c] # <<>>
  /\ net' = [net EXCEPT ![c] = Tail(net[c])]
  /\ pc[c] = "recv" /\ pc'[c] = AfterRecv(Head(net[c])) /\ pkt'[c] = Head(net[c]).n

ThreadTypes ==
  /\ pc \in [Channels -> {"none", "loop", "recv", "check", "store", "entry",
                          "apply", "snap", "topic", "payload", "exited"}]
  /\ pkt \in [Channels -> 0 .. MaxDatagrams]
  /\ at \in [Channels -> Nat \ {0}]
  /\ sent \in Seq(Contents) /\ net \in [Channels -> Seq(Datagram)]

LEMMA TypesOfThreads == TypeInv => ThreadTypes
  BY DEF TypeInv, NetInv, NetTypeOK, ThreadInv, ThreadTypeOK, ThreadTypes

\* The entry a thread is at exists, from the moment it begins it.
LEMMA EntryExists ==
  ASSUME TypeInv, NEW c \in Channels, InEntry(c) \/ MoreEntries(c)
  PROVE  /\ pkt[c] \in 1 .. Len(sent) /\ at[c] \in 1 .. Len(sent[pkt[c]])
         /\ at[c] \in DOMAIN sent[pkt[c]] /\ Current(c) \in Entry
         /\ sent[pkt[c]] \in Seq(Entry)
  <1>1. sent \in Seq(Contents) /\ Parsing(c) /\ at[c] \in Nat \ {0}
    BY TypesOfThreads DEF ThreadTypes, Parsing, InEntry, MoreEntries
  <1>2. pkt[c] \in 1 .. Len(sent)
    BY <1>1 DEF TypeInv, ThreadInv, PktPos
  <1>3. sent[pkt[c]] \in Seq(Entry)
    BY <1>1, <1>2, UmdfFeedAssumption
  <1>4. at[c] \in 1 .. Len(sent[pkt[c]])
    BY <1>1, <1>3 DEF TypeInv, ThreadInv, AtPos, MoreEntries
  <1> QED
    BY <1>1, <1>2, <1>3, <1>4, CurrentType

LEMMA ThreadSteps ==
  ASSUME TypeInv, NEW c \in Channels, Thread(c)
  PROVE  /\ UNCHANGED sent
         /\ \A d \in Channels \ {c} : pc'[d] = pc[d] /\ pkt'[d] = pkt[d] /\ at'[d] = at[d]
         /\ \/ Idles(c) \/ Receives(c) \/ Begins(c) \/ Ends(c)
            \/ Within(c) \/ Handles(c) \/ Skips(c) \/ Moves(c)
  <1> DEFINE P == /\ UNCHANGED sent
                  /\ \A d \in Channels \ {c} : pc'[d] = pc[d] /\ pkt'[d] = pkt[d] /\ at'[d] = at[d]
                  /\ \/ Idles(c) \/ Receives(c) \/ Begins(c) \/ Ends(c)
                     \/ Within(c) \/ Handles(c) \/ Skips(c) \/ Moves(c)
  <1>1. ThreadTypes
    BY TypesOfThreads
  <1>2. CASE LoopTest(c) \/ RecvFails(c) \/ CheckSeq(c)
    <2>1. Idles(c)
      BY <1>1, <1>2 DEF LoopTest, RecvFails, CheckSeq, Goto, netVars, feedVars, seqVars, ThreadTypes, Idles
    <2> QED
      BY <1>1, <1>2, <2>1 DEF LoopTest, RecvFails, CheckSeq, Goto, netVars, feedVars, ThreadTypes
  <1>3. CASE Recv(c)
    <2>1. Receives(c)
      BY <1>1, <1>3 DEF Recv, Goto, seqVars, ThreadTypes, Receives
    <2> QED
      BY <1>1, <1>3, <2>1 DEF Recv, Goto, feedVars, ThreadTypes
  <1>4. CASE StoreSeq(c)
    <2>1. Begins(c)
      BY <1>1, <1>4 DEF StoreSeq, Goto, netVars, feedVars, ThreadTypes, Begins
    <2> QED
      BY <1>1, <1>4, <2>1 DEF StoreSeq, Goto, netVars, feedVars, ThreadTypes
  <1>5. CASE EndPacket(c)
    <2>1. Ends(c)
      BY <1>1, <1>5 DEF EndPacket, MoreEntries, Goto, netVars, feedVars, seqVars, ThreadTypes, Ends
    <2> QED
      BY <1>1, <1>5, <2>1 DEF EndPacket, Goto, netVars, feedVars, ThreadTypes
  <1>6. CASE SkipEntry(c)
    <2>1. at[c] \in DOMAIN sent[pkt[c]]
      BY <1>6, EntryExists DEF SkipEntry
    <2>2. Skips(c)
      BY <1>1, <1>6, <2>1 DEF SkipEntry, Goto, Handled, netVars, feedVars, seqVars, ThreadTypes, Skips, Place
    <2> QED
      BY <1>1, <1>6, <2>2 DEF SkipEntry, Goto, netVars, feedVars, ThreadTypes
  <1>7. ASSUME UNCHANGED <<stored, pkt, at, net, sent>>,
               pc[c] \in {"entry", "apply"}, pc' = [pc EXCEPT ![c] = pc'[c]],
               MoreEntries(c) \/ InEntry(c),
               \/ pc[c] = "entry" /\ pc'[c] = "apply" /\ UNCHANGED log
               \/ pc'[c] \in {"snap", "topic"} /\ Handled(c)
        PROVE  P
    <2>1. at[c] \in DOMAIN sent[pkt[c]]
      BY <1>7, EntryExists
    <2>2. Within(c) \/ Handles(c)
      BY <1>7, <2>1 DEF Within, Handles, Handled, Place
    <2> QED
      BY <1>1, <1>7, <2>2 DEF ThreadTypes
  <1>8. CASE BeginQuote(c)
    <2>1. /\ UNCHANGED <<stored, pkt, at, net, sent>>
          /\ pc[c] = "entry" /\ MoreEntries(c)
          /\ \/ pc' = [pc EXCEPT ![c] = "apply"] /\ UNCHANGED log
             \/ pc' = [pc EXCEPT ![c] = "snap"] /\ Handled(c)
      BY <1>8 DEF BeginQuote, Goto, netVars, feedVars, seqVars
    <2> QED
      BY <1>1, <1>7, <2>1 DEF ThreadTypes
  <1>9. CASE BeginTrade(c)
    <2>1. /\ UNCHANGED <<stored, pkt, at, net, sent>>
          /\ pc[c] = "entry" /\ MoreEntries(c)
          /\ \/ pc' = [pc EXCEPT ![c] = "apply"] /\ UNCHANGED log
             \/ pc' = [pc EXCEPT ![c] = "topic"] /\ Handled(c)
      BY <1>9 DEF BeginTrade, Goto, netVars, feedVars, seqVars
    <2> QED
      BY <1>1, <1>7, <2>1 DEF ThreadTypes
  <1>10. CASE StoreSide(c) \/ StoreTrade(c)
    <2>1. /\ UNCHANGED <<stored, pkt, at, net, sent>>
          /\ pc[c] = "apply" /\ InEntry(c)
          /\ pc' = [pc EXCEPT ![c] = "snap"] /\ Handled(c)
      BY <1>10 DEF StoreSide, StoreTrade, Goto, netVars, feedVars, seqVars, InEntry
    <2> QED
      BY <1>1, <1>7, <2>1 DEF ThreadTypes
  <1>11. CASE TakeSnapshot(c) \/ SendTopic(c)
    <2>1. Within(c)
      BY <1>1, <1>11 DEF TakeSnapshot, SendTopic, Goto, netVars, feedVars, seqVars, ThreadTypes, Within
    <2> QED
      BY <1>1, <1>11, <2>1 DEF TakeSnapshot, SendTopic, Goto, netVars, feedVars, ThreadTypes
  <1>12. CASE SendPayload(c)
    <2>1. CASE Len(out[c]) > 1
      <3>1. Within(c)
        BY <1>1, <1>12, <2>1 DEF SendPayload, Goto, netVars, feedVars, seqVars, ThreadTypes, Within
      <3> QED
        BY <1>1, <1>12, <3>1 DEF SendPayload, Goto, netVars, feedVars, ThreadTypes
    <2>2. CASE ~(Len(out[c]) > 1)
      <3>1. Moves(c)
        BY <1>1, <1>12, <2>2 DEF SendPayload, Goto, netVars, feedVars, seqVars, ThreadTypes, Moves
      <3> QED
        BY <1>1, <1>12, <3>1 DEF SendPayload, Goto, netVars, feedVars, ThreadTypes
    <2> QED
      BY <2>1, <2>2
  <1> QED
    BY <1>2, <1>3, <1>4, <1>5, <1>6, <1>8, <1>9, <1>10, <1>11, <1>12 DEF Thread, Parse

-------------------------------------------------------------------------------
\* What is in the log has been received.

LogEntry == (1 .. MaxDatagrams) \X (Nat \ {0})

LogInv ==
  /\ log \in Seq(LogEntry)
  /\ \A k \in DOMAIN log : log[k][1] \in stored /\ log[k][2] \in DOMAIN sent[log[k][1]]
  /\ stored \subseteq 1 .. Len(sent)
  /\ \A c \in Channels : Busy(c) => pkt[c] \in stored

LEMMA AppendLog ==
  ASSUME log \in Seq(LogEntry), NEW x \in LogEntry, log' = Append(log, x)
  PROVE  /\ log' \in Seq(LogEntry) /\ DOMAIN log' = 1 .. Len(log) + 1 /\ Len(log') = Len(log) + 1
         /\ log'[Len(log) + 1] = x /\ log' # <<>>
         /\ DOMAIN log = 1 .. Len(log) /\ Len(log) \in Nat
         /\ \A k \in DOMAIN log : log'[k] = log[k]
         /\ \A k \in DOMAIN log' : k \in DOMAIN log \/ k = Len(log) + 1
  OBVIOUS

LEMMA LogInit == Init => LogInv
  BY DEF Init, LogInv, Busy

LEMMA LogFrame ==
  ASSUME LogInv, UNCHANGED <<log, stored>>, Len(sent) \in Nat, Len(sent') \in Nat,
         Len(sent) <= Len(sent'), \A n \in 1 .. Len(sent) : sent'[n] = sent[n],
         \A c \in Channels : Busy(c)' => Busy(c) /\ pkt'[c] = pkt[c]
  PROVE  LogInv'
  <1>1. \A n \in stored : n \in 1 .. Len(sent) /\ sent'[n] = sent[n]
    BY DEF LogInv
  <1>2. stored' \subseteq 1 .. Len(sent')
    BY <1>1
  <1>3. \A k \in DOMAIN log' : log'[k][1] \in stored' /\ log'[k][2] \in DOMAIN sent'[log'[k][1]]
    BY <1>1 DEF LogInv
  <1> QED
    BY <1>2, <1>3 DEF LogInv

\* What main() does to the threads, and what the exchange does.
LEMMA OutsideSteps ==
  ASSUME TypeInv, StopInv, Main \/ Exchange \/ UNCHANGED vars
  PROVE  /\ UNCHANGED <<log, stored, pkt, at>>
         /\ \A c \in Channels : \/ pc'[c] = pc[c]
                                \/ pc[c] = "none" /\ pc'[c] = "loop"
         /\ Len(sent) \in Nat /\ Len(sent') \in Nat /\ Len(sent) <= Len(sent')
         /\ \A n \in 1 .. Len(sent) : sent'[n] = sent[n]
  <1>1. ThreadTypes /\ Len(sent) \in Nat
    BY TypesOfThreads DEF ThreadTypes
  <1>2. CASE StartChannel
    <2>1. mi \in Channels /\ pc[mi] = "none" /\ UNCHANGED <<log, stored, pkt, at, sent>>
          /\ (UNCHANGED pc \/ pc' = [pc EXCEPT ![mi] = "loop"])
      BY <1>2 DEF StartChannel, StopInv, feedVars, seqVars, Channels
    <2> QED
      BY <1>1, <2>1 DEF ThreadTypes
  <1>3. CASE Started \/ StepConnect \/ Shutdown \/ StopClose \/ StopJoin
    BY <1>1, <1>3 DEF Started, StepConnect, Shutdown, StopClose, StopJoin, netVars, feedVars, threadVars, seqVars
  <1>4. ASSUME NEW m, NEW entries, NEW receivers, Arrive(m, entries, receivers)
        PROVE  /\ UNCHANGED <<log, stored, pkt, at, pc>>
               /\ Len(sent') = Len(sent) + 1
               /\ \A n \in 1 .. Len(sent) : sent'[n] = sent[n]
    <2>1. UNCHANGED <<log, stored, pkt, at, pc>> /\ sent' = Append(sent, entries)
      BY <1>4 DEF Arrive, threadVars, seqVars
    <2> QED
      BY <1>1, <2>1 DEF ThreadTypes
  <1>5. ASSUME NEW kind \in {"runt", "empty"}, NEW c \in Channels, Stray(kind, c)
        PROVE  UNCHANGED <<log, stored, pkt, at, pc, sent>>
    BY <1>5 DEF Stray, threadVars, seqVars, feedVars
  <1>6. CASE Exchange
    BY <1>1, <1>4, <1>5, <1>6 DEF Exchange, Multicast, Repeat
  <1>7. CASE UNCHANGED vars
    BY <1>1, <1>7 DEF vars, netVars, feedVars, threadVars, seqVars
  <1> QED
    BY <1>2, <1>3, <1>6, <1>7 DEF Main

LEMMA LogNext == TypeInv /\ StopInv /\ LogInv /\ [Next]_vars => LogInv'
  <1> SUFFICES ASSUME TypeInv, StopInv, LogInv, [Next]_vars PROVE LogInv'
    OBVIOUS
  <1>1. ThreadTypes /\ Len(sent) \in Nat
    BY TypesOfThreads DEF ThreadTypes
  <1>2. CASE Main \/ Exchange \/ UNCHANGED vars
    <2>1. \A c \in Channels : Busy(c)' => Busy(c) /\ pkt'[c] = pkt[c]
      BY <1>2, OutsideSteps DEF Busy
    <2> QED
      BY <1>2, <2>1, OutsideSteps, LogFrame
  <1>3. ASSUME NEW c \in Channels, Thread(c) PROVE LogInv'
    <2>1. /\ UNCHANGED sent
          /\ \A d \in Channels \ {c} : pc'[d] = pc[d] /\ pkt'[d] = pkt[d] /\ at'[d] = at[d]
      BY <1>3, ThreadSteps
    <2>2. CASE Idles(c) \/ Receives(c) \/ Ends(c) \/ Within(c) \/ Moves(c)
      <3>1. UNCHANGED <<log, stored>>
        BY <2>2 DEF Idles, Receives, Ends, Within, Moves
      <3>2. Busy(c)' => Busy(c) /\ pkt'[c] = pkt[c]
        BY <2>2 DEF Idles, Receives, Ends, Within, Moves, Busy, AfterRecv
      <3> QED
        BY <1>1, <2>1, <3>1, <3>2, LogFrame DEF Busy
    <2>3. CASE Begins(c)
      <3>1. pc[c] = "store" /\ UNCHANGED <<log, pkt>> /\ stored' = stored \cup {pkt[c]}
        BY <2>3 DEF Begins
      <3>2. pkt[c] \in 1 .. Len(sent)
        BY <3>1 DEF TypeInv, ThreadInv, PktPos, Parsing
      <3> QED
        BY <2>1, <3>1, <3>2 DEF LogInv, Busy
    <2>4. CASE Handles(c) \/ Skips(c)
      <3>1. /\ log' = Append(log, Place(c)) /\ UNCHANGED <<stored, pkt>> /\ Busy(c)
            /\ at[c] \in DOMAIN sent[pkt[c]]
        BY <2>4 DEF Handles, Skips, Busy
      <3>2. pkt[c] \in stored /\ stored \subseteq 1 .. Len(sent) /\ Len(sent) <= MaxDatagrams
        BY <3>1, SentBound DEF LogInv
      <3>3. Place(c) \in LogEntry
        <4>0. pkt[c] \in 1 .. Len(sent)
          BY <3>2
        <4>1. pkt[c] \in 1 .. MaxDatagrams
          BY <1>1, <3>2, <4>0, ConstantTypes
        <4> QED
          BY <1>1, <4>1 DEF Place, LogEntry, ThreadTypes
      <3>4. \A k \in DOMAIN log' : log'[k] = Place(c) \/ (k \in DOMAIN log /\ log'[k] = log[k])
        BY <3>1, <3>3, AppendLog DEF LogInv
      <3>5. \A k \in DOMAIN log' : log'[k][1] \in stored /\ log'[k][2] \in DOMAIN sent[log'[k][1]]
        BY <3>1, <3>2, <3>4 DEF LogInv, Place
      <3>6. log' \in Seq(LogEntry)
        BY <3>1, <3>3, AppendLog DEF LogInv
      <3> QED
        BY <2>1, <3>1, <3>2, <3>5, <3>6 DEF LogInv, Busy
    <2> QED
      BY <1>3, <2>2, <2>3, <2>4, ThreadSteps
  <1> QED
    BY <1>2, <1>3 DEF Next

-------------------------------------------------------------------------------
\* The order of arrival.

Sorted == \A j, k \in DOMAIN log : j < k => Before(log[j], log[k])

Done(n, i) == \E k \in DOMAIN log : log[k] = <<n, i>>

\* What comes after what in the one channel: the packets in the buffer, the one the
\* thread is at, the ones it has stored; and what it has handled of its packet.
Position(c) ==
  /\ \A n \in stored : \A k \in DOMAIN net[c] : IsPacket(c, k) => n < net[c][k].n
  /\ pc[c] \in {"check", "store"} => \A n \in stored : n < pkt[c]
  /\ Busy(c) => \A n \in stored : n <= pkt[c]
  /\ pc[c] \in {"entry", "apply"} => \A k \in DOMAIN log : Before(log[k], Place(c))
  /\ pc[c] \in {"snap", "topic", "payload"} => log # <<>> /\ log[Len(log)] = Place(c)

\* An entry of a stored packet was handled, or the thread has still to come to it.
Complete ==
  \A n \in stored : \A i \in DOMAIN sent[n] :
    Done(n, i) \/ \E c \in Channels : Busy(c) /\ pkt[c] = n /\ at[c] <= i

Order == Sorted /\ Complete /\ \A c \in Channels : Position(c)

OrderInv == One => Order

LEMMA OrderInit == Init => OrderInv
  BY DEF Init, OrderInv, Order, Sorted, Complete, Position, Busy

\* With one channel open the others have no thread.
LEMMA OthersRest ==
  ASSUME TypeInv, WireInv, One, NEW c \in Channels, Thread(c)
  PROVE  \A d \in Channels \ {c} : pc[d] = "none" /\ net[d] = <<>>
  <1>1. pc[c] # "none"
    BY ThreadMoves DEF Over
  <1> QED
    BY <1>1 DEF WireInv, One

LEMMA SortedAppend ==
  ASSUME LogInv, Sorted, NEW x \in LogEntry, log' = Append(log, x),
         \A k \in DOMAIN log : Before(log[k], x)
  PROVE  /\ Sorted' /\ log' # <<>> /\ log'[Len(log')] = x
         /\ \A k \in DOMAIN log' : log'[k] = x \/ Before(log'[k], x)
         /\ \A n, i : Done(n, i) => Done(n, i)'
         /\ Done(x[1], x[2])'
  <1>1. /\ DOMAIN log' = 1 .. Len(log) + 1 /\ log'[Len(log) + 1] = x /\ log' # <<>>
        /\ DOMAIN log = 1 .. Len(log) /\ Len(log) \in Nat
        /\ \A k \in DOMAIN log : log'[k] = log[k]
        /\ Len(log') = Len(log) + 1
        /\ \A k \in DOMAIN log' : k \in DOMAIN log \/ k = Len(log) + 1
    BY AppendLog DEF LogInv
  <1>2. Sorted'
    <2> SUFFICES ASSUME NEW j \in DOMAIN log', NEW k \in DOMAIN log', j < k
                 PROVE  Before(log'[j], log'[k])
      BY DEF Sorted, Before
    <2>1. j \in DOMAIN log /\ (k \in DOMAIN log \/ k = Len(log) + 1)
      BY <1>1
    <2> QED
      BY <1>1, <2>1 DEF Sorted
  <1>3. x = <<x[1], x[2]>>
    BY DEF LogEntry
  <1>4. \A n, i : Done(n, i) => Done(n, i)'
    BY <1>1 DEF Done
  <1>5. Done(x[1], x[2])'
    BY <1>1, <1>3 DEF Done
  <1> QED
    BY <1>1, <1>2, <1>4, <1>5

LEMMA OrderNext == TypeInv /\ StopInv /\ WireInv /\ LogInv /\ OrderInv /\ [Next]_vars => OrderInv'
  <1> SUFFICES ASSUME TypeInv, StopInv, WireInv, LogInv, OrderInv, [Next]_vars, One'
               PROVE  Order'
    BY DEF OrderInv
  <1>1. ThreadTypes /\ Len(sent) \in Nat /\ One /\ Order
    BY TypesOfThreads, StaysOpened DEF ThreadTypes, OrderInv
  <1>2. CASE Main \/ Exchange \/ UNCHANGED vars
    <2>1. /\ UNCHANGED <<log, stored, pkt, at>>
          /\ \A c \in Channels : pc'[c] = pc[c] \/ (pc[c] = "none" /\ pc'[c] = "loop")
          /\ \A n \in 1 .. Len(sent) : sent'[n] = sent[n]
      BY <1>2, OutsideSteps
    <2>2. \A c \in Channels, n \in stored : \A k \in DOMAIN net'[c] :
                 IsPacket(c, k)' => n < net'[c][k].n
      <3> SUFFICES ASSUME NEW c \in Channels, NEW n \in stored, NEW k \in DOMAIN net'[c],
                          IsPacket(c, k)'
                   PROVE  n < net'[c][k].n
        OBVIOUS
      <3>1. CASE net'[c] = net[c]
        BY <1>1, <3>1 DEF Order, Position, IsPacket
      <3>2. CASE net'[c] = <<>>
        BY <3>2
      <3>3. ASSUME NEW d, net'[c] = Append(net[c], d), d.kind = "packet" => d.n = Len(sent) + 1
            PROVE  n < net'[c][k].n
        <4>1. /\ DOMAIN net'[c] = 1 .. Len(net[c]) + 1 /\ net'[c][Len(net[c]) + 1] = d
              /\ DOMAIN net[c] = 1 .. Len(net[c]) /\ Len(net[c]) \in Nat
              /\ \A j \in 1 .. Len(net[c]) : net'[c][j] = net[c][j]
          BY <1>1, <3>3, AppendDatagram DEF ThreadTypes
        <4>2. CASE k \in DOMAIN net[c]
          BY <1>1, <4>1, <4>2 DEF Order, Position, IsPacket
        <4>3. CASE k = Len(net[c]) + 1
          <5>1. n \in 1 .. Len(sent) /\ net'[c][k].n = Len(sent) + 1
            BY <3>3, <4>1, <4>3 DEF LogInv, IsPacket
          <5> QED
            BY <1>1, <5>1
        <4> QED
          BY <4>1, <4>2, <4>3
      <3>4. CASE StopClose
        BY <1>1, <3>1, <3>2, <3>4 DEF StopClose, CloseSocket, ThreadTypes
      <3>5. CASE UNCHANGED net
        BY <3>1, <3>5
      <3>6. ASSUME NEW m, NEW entries, NEW receivers, Arrive(m, entries, receivers)
            PROVE  n < net'[c][k].n
        BY <3>1, <3>3, <3>6 DEF Arrive, Deliver, Packet
      <3>7. ASSUME NEW kind \in {"runt", "empty"}, NEW d \in Channels, Stray(kind, d)
            PROVE  n < net'[c][k].n
        BY <3>1, <3>3, <3>7 DEF Stray, Deliver
      <3> QED
        BY <1>2, <3>4, <3>5, <3>6, <3>7
           DEF Main, Exchange, Multicast, Repeat, StartChannel, Started, StepConnect, Shutdown, StopJoin, netVars, feedVars, vars
    <2>3. ASSUME NEW c \in Channels PROVE Position(c)'
      <3>1. Place(c)' = Place(c)
        BY <2>1 DEF Place
      <3>2. pc'[c] = pc[c] \/ pc'[c] = "loop"
        BY <2>1
      <3> QED
        BY <1>1, <2>1, <2>2, <3>1, <3>2 DEF Order, Position, Busy
    <2>4. Complete'
      <3> SUFFICES ASSUME NEW n \in stored, NEW i \in DOMAIN sent'[n]
                   PROVE  Done(n, i)' \/ \E c \in Channels : Busy(c)' /\ pkt'[c] = n /\ at'[c] <= i
        BY <2>1 DEF Complete
      <3>1. sent'[n] = sent[n]
        BY <2>1 DEF LogInv
      <3>2. Done(n, i) => Done(n, i)'
        BY <2>1 DEF Done
      <3>3. \A c \in Channels : Busy(c) => Busy(c)'
        BY <2>1 DEF Busy
      <3> QED
        BY <1>1, <2>1, <3>1, <3>2, <3>3 DEF Order, Complete
    <2> QED
      BY <1>1, <2>1, <2>3, <2>4 DEF Order, Sorted
  <1>3. ASSUME NEW c \in Channels, Thread(c) PROVE Order'
    <2>1. /\ UNCHANGED sent
          /\ \A d \in Channels \ {c} : pc'[d] = pc[d] /\ pkt'[d] = pkt[d] /\ at'[d] = at[d]
      BY <1>3, ThreadSteps
    <2>2. \A d \in Channels \ {c} : pc[d] = "none" /\ net[d] = <<>>
      BY <1>1, <1>3, OthersRest
    <2>3. \A d \in Channels \ {c} : pc'[d] = "none" /\ net'[d] = <<>> /\ ~Busy(d) /\ ~Busy(d)'
      <3>1. \A d \in Channels \ {c} : net'[d] = net[d]
        BY <1>1, <1>3, ThreadSteps
           DEF Idles, Receives, Begins, Ends, Within, Handles, Skips, Moves, ThreadTypes
      <3> QED
        BY <2>1, <2>2, <3>1 DEF Busy
    <2>4. ASSUME Sorted', Complete', Position(c)' PROVE Order'
      BY <2>3, <2>4 DEF Order, Position, Busy
    <2>5. \A n \in stored : \A i \in DOMAIN sent[n] :
            Done(n, i) \/ (Busy(c) /\ pkt[c] = n /\ at[c] <= i)
      BY <1>1, <2>3 DEF Order, Complete
    <2>6. Sorted /\ Position(c)
      BY <1>1 DEF Order
    <2>7. pkt[c] \in Nat /\ at[c] \in Nat
      BY <1>1, ConstantTypes DEF ThreadTypes
    <2>8. CASE UNCHANGED log
      <3>1. Sorted' /\ \A n, i : Done(n, i) => Done(n, i)'
        BY <2>6, <2>8 DEF Sorted, Done
      <3>2. CASE Idles(c)
        <4>1. Position(c)'
          BY <2>6, <3>2 DEF Idles, Position, Busy, IsPacket
        <4>2. Complete'
          BY <2>1, <2>5, <3>1, <3>2 DEF Idles, Busy, Complete
        <4> QED
          BY <2>4, <3>1, <4>1, <4>2
      <3>3. CASE Within(c)
        <4>1. Place(c)' = Place(c)
          BY <3>3 DEF Within, Place
        <4>2. Position(c)'
          BY <2>6, <3>3, <4>1 DEF Within, Position, Busy, IsPacket
        <4>3. Complete'
          BY <2>1, <2>5, <3>1, <3>3 DEF Within, Busy, Complete
        <4> QED
          BY <2>4, <3>1, <4>2, <4>3
      <3>4. CASE Ends(c)
        <4>1. Position(c)'
          BY <2>6, <3>4 DEF Ends, Position, Busy, IsPacket
        <4>2. \A i \in DOMAIN sent[pkt[c]] : ~(at[c] <= i)
          <5>1. pc[c] = "entry" /\ ~(at[c] <= Len(sent[pkt[c]]))
            BY <3>4 DEF Ends
          <5>2. pkt[c] \in 1 .. Len(sent)
            BY <5>1 DEF TypeInv, ThreadInv, PktPos, Parsing
          <5>3. sent[pkt[c]] \in Seq(Entry)
            BY <1>1, <5>2, UmdfFeedAssumption DEF ThreadTypes
          <5> QED
            BY <2>7, <5>1, <5>3
        <4>3. Complete'
          BY <2>1, <2>5, <3>1, <3>4, <4>2 DEF Ends, Complete
        <4> QED
          BY <2>4, <3>1, <4>1, <4>3
      <3>5. CASE Begins(c)
        <4>1. /\ pc[c] = "store" /\ UNCHANGED <<log, pkt, net>> /\ stored' = stored \cup {pkt[c]}
              /\ pc'[c] = (IF sent[pkt[c]] = <<>> THEN "loop" ELSE "entry") /\ at'[c] = 1
          BY <3>5 DEF Begins
        <4>2. \A n \in stored : n < pkt[c] /\ n \in Nat
          BY <2>6, <4>1 DEF Position, LogInv
        <4>3. \A k \in DOMAIN net[c] : IsPacket(c, k) => pkt[c] < net[c][k].n
          BY <4>1 DEF WireInv, Parsing
        <4>4. \A k \in DOMAIN log : Before(log[k], Place(c)')
          BY <4>1, <4>2 DEF LogInv, Before, Place
        <4>5. pc'[c] = "entry" \/ pc'[c] = "loop"
          BY <4>1
        <4>6. \A n \in stored' : n <= pkt'[c]
          BY <2>7, <4>1, <4>2
        <4>7. \A n \in stored' : \A k \in DOMAIN net'[c] : IsPacket(c, k)' => n < net'[c][k].n
          BY <2>6, <4>1, <4>3 DEF Position, IsPacket
        <4>8. Position(c)'
          BY <4>1, <4>4, <4>5, <4>6, <4>7 DEF Position, Place
        <4>9. Complete'
          <5> SUFFICES ASSUME NEW n \in stored', NEW i \in DOMAIN sent[n]
                       PROVE  Done(n, i)' \/ (Busy(c)' /\ pkt'[c] = n /\ at'[c] <= i)
            BY <2>1 DEF Complete
          <5>1. CASE n \in stored
            BY <2>5, <3>1, <4>1, <5>1 DEF Busy
          <5>2. CASE n = pkt[c]
            <6>1. pkt[c] \in 1 .. Len(sent)
              BY <4>1 DEF TypeInv, ThreadInv, PktPos, Parsing
            <6>2. sent[pkt[c]] \in Seq(Entry)
              BY <1>1, <6>1, UmdfFeedAssumption DEF ThreadTypes
            <6>3. i >= 1 /\ sent[pkt[c]] # <<>>
              BY <5>2, <6>2
            <6> QED
              BY <4>1, <5>2, <6>3 DEF Busy
          <5> QED
            BY <4>1, <5>1, <5>2
        <4> QED
          BY <2>4, <3>1, <4>8, <4>9
      <3>6. CASE Receives(c)
        <4> DEFINE q == net[c]
        <4>1. /\ q \in Seq(Datagram) /\ q # <<>> /\ net'[c] = Tail(q) /\ UNCHANGED <<log, stored>>
              /\ pc[c] = "recv" /\ pc'[c] = AfterRecv(q[1]) /\ pkt'[c] = q[1].n
          BY <1>1, <3>6 DEF Receives, ThreadTypes
        <4>2. /\ DOMAIN Tail(q) = 1 .. Len(q) - 1 /\ DOMAIN q = 1 .. Len(q) /\ Len(q) \in Nat
              /\ \A k \in 1 .. Len(q) - 1 : Tail(q)[k] = q[k + 1] /\ k + 1 \in DOMAIN q
              /\ 1 \in DOMAIN q
          BY <4>1
        <4>3. \A n \in stored : \A k \in DOMAIN q : q[k].kind = "packet" => n < q[k].n
          BY <2>6 DEF Position, IsPacket
        <4>4. AfterRecv(q[1]) \in {"exited", "loop", "check"}
              /\ (AfterRecv(q[1]) = "check" => q[1].kind = "packet")
          <5>1. q[1] \in Datagram
            BY <4>1, <4>2
          <5> QED
            BY <5>1 DEF AfterRecv, Datagram
        <4> HIDE DEF q
        <4>5. \A n \in stored : \A k \in DOMAIN Tail(q) : Tail(q)[k].kind = "packet" => n < Tail(q)[k].n
          BY <4>2, <4>3
        <4>6. Position(c)'
          BY <4>1, <4>2, <4>3, <4>4, <4>5 DEF Position, Busy, IsPacket
        <4>7. Complete'
          BY <2>1, <2>5, <3>1, <4>1 DEF Busy, Complete
        <4> QED
          BY <2>4, <3>1, <4>6, <4>7
      <3>7. CASE Moves(c)
        <4>1. /\ UNCHANGED <<stored, pkt, net>> /\ pc[c] = "payload" /\ pc'[c] = "entry"
              /\ at'[c] = at[c] + 1
          BY <3>7 DEF Moves
        <4>2. log # <<>> /\ log[Len(log)] = Place(c)
          BY <2>6, <4>1 DEF Position
        <4>3. Len(log) \in DOMAIN log /\ Len(log) \in Nat /\ DOMAIN log = 1 .. Len(log)
          BY <4>2 DEF LogInv
        <4>4. \A k \in DOMAIN log : log[k] = Place(c) \/ Before(log[k], Place(c))
          BY <2>6, <4>2, <4>3 DEF Sorted
        <4>5. \A k \in DOMAIN log : Before(log'[k], Place(c)')
          <5> SUFFICES ASSUME NEW k \in DOMAIN log PROVE Before(log[k], <<pkt[c], at[c] + 1>>)
            BY <2>8, <4>1 DEF Before, Place
          <5>1. log[k] \in LogEntry
            BY <4>3 DEF LogInv
          <5> QED
            BY <2>7, <4>4, <5>1 DEF Before, Place, LogEntry
        <4>6. Position(c)'
          BY <2>6, <2>8, <4>1, <4>5 DEF Position, Busy, IsPacket
        <4>7. Done(pkt[c], at[c])
          BY <4>2, <4>3 DEF Done, Place
        <4>8. Complete'
          <5> SUFFICES ASSUME NEW n \in stored, NEW i \in DOMAIN sent[n]
                       PROVE  Done(n, i)' \/ (Busy(c)' /\ pkt'[c] = n /\ at'[c] <= i)
            BY <2>1, <4>1 DEF Complete
          <5>1. CASE Done(n, i)
            BY <3>1, <5>1
          <5>2. CASE pkt[c] = n /\ at[c] <= i /\ i # at[c]
            <6>1. i \in Nat
              <7>1. n \in 1 .. Len(sent)
                BY DEF LogInv
              <7>2. sent[n] \in Seq(Entry)
                BY <1>1, <7>1, UmdfFeedAssumption DEF ThreadTypes
              <7> QED
                BY <7>2
            <6> QED
              BY <2>7, <4>1, <5>2, <6>1 DEF Busy
          <5> QED
            BY <2>5, <3>1, <4>7, <5>1, <5>2
        <4> QED
          BY <2>4, <3>1, <4>6, <4>8
      <3>8. ~Handles(c) /\ ~Skips(c)
        BY <2>8 DEF Handles, Skips, LogInv
      <3> QED
        BY <1>3, <3>2, <3>3, <3>4, <3>5, <3>6, <3>7, <3>8, ThreadSteps
    <2>9. CASE Handles(c) \/ Skips(c)
      <3>1. /\ log' = Append(log, Place(c)) /\ UNCHANGED <<stored, pkt, net>> /\ Busy(c)
            /\ pc[c] \in {"entry", "apply"} /\ Busy(c)'
            /\ \/ pc'[c] \in {"snap", "topic"} /\ at'[c] = at[c]
               \/ pc'[c] = "entry" /\ at'[c] = at[c] + 1
        BY <2>9 DEF Handles, Skips, Busy
      <3>2. PICK x \in LogEntry : x = Place(c) /\ x[1] = pkt[c] /\ x[2] = at[c]
        <4>1. pkt[c] \in stored /\ stored \subseteq 1 .. Len(sent) /\ Len(sent) <= MaxDatagrams
          BY <3>1, SentBound DEF LogInv
        <4>2. pkt[c] \in 1 .. Len(sent)
          BY <4>1
        <4>3. pkt[c] \in 1 .. MaxDatagrams
          BY <1>1, <4>1, <4>2, ConstantTypes
        <4>4. Place(c) \in LogEntry /\ Place(c)[1] = pkt[c] /\ Place(c)[2] = at[c]
          BY <1>1, <4>3 DEF Place, LogEntry, ThreadTypes
        <4> QED
          BY <4>4
      <3>3. \A k \in DOMAIN log : Before(log[k], x)
        BY <2>6, <3>1, <3>2 DEF Position
      <3>4. /\ Sorted' /\ log' # <<>> /\ log'[Len(log')] = x
            /\ \A k \in DOMAIN log' : log'[k] = x \/ Before(log'[k], x)
            /\ \A n, i : Done(n, i) => Done(n, i)'
            /\ Done(x[1], x[2])'
        BY <2>6, <3>1, <3>2, <3>3, SortedAppend
      <3>5. log' \in Seq(LogEntry) /\ DOMAIN log' = 1 .. Len(log') /\ Len(log') \in Nat
        BY <3>1, <3>2, AppendLog DEF LogInv
      <3>6. at'[c] = at[c] => Place(c)' = x
        BY <3>1, <3>2 DEF Place
      <3>7. pc'[c] = "entry" => \A k \in DOMAIN log' : Before(log'[k], Place(c)')
        <4> SUFFICES ASSUME pc'[c] = "entry", NEW k \in DOMAIN log'
                     PROVE  Before(log'[k], <<pkt[c], at[c] + 1>>)
          BY <3>1 DEF Before, Place
        <4>1. log'[k] \in LogEntry
          BY <3>5
        <4> QED
          BY <2>7, <3>2, <3>4, <4>1 DEF Before, LogEntry
      <3>8. Position(c)'
        BY <2>6, <3>1, <3>4, <3>6, <3>7 DEF Position, Busy, IsPacket
      <3>9. Complete'
        <4> SUFFICES ASSUME NEW n \in stored, NEW i \in DOMAIN sent[n]
                     PROVE  Done(n, i)' \/ (Busy(c)' /\ pkt'[c] = n /\ at'[c] <= i)
          BY <2>1, <3>1 DEF Complete
        <4>1. CASE Done(n, i)
          BY <3>4, <4>1
        <4>2. CASE pkt[c] = n /\ at[c] <= i /\ i # at[c]
          <5>1. i \in Nat
            <6>1. n \in 1 .. Len(sent)
              BY DEF LogInv
            <6>2. sent[n] \in Seq(Entry)
              BY <1>1, <6>1, UmdfFeedAssumption DEF ThreadTypes
            <6> QED
              BY <6>2
          <5> QED
            BY <2>7, <3>1, <4>2, <5>1
        <4>3. CASE n = x[1] /\ i = x[2]
          BY <3>4, <4>3
        <4> QED
          BY <2>5, <3>2, <4>1, <4>2, <4>3
      <3> QED
        BY <2>4, <3>4, <3>8, <3>9
    <2>10. Handles(c) \/ Skips(c) \/ UNCHANGED log
      BY <1>3, ThreadSteps DEF Idles, Receives, Begins, Ends, Within, Moves
    <2> QED
      BY <2>8, <2>9, <2>10
  <1> QED
    BY <1>2, <1>3 DEF Next

\* With one channel open, every entry of every datagram received is handled exactly
\* once and in the order in which the socket received them, whatever the network lost,
\* repeated or reordered before, and whenever stop() came.
THEOREM FeedHandlesOnceInOrder == Spec => []HandledOnceInOrder
  <1>1. TypeInv /\ OrderInv => HandledOnceInOrder
    BY LoneIsOne DEF OrderInv, Order, Sorted, Complete, Done, HandledOnceInOrder
  <1> QED
    BY <1>1, TypeInvInit, TypeInvNext, StopInvInit, StopInvNext, WireInit, WireNext,
       LogInit, LogNext, OrderInit, OrderNext, PTL DEF Spec

-------------------------------------------------------------------------------
\* The books.

LEMMA LatestIs ==
  ASSUME NEW S \in SUBSET Nat, NEW m \in S, \A j \in S : j <= m
  PROVE  Latest(S) = m
  <1>1. \E k \in S : \A j \in S : j <= k
    OBVIOUS
  <1>2. Latest(S) \in S /\ \A j \in S : j <= Latest(S)
    BY <1>1 DEF Latest
  <1>3. Latest(S) \in Nat /\ m \in Nat /\ Latest(S) <= m /\ m <= Latest(S)
    BY <1>2
  <1> QED
    BY <1>3

Match(e, sec, s, p) ==
  IsQuote(e) /\ e.sec = sec /\ SideOf(e) = s /\ e.price = p /\ p > 0

\* The entry at position k of the log.
Nth(k) == EntryOf(log[k])

LEMMA QuotesAre ==
  ASSUME NEW sec, NEW s, NEW p
  PROVE  QuotesAt(sec, s, p) = {k \in DOMAIN log : Match(Nth(k), sec, s, p)}
  BY DEF QuotesAt, Match, Nth

LEMMA LogStays ==
  ASSUME LogInv, UNCHANGED log, \A n \in 1 .. Len(sent) : sent'[n] = sent[n]
  PROVE  \A k \in DOMAIN log : Nth(k)' = Nth(k)
  BY DEF LogInv, Nth, EntryOf

LEMMA LogGrows ==
  ASSUME LogInv, UNCHANGED sent, NEW x \in LogEntry, log' = Append(log, x)
  PROVE  /\ DOMAIN log' = DOMAIN log \cup {Len(log) + 1}
         /\ Len(log) + 1 \in Nat
         /\ \A k \in DOMAIN log : Nth(k)' = Nth(k) /\ k \in Nat /\ k < Len(log) + 1
         /\ \A k : k = Len(log) + 1 => Nth(k)' = EntryOf(x)
  <1>1. /\ DOMAIN log' = 1 .. Len(log) + 1 /\ log'[Len(log) + 1] = x
        /\ DOMAIN log = 1 .. Len(log) /\ Len(log) \in Nat
        /\ \A k \in DOMAIN log : log'[k] = log[k]
    BY AppendLog DEF LogInv
  <1>2. \A k \in DOMAIN log : Nth(k)' = Nth(k)
    BY <1>1 DEF Nth, EntryOf
  <1>3. \A k : k = Len(log) + 1 => Nth(k)' = EntryOf(x)
    BY <1>1 DEF Nth, EntryOf
  <1> QED
    BY <1>1, <1>2, <1>3

\* A level shows the latest quote in the log, if there is any.
Shows(sec, s, p) ==
  \/ QuotesAt(sec, s, p) = {} /\ books[sec][s][p] = 0
  \/ \E m \in QuotesAt(sec, s, p) :
       /\ \A j \in QuotesAt(sec, s, p) : j <= m
       /\ books[sec][s][p] = Nth(m).qty

LEMMA ShowsSame ==
  ASSUME LogInv, UNCHANGED log, \A n \in 1 .. Len(sent) : sent'[n] = sent[n],
         NEW sec, NEW s, NEW p, Shows(sec, s, p), books'[sec][s][p] = books[sec][s][p]
  PROVE  Shows(sec, s, p)'
  <1>1. \A k \in DOMAIN log : Nth(k)' = Nth(k)
    BY LogStays
  <1>2. QuotesAt(sec, s, p)' = {k \in DOMAIN log' : Match(Nth(k)', sec, s, p)}
    BY DEF QuotesAt, Match, Nth, IsQuote, SideOf
  <1>3. QuotesAt(sec, s, p)' = QuotesAt(sec, s, p)
    BY <1>1, <1>2, QuotesAre
  <1>4. \A m \in QuotesAt(sec, s, p) : m \in DOMAIN log
    BY QuotesAre
  <1> QED
    BY <1>1, <1>3, <1>4 DEF Shows

\* The log grows by an entry: the level that entry is about, and no other, must
\* show its quantity.
LEMMA ShowsAppend ==
  ASSUME LogInv, UNCHANGED sent, NEW x \in LogEntry, log' = Append(log, x),
         NEW sec, NEW s, NEW p, Shows(sec, s, p),
         Match(EntryOf(x), sec, s, p) => books'[sec][s][p] = EntryOf(x).qty,
         ~Match(EntryOf(x), sec, s, p) => books'[sec][s][p] = books[sec][s][p]
  PROVE  Shows(sec, s, p)'
  <1>1. /\ DOMAIN log' = DOMAIN log \cup {Len(log) + 1}
        /\ Len(log) + 1 \in Nat
        /\ \A k \in DOMAIN log : Nth(k)' = Nth(k) /\ k \in Nat /\ k < Len(log) + 1
        /\ \A k : k = Len(log) + 1 => Nth(k)' = EntryOf(x)
    BY LogGrows
  <1>2. PICK last \in Nat : last = Len(log) + 1
    BY <1>1
  <1>3. QuotesAt(sec, s, p)' = {k \in DOMAIN log' : Match(Nth(k)', sec, s, p)}
    BY DEF QuotesAt, Match, Nth, IsQuote, SideOf
  <1>4. \A m \in QuotesAt(sec, s, p) : m \in DOMAIN log
    BY QuotesAre
  <1>5. CASE Match(EntryOf(x), sec, s, p)
    <2>1. last \in QuotesAt(sec, s, p)' /\ Nth(last)' = EntryOf(x)
      BY <1>1, <1>2, <1>3, <1>5
    <2>2. \A j \in QuotesAt(sec, s, p)' : j <= last
      BY <1>1, <1>2, <1>3
    <2> QED
      BY <1>5, <2>1, <2>2 DEF Shows
  <1>6. CASE ~Match(EntryOf(x), sec, s, p)
    <2>1. QuotesAt(sec, s, p)' = QuotesAt(sec, s, p)
      BY <1>1, <1>3, <1>6, QuotesAre
    <2> QED
      BY <1>1, <1>4, <1>6, <2>1 DEF Shows
  <1> QED
    BY <1>5, <1>6

Empty(sec) == \A s \in Sides, p \in Prices : books[sec][s][p] = 0

\* A thread that is about to change a book has read the book as it is.
Reading(c) ==
  pc[c] = "apply" =>
    /\ Current(c).sec \in keys /\ held[c] = books[Current(c).sec]
    /\ IsQuote(Current(c)) => Current(c).price > 0

Shown ==
  /\ \A sec \in Securities \ keys : Empty(sec)
  /\ \A c \in Channels : Reading(c)
  /\ \A sec \in Securities, s \in Sides, p \in Prices : Shows(sec, s, p)

BookInv == One => Shown

LEMMA BookInit == Init => BookInv
  <1> SUFFICES ASSUME Init PROVE Shown
    BY DEF BookInv
  <1>1. \A sec \in Securities : Empty(sec)
    BY DEF Init, Empty, NewBook, EmptySide, Sides
  <1>2. \A sec, s, p : QuotesAt(sec, s, p) = {}
    BY DEF Init, QuotesAt
  <1> QED
    BY <1>1, <1>2 DEF Init, Shown, Shows, Reading, Empty

\* The entry a thread is at stays what it is.
LEMMA CurrentStays ==
  ASSUME TypeInv, NEW c \in Channels, InEntry(c) \/ MoreEntries(c),
         pkt'[c] = pkt[c], at'[c] = at[c], \A n \in 1 .. Len(sent) : sent'[n] = sent[n]
  PROVE  Current(c)' = Current(c)
  <1>1. pkt[c] \in 1 .. Len(sent)
    BY EntryExists
  <1> QED
    BY <1>1 DEF Current

\* What a thread does to the books.
LEMMA ThreadBooks ==
  ASSUME TypeInv, NEW c \in Channels, Thread(c)
  PROVE  \/ UNCHANGED <<bookVars, held, log>> /\ pc'[c] # "apply"
         \/ BeginQuote(c) \/ BeginTrade(c) \/ SkipEntry(c) \/ StoreSide(c) \/ StoreTrade(c)
  <1>1. ThreadTypes
    BY TypesOfThreads
  <1>2. CASE LoopTest(c) \/ RecvFails(c) \/ CheckSeq(c) \/ StoreSeq(c)
    BY <1>1, <1>2 DEF LoopTest, RecvFails, CheckSeq, StoreSeq, Goto, ThreadTypes
  <1>3. CASE Recv(c) \/ EndPacket(c)
    BY <1>1, <1>3 DEF Recv, AfterRecv, EndPacket, Goto, ThreadTypes
  <1>4. CASE TakeSnapshot(c) \/ SendTopic(c) \/ SendPayload(c)
    BY <1>1, <1>4 DEF TakeSnapshot, SendTopic, SendPayload, Goto, ThreadTypes
  <1> QED
    BY <1>2, <1>3, <1>4 DEF Thread, Parse

LEMMA BookNext ==
  TypeInv /\ StopInv /\ WireInv /\ LogInv /\ BookInv /\ [Next]_vars => BookInv'
  <1> SUFFICES ASSUME TypeInv, StopInv, WireInv, LogInv, BookInv, [Next]_vars, One'
               PROVE  Shown'
    BY DEF BookInv
  <1>1. /\ ThreadTypes /\ One /\ Shown
        /\ books \in [Securities -> Book] /\ keys \subseteq Securities
        /\ held \in [Channels -> Book]
    BY TypesOfThreads, StaysOpened DEF BookInv, TypeInv, BookTypeOK
  <1>2. ASSUME UNCHANGED <<bookVars, log>>, \A n \in 1 .. Len(sent) : sent'[n] = sent[n],
               \A c \in Channels : Reading(c)'
        PROVE  Shown'
    BY <1>1, <1>2, ShowsSame DEF Shown, Empty, bookVars
  <1>3. CASE Main \/ Exchange \/ UNCHANGED vars
    <2>1. UNCHANGED <<bookVars, held>>
      BY <1>3 DEF Main, StartChannel, Started, StepConnect, Shutdown, StopClose, StopJoin, Exchange,
         Multicast, Repeat, Arrive, Stray, vars, threadVars, bookVars
    <2>2. /\ UNCHANGED <<log, pkt, at>>
          /\ \A c \in Channels : pc'[c] = pc[c] \/ (pc[c] = "none" /\ pc'[c] = "loop")
          /\ \A n \in 1 .. Len(sent) : sent'[n] = sent[n]
      BY <1>3, OutsideSteps
    <2>3. ASSUME NEW c \in Channels, pc'[c] = "apply"
          PROVE  pc[c] = "apply" /\ Current(c)' = Current(c)
      <3>1. pc[c] = "apply" /\ InEntry(c)
        BY <2>2, <2>3 DEF InEntry
      <3> QED
        BY <2>2, <3>1, CurrentStays
    <2>4. \A c \in Channels : Reading(c)'
      BY <1>1, <2>1, <2>3 DEF Shown, Reading, bookVars, IsQuote
    <2> QED
      BY <1>2, <2>1, <2>2, <2>4
  <1>4. ASSUME NEW c \in Channels, Thread(c) PROVE Shown'
    <2>1. UNCHANGED sent /\ \A d \in Channels \ {c} : pc'[d] = "none"
      BY <1>1, <1>4, OthersRest, ThreadSteps
    <2>2. ASSUME pc'[c] # "apply" PROVE \A d \in Channels : Reading(d)'
      BY <2>1, <2>2 DEF Reading
    <2>3. CASE UNCHANGED <<bookVars, held, log>> /\ pc'[c] # "apply"
      BY <1>2, <2>1, <2>2, <2>3
    <2>4. CASE BeginQuote(c) \/ BeginTrade(c) \/ SkipEntry(c) \/ StoreSide(c) \/ StoreTrade(c)
      <3>1. MoreEntries(c) \/ InEntry(c)
        BY <2>4 DEF BeginQuote, BeginTrade, SkipEntry, StoreSide, StoreTrade, Goto, InEntry
      <3>2. PICK e \in Entry : e = Current(c)
        BY <3>1, EntryExists
      <3>3. PICK x \in LogEntry : x = Place(c)
        <4>1. pkt[c] \in 1 .. Len(sent) /\ pkt[c] \in 0 .. MaxDatagrams /\ at[c] \in Nat \ {0}
          BY <1>1, <3>1, EntryExists DEF ThreadTypes
        <4>2. pkt[c] \in 1 .. MaxDatagrams
          BY <1>1, <4>1, ConstantTypes DEF ThreadTypes
        <4> QED
          BY <4>1, <4>2 DEF Place, LogEntry
      <3>4. EntryOf(x) = e
        BY <3>2, <3>3 DEF EntryOf, Current, Place
      <3>5. Current(c)' = e \/ at'[c] # at[c] \/ pkt'[c] # pkt[c]
        BY <2>1, <3>1, <3>2, CurrentStays
      <3>6. ASSUME UNCHANGED keys, Handled(c), pc'[c] # "apply",
                   \A sec \in Securities \ keys : books'[sec] = books[sec],
                   \A sec \in Securities, s \in Sides, p \in Prices :
                     /\ Match(e, sec, s, p) => books'[sec][s][p] = e.qty
                     /\ ~Match(e, sec, s, p) => books'[sec][s][p] = books[sec][s][p]
            PROVE  Shown'
        <4>1. log' = Append(log, x)
          BY <3>3, <3>6 DEF Handled, Place
        <4>2. \A sec \in Securities, s \in Sides, p \in Prices : Shows(sec, s, p)'
          BY <1>1, <2>1, <3>4, <3>6, <4>1, ShowsAppend DEF Shown
        <4>3. \A d \in Channels : Reading(d)'
          BY <2>2, <3>6
        <4>4. \A sec \in Securities \ keys : Empty(sec)'
          BY <1>1, <3>6 DEF Shown, Empty
        <4> QED
          BY <3>6, <4>2, <4>3, <4>4 DEF Shown
      <3>7. CASE SkipEntry(c)
        <4>1. UNCHANGED <<keys, books>> /\ Handled(c) /\ pc'[c] # "apply" /\ e.type = "other"
          BY <1>1, <3>2, <3>7 DEF SkipEntry, Goto, bookVars, ThreadTypes
        <4>2. \A sec, s, p : ~Match(e, sec, s, p)
          BY <4>1 DEF Match, IsQuote
        <4> QED
          BY <3>6, <4>1, <4>2
      <3>8. CASE BeginQuote(c)
        <4> DEFINE book == IF e.sec \in keys THEN books[e.sec] ELSE NewBook(Symbol(e))
        <4>1. /\ keys' = keys \cup {e.sec} /\ books' = [books EXCEPT ![e.sec] = book]
              /\ held' = [held EXCEPT ![c] = book] /\ IsQuote(e)
              /\ pc' = [pc EXCEPT ![c] = IF e.price > 0 THEN "apply" ELSE "snap"]
              /\ IF e.price > 0 THEN log' = log ELSE Handled(c)
              /\ UNCHANGED <<pkt, at>>
          BY <3>2, <3>8 DEF BeginQuote, Goto
        <4>2. e.sec \in Securities /\ e.price \in Nat
          BY OrderBookAssumption DEF Entry
        <4>3. \A sec \in Securities, s \in Sides, p \in Prices : books'[sec][s][p] = books[sec][s][p]
          <5> SUFFICES ASSUME NEW s \in Sides, NEW p \in Prices, e.sec \notin keys
                       PROVE  NewBook(Symbol(e))[s][p] = books[e.sec][s][p]
            BY <1>1, <4>1, <4>2
          <5>1. books[e.sec][s][p] = 0
            BY <1>1, <4>2 DEF Shown, Empty
          <5> QED
            BY <5>1 DEF NewBook, EmptySide, Sides
        <4> HIDE DEF book
        <4>4. \A sec \in Securities \ keys' : Empty(sec)'
          BY <1>1, <4>1, <4>3 DEF Shown, Empty
        <4>5. CASE e.price > 0
          <5>1. pc'[c] = "apply" /\ log' = log /\ Current(c)' = e
            BY <1>1, <3>5, <4>1, <4>5 DEF ThreadTypes
          <5>2. held'[c] = books'[e.sec] /\ e.sec \in keys'
            BY <1>1, <4>1, <4>2
          <5>3. Reading(c)'
            BY <4>5, <5>1, <5>2 DEF Reading
          <5>4. \A d \in Channels : Reading(d)'
            BY <2>1, <5>3 DEF Reading
          <5>5. \A sec \in Securities, s \in Sides, p \in Prices : Shows(sec, s, p)'
            BY <1>1, <2>1, <4>3, <5>1, ShowsSame DEF Shown
          <5> QED
            BY <4>4, <5>4, <5>5 DEF Shown
        <4>6. CASE ~(e.price > 0)
          <5>1. pc'[c] = "snap" /\ log' = Append(log, x)
            BY <1>1, <3>3, <4>1, <4>6 DEF ThreadTypes, Handled, Place
          <5>2. \A sec, s, p : ~Match(e, sec, s, p)
            BY <4>6 DEF Match
          <5>3. \A d \in Channels : Reading(d)'
            BY <2>2, <5>1
          <5>4. \A sec \in Securities, s \in Sides, p \in Prices : Shows(sec, s, p)'
            BY <1>1, <2>1, <3>4, <4>3, <5>1, <5>2, ShowsAppend DEF Shown
          <5> QED
            BY <4>4, <5>3, <5>4 DEF Shown
        <4> QED
          BY <4>5, <4>6
      <3>9. CASE BeginTrade(c)
        <4>1. UNCHANGED <<keys, books, pkt, at>> /\ e.type = "trade"
          BY <3>2, <3>9 DEF BeginTrade, bookVars
        <4>2. CASE e.sec \in keys
          <5>1. /\ pc' = [pc EXCEPT ![c] = "apply"] /\ held' = [held EXCEPT ![c] = books[e.sec]]
                /\ log' = log
            BY <3>2, <3>9, <4>2 DEF BeginTrade, Goto
          <5>2. Reading(c)'
            <6>1. Current(c)' = e /\ held'[c] = books'[e.sec] /\ ~IsQuote(e)
              BY <1>1, <3>5, <4>1, <5>1 DEF IsQuote
            <6> QED
              BY <4>1, <4>2, <6>1 DEF Reading
          <5>3. \A d \in Channels : Reading(d)'
            BY <2>1, <5>2 DEF Reading
          <5> QED
            BY <1>2, <2>1, <4>1, <5>1, <5>3 DEF bookVars
        <4>3. CASE e.sec \notin keys
          <5>1. Handled(c) /\ pc'[c] # "apply"
            BY <1>1, <3>2, <3>9, <4>3 DEF BeginTrade, Goto, ThreadTypes
          <5>2. \A sec, s, p : ~Match(e, sec, s, p)
            BY <4>1 DEF Match, IsQuote
          <5> QED
            BY <3>6, <4>1, <5>1, <5>2
        <4> QED
          BY <4>2, <4>3
      <3>10. CASE StoreSide(c)
        <4>1. /\ IsQuote(e) /\ e.sec \in keys /\ e.price > 0 /\ held[c] = books[e.sec]
              /\ UNCHANGED keys /\ Handled(c) /\ pc'[c] # "apply"
          BY <1>1, <3>2, <3>10 DEF StoreSide, Goto, Shown, Reading, ThreadTypes
        <4>2. PICK s \in Sides : s = SideOf(e)
          BY DEF SideOf, Sides
        <4>3. books' = [books EXCEPT ![e.sec][s] = SetLevel(books[e.sec][s], e.price, e.qty, 0)]
          BY <3>2, <3>10, <4>1, <4>2 DEF StoreSide, QuoteAction
        <4>4. books[e.sec][s] \in [Prices -> Nat] /\ e.sec \in Securities /\ e.qty \in Nat
              /\ e.price \in Prices
          BY <1>1 DEF Book, Side, Sides, Entry
        <4>5. /\ books'[e.sec][s] = SetLevel(books[e.sec][s], e.price, e.qty, 0)
              /\ \A t \in Sides \ {s} : books'[e.sec][t] = books[e.sec][t]
              /\ \A sec \in Securities \ {e.sec} : books'[sec] = books[sec]
          <5>1. books[e.sec] \in Book
            BY <1>1, <4>4
          <5> QED
            BY <1>1, <4>3, <4>4, <5>1 DEF Book, Sides
        <4>6. \A p \in Prices : SetLevel(books[e.sec][s], e.price, e.qty, 0)[p]
                                  = IF p = e.price THEN e.qty ELSE books[e.sec][s][p]
          BY <4>4 DEF SetLevel
        <4>7. ASSUME NEW sec \in Securities, NEW t \in Sides, NEW p \in Prices
              PROVE  /\ Match(e, sec, t, p) => books'[sec][t][p] = e.qty
                     /\ ~Match(e, sec, t, p) => books'[sec][t][p] = books[sec][t][p]
          BY <4>1, <4>2, <4>5, <4>6 DEF Match
        <4> QED
          BY <3>6, <4>1, <4>5, <4>7
      <3>11. CASE StoreTrade(c)
        <4>1. /\ e.type = "trade" /\ e.sec \in keys
              /\ UNCHANGED keys /\ Handled(c) /\ pc'[c] # "apply"
          BY <1>1, <3>2, <3>11 DEF StoreTrade, Goto, Shown, Reading, ThreadTypes
        <4>2. PICK volume, value :
                books' = [books EXCEPT ![e.sec] =
                            [@ EXCEPT !.lastPx = e.price, !.lastQty = e.qty,
                                      !.volume = volume + e.qty,
                                      !.value = value + e.price * e.qty]]
          BY <3>2, <3>11 DEF StoreTrade
        <4>3. e.sec \in Securities /\ books[e.sec] \in Book
          BY <1>1 DEF Entry
        <4>4. \A sec \in Securities, t \in Sides : books'[sec][t] = books[sec][t]
          BY <1>1, <4>2, <4>3 DEF Book, Sides
        <4>5. \A sec \in Securities \ keys : books'[sec] = books[sec]
          BY <1>1, <4>1, <4>2, <4>3
        <4>6. \A sec, s, p : ~Match(e, sec, s, p)
          BY <4>1 DEF Match, IsQuote
        <4> QED
          BY <3>6, <4>1, <4>4, <4>5, <4>6
      <3> QED
        BY <2>4, <3>7, <3>8, <3>9, <3>10, <3>11
    <2> QED
      BY <1>4, <2>3, <2>4, ThreadBooks
  <1> QED
    BY <1>3, <1>4 DEF Next

\* With one channel open, the level of a book is the quantity of the last quote
\* handled for it, whatever quotes without a price, trades and other levels came.
THEOREM FeedBookShowsLatestQuote == Spec => []BookShowsLatestQuote
  <1>1. ASSUME LogInv, BookInv, Lone, NEW sec \in Securities, NEW s \in Sides, NEW p \in Prices
        PROVE  books[sec][s][p] = IF QuotesAt(sec, s, p) = {} THEN 0
                                  ELSE LatestQuote(sec, s, p).qty
    <2>1. Shows(sec, s, p)
      BY <1>1, LoneIsOne DEF BookInv, Shown
    <2>2. QuotesAt(sec, s, p) \subseteq Nat
      BY <1>1, QuotesAre DEF LogInv
    <2>3. ASSUME NEW m \in QuotesAt(sec, s, p), \A j \in QuotesAt(sec, s, p) : j <= m
          PROVE  Latest(QuotesAt(sec, s, p)) = m
      BY <2>2, <2>3, LatestIs
    <2> QED
      BY <2>1, <2>3 DEF Shows, Nth, LatestQuote
  <1>2. TypeInv /\ LogInv /\ BookInv => BookShowsLatestQuote
    BY <1>1 DEF BookShowsLatestQuote
  <1> QED
    BY <1>2, TypeInvInit, TypeInvNext, StopInvInit, StopInvNext, WireInit, WireNext,
       LogInit, LogNext, BookInit, BookNext, PTL DEF Spec

-------------------------------------------------------------------------------
\* The frames a thread has still to send, and the messages on the wire.

Frames == {SnapshotFrame(e, book) : e \in Entry, book \in Book}
            \cup {TradeFrame(e) : e \in Entry}

TopicPart(f) == [part |-> "topic", is |-> f.topic]

PayloadPart(f) == [part |-> "payload", is |-> f.payload]

Message(f) == <<TopicPart(f), PayloadPart(f)>>

Messages == {Message(f) : f \in Frames}

\* What a thread sends belongs to the entry it is at and is the book as it is.
Framed(c) ==
  /\ pc[c] \in {"apply", "snap"} => Current(c).type # "other" /\ Current(c).sec \in keys
  /\ pc[c] \in {"topic", "payload"} =>
       \/ /\ Current(c).type # "other" /\ Current(c).sec \in keys
          /\ out[c] = FramesWithBook(Current(c), books[Current(c).sec])
       \/ Current(c).type = "trade" /\ out[c] = <<TradeFrame(Current(c))>>
  /\ pc[c] = "payload" => partial = <<TopicPart(Head(out[c]))>>

FrameInv ==
  /\ DOMAIN out = Channels
  /\ One => published \in Seq(Messages) /\ \A c \in Channels : Framed(c)

LEMMA AppendTwo == ASSUME NEW a, NEW b PROVE Append(<<a>>, b) = <<a, b>>
  <1>1. <<a>> \in Seq({a, b}) /\ Len(<<a>>) = 1 /\ <<a>>[1] = a
    OBVIOUS
  <1>2. Append(<<a>>, b) \in Seq({a, b}) /\ Len(Append(<<a>>, b)) = 2
    BY <1>1
  <1>3. <<a, b>> \in Seq({a, b}) /\ Len(<<a, b>>) = 2
    OBVIOUS
  <1>4. \A i \in 1 .. 2 : Append(<<a>>, b)[i] = <<a, b>>[i]
    BY <1>1
  <1> QED
    BY <1>2, <1>3, <1>4, SeqEqual

LEMMA ShortTuples ==
  ASSUME NEW a, NEW b
  PROVE  /\ Len(<<a>>) = 1 /\ Len(<<a, b>>) = 2 /\ Head(<<a>>) = a /\ Head(<<a, b>>) = a
         /\ Tail(<<a, b>>) = <<b>>
  OBVIOUS

LEMMA FrameTypes ==
  ASSUME NEW e \in Entry, NEW book \in Book
  PROVE  /\ SnapshotFrame(e, book) \in Frames /\ TradeFrame(e) \in Frames
         /\ FramesWithBook(e, book) \in Seq(Frames) /\ FramesWithBook(e, book) # <<>>
         /\ Head(FramesWithBook(e, book)) = SnapshotFrame(e, book)
         /\ IsQuote(e) => FramesWithBook(e, book) = <<SnapshotFrame(e, book)>>
         /\ ~IsQuote(e) => FramesWithBook(e, book) = <<SnapshotFrame(e, book), TradeFrame(e)>>
  <1>1. SnapshotFrame(e, book) \in Frames
    BY DEF Frames
  <1>2. TradeFrame(e) \in Frames
    BY DEF Frames
  <1> QED
    BY <1>1, <1>2 DEF FramesWithBook

\* A thread about to send has a frame to send, at an entry of the feed.
LEMMA FrameReady ==
  ASSUME TypeInv, NEW c \in Channels, Framed(c), pc[c] \in {"topic", "payload"}
  PROVE  \E e \in Entry :
           /\ e = Current(c)
           /\ \/ /\ e.sec \in keys /\ IsQuote(e)
                 /\ out[c] = <<SnapshotFrame(e, books[e.sec])>>
              \/ /\ e.sec \in keys /\ e.type = "trade"
                 /\ out[c] = <<SnapshotFrame(e, books[e.sec]), TradeFrame(e)>>
              \/ e.type = "trade" /\ out[c] = <<TradeFrame(e)>>
  <1>1. InEntry(c)
    BY DEF InEntry
  <1>2. PICK e \in Entry : e = Current(c)
    BY <1>1, EntryExists
  <1>3. e.sec \in keys => books[e.sec] \in Book
    BY DEF TypeInv, BookTypeOK
  <1>4. e.type \in {"bid", "offer", "trade", "other"}
    BY DEF Entry
  <1> QED
    BY <1>2, <1>3, <1>4, FrameTypes DEF Framed, IsQuote

LEMMA FrameInit == Init => FrameInv
  BY DEF Init, FrameInv, Framed

LEMMA MessageShape ==
  ASSUME NEW m \in Messages
  PROVE  \E f \in Frames : m = Message(f) /\ WholeFrame(m) /\ m[Len(m)].is = f.payload
  <1>1. PICK f \in Frames : m = Message(f)
    BY DEF Messages
  <1>2. f.payload.type = f.topic
    BY DEF Frames, SnapshotFrame, TradeFrame
  <1> QED
    BY <1>1, <1>2 DEF Message, WholeFrame, TopicPart, PayloadPart

\* What the socket puts on the wire is the frame of the thread that sends.
LEMMA Sends ==
  ASSUME TypeInv, NEW c \in Channels, Framed(c), SendPayload(c)
  PROVE  \E f \in Frames : f = Head(out[c]) /\ published' = Append(published, Message(f))
  <1>1. pc[c] = "payload"
    BY DEF SendPayload, Goto
  <1>2. PICK e \in Entry :
           \/ e.sec \in keys /\ out[c] = <<SnapshotFrame(e, books[e.sec])>>
           \/ e.sec \in keys /\ out[c] = <<SnapshotFrame(e, books[e.sec]), TradeFrame(e)>>
           \/ out[c] = <<TradeFrame(e)>>
    BY <1>1, FrameReady
  <1>3. e.sec \in keys => books[e.sec] \in Book
    BY DEF TypeInv, BookTypeOK
  <1>4. Head(out[c]) \in Frames
    <2>1. ASSUME e.sec \in keys PROVE SnapshotFrame(e, books[e.sec]) \in Frames
      BY <1>3, <2>1, FrameTypes
    <2>2. TradeFrame(e) \in Frames
      BY DEF Frames
    <2> QED
      BY <1>2, <2>1, <2>2
  <1>5. PICK f \in Frames : f = Head(out[c])
    BY <1>4
  <1>6. published' = Append(published, Append(<<TopicPart(f)>>, PayloadPart(f)))
    BY <1>1, <1>5 DEF SendPayload, Framed, PayloadPart
  <1>7. Append(<<TopicPart(f)>>, PayloadPart(f)) = Message(f)
    BY AppendTwo DEF Message
  <1> QED
    BY <1>5, <1>6, <1>7

\* What the steps of a thread that send nothing leave alone.
LEMMA FrameFrame ==
  ASSUME FrameInv, UNCHANGED <<published, partial, out>>, One' => One,
         \A c \in Channels : pc[c] = "payload" => pc'[c] = "payload",
         \A c \in Channels :
           pc'[c] \in {"apply", "snap", "topic", "payload"} =>
             pc'[c] = pc[c] /\ Current(c)' = Current(c) /\ UNCHANGED bookVars
  PROVE  FrameInv'
  BY DEF FrameInv, Framed, bookVars

LEMMA FrameNext ==
  TypeInv /\ StopInv /\ WireInv /\ FrameInv /\ [Next]_vars => FrameInv'
  <1> SUFFICES ASSUME TypeInv, StopInv, WireInv, FrameInv, [Next]_vars PROVE FrameInv'
    OBVIOUS
  <1>1. ThreadTypes /\ (One' => One) /\ DOMAIN out = Channels
    BY TypesOfThreads, StaysOpened DEF FrameInv
  <1>2. CASE Main \/ Exchange \/ UNCHANGED vars
    <2>1. UNCHANGED <<bookVars, out, published, partial>>
      BY <1>2 DEF Main, StartChannel, Started, StepConnect, Shutdown, StopClose, StopJoin, Exchange,
         Multicast, Repeat, Arrive, Stray, vars, threadVars, bookVars, wireVars
    <2>2. /\ UNCHANGED <<pkt, at>>
          /\ \A c \in Channels : pc'[c] = pc[c] \/ (pc[c] = "none" /\ pc'[c] = "loop")
          /\ \A n \in 1 .. Len(sent) : sent'[n] = sent[n]
      BY <1>2, OutsideSteps
    <2>3. ASSUME NEW c \in Channels, pc'[c] \in {"apply", "snap", "topic", "payload"}
          PROVE  pc'[c] = pc[c] /\ Current(c)' = Current(c)
      <3>1. pc'[c] = pc[c] /\ InEntry(c)
        BY <2>2, <2>3 DEF InEntry
      <3> QED
        BY <2>2, <3>1, CurrentStays
    <2> QED
      BY <1>1, <2>1, <2>2, <2>3, FrameFrame
  <1>3. ASSUME NEW c \in Channels, Thread(c) PROVE FrameInv'
    <2>1. UNCHANGED sent /\ \A d \in Channels \ {c} : pc'[d] = pc[d]
      BY <1>3, ThreadSteps
    <2>2. One => \A d \in Channels \ {c} : pc[d] = "none"
      BY <1>3, OthersRest
    <2>3. ASSUME UNCHANGED <<published, out>>, One => Framed(c)' PROVE FrameInv'
      BY <1>1, <2>1, <2>2, <2>3 DEF FrameInv, Framed
    <2>4. CASE LoopTest(c) \/ RecvFails(c) \/ CheckSeq(c) \/ StoreSeq(c)
      BY <1>1, <2>3, <2>4 DEF LoopTest, RecvFails, CheckSeq, StoreSeq, Goto, ThreadTypes,
         wireVars, Framed
    <2>5. CASE Recv(c) \/ SkipEntry(c) \/ EndPacket(c)
      BY <1>1, <2>3, <2>5 DEF Recv, AfterRecv, SkipEntry, EndPacket, Goto, ThreadTypes,
         wireVars, Framed
    <2>6. CASE BeginQuote(c) \/ StoreSide(c) \/ StoreTrade(c) \/ BeginTrade(c)
               \/ TakeSnapshot(c) \/ SendTopic(c)
      <3>1. MoreEntries(c) \/ InEntry(c)
        BY <2>6 DEF BeginQuote, BeginTrade, StoreSide, StoreTrade, TakeSnapshot, SendTopic,
           Goto, InEntry
      <3>2. PICK e1 \in Entry : e1 = Current(c) /\ e1 = Current(c)'
        <4>1. UNCHANGED <<pkt, at>>
          BY <2>6 DEF BeginQuote, BeginTrade, StoreSide, StoreTrade, TakeSnapshot, SendTopic
        <4> QED
          BY <2>1, <3>1, <4>1, EntryExists, CurrentStays
      <3>3. CASE BeginQuote(c)
        <4>1. /\ pc'[c] \in {"apply", "snap"} /\ e1.sec \in keys' /\ e1.type # "other"
              /\ UNCHANGED <<published, out>>
          BY <1>1, <3>2, <3>3 DEF BeginQuote, Goto, ThreadTypes, IsQuote, wireVars
        <4> QED
          BY <2>3, <3>2, <4>1 DEF Framed
      <3>4. CASE StoreSide(c) \/ StoreTrade(c)
        <4>1. pc[c] = "apply" /\ pc'[c] = "snap" /\ UNCHANGED <<published, out, keys>>
          BY <1>1, <3>4 DEF StoreSide, StoreTrade, Goto, ThreadTypes, wireVars
        <4> QED
          BY <2>3, <3>2, <4>1 DEF FrameInv, Framed
      <3>5. CASE BeginTrade(c)
        <4>1. e1.type = "trade" /\ UNCHANGED <<published, keys>>
          BY <3>2, <3>5 DEF BeginTrade, wireVars, bookVars
        <4>2. CASE e1.sec \in keys
          <5>1. pc'[c] = "apply" /\ UNCHANGED out
            BY <1>1, <3>2, <3>5, <4>2 DEF BeginTrade, Goto, ThreadTypes
          <5> QED
            BY <2>3, <3>2, <4>1, <4>2, <5>1 DEF Framed
        <4>3. CASE e1.sec \notin keys
          <5>1. pc'[c] = "topic" /\ out' = [out EXCEPT ![c] = <<TradeFrame(e1)>>]
            BY <1>1, <3>2, <3>5, <4>3 DEF BeginTrade, Goto, ThreadTypes, FramesWithoutBook
          <5>2. Framed(c)'
            BY <1>1, <3>2, <4>1, <5>1 DEF Framed
          <5> QED
            BY <1>1, <2>1, <2>2, <4>1, <5>1, <5>2 DEF FrameInv, Framed
        <4> QED
          BY <4>2, <4>3
      <3>6. CASE TakeSnapshot(c)
        <4>1. /\ pc[c] = "snap" /\ pc'[c] = "topic" /\ UNCHANGED <<published, bookVars>>
              /\ out' = [out EXCEPT ![c] = FramesWithBook(e1, books[e1.sec])]
          BY <1>1, <3>2, <3>6 DEF TakeSnapshot, Goto, ThreadTypes, wireVars
        <4>2. One => Framed(c)'
          BY <1>1, <3>2, <4>1 DEF FrameInv, Framed, bookVars
        <4> QED
          BY <1>1, <2>1, <2>2, <4>1, <4>2 DEF FrameInv, Framed
      <3>7. CASE SendTopic(c)
        <4>1. /\ pc[c] = "topic" /\ pc'[c] = "payload" /\ UNCHANGED <<published, bookVars, out>>
              /\ partial' = Append(partial, TopicPart(Head(out[c])))
          BY <1>1, <3>7 DEF SendTopic, Goto, ThreadTypes, TopicPart
        <4>2. One => partial = <<>>
          BY <2>2, <4>1 DEF StopInv
        <4>3. One => partial' = <<TopicPart(Head(out[c]))>>
          BY <4>1, <4>2
        <4>4. One => Framed(c)'
          BY <3>2, <4>1, <4>3 DEF FrameInv, Framed, bookVars
        <4> QED
          BY <2>3, <4>1, <4>4
      <3> QED
        BY <2>6, <3>3, <3>4, <3>5, <3>6, <3>7
    <2>7. CASE SendPayload(c)
      <3>1. /\ pc[c] = "payload" /\ InEntry(c) /\ UNCHANGED bookVars
            /\ out' = [out EXCEPT ![c] = Tail(out[c])]
            /\ pc' = [pc EXCEPT ![c] = IF Len(out[c]) > 1 THEN "topic" ELSE "entry"]
            /\ pkt' = pkt /\ (Len(out[c]) > 1 => at' = at)
        BY <1>1, <2>7 DEF SendPayload, Goto, ThreadTypes, InEntry
      <3>2. ASSUME One
            PROVE  published' \in Seq(Messages)
        <4>1. Framed(c) /\ published \in Seq(Messages)
          BY <3>2 DEF FrameInv
        <4>2. PICK f \in Frames : published' = Append(published, Message(f))
          BY <2>7, <4>1, Sends
        <4>3. Message(f) \in Messages
          BY DEF Messages
        <4> QED
          BY <4>1, <4>2, <4>3
      <3>3. ASSUME One
            PROVE  Framed(c)'
        <4>1. CASE Len(out[c]) > 1
          <5>1. Framed(c)
            BY <3>3 DEF FrameInv
          <5>2. PICK e \in Entry :
                  /\ e = Current(c)
                  /\ \/ out[c] = <<SnapshotFrame(e, books[e.sec])>>
                     \/ /\ e.sec \in keys /\ e.type = "trade"
                        /\ out[c] = <<SnapshotFrame(e, books[e.sec]), TradeFrame(e)>>
                     \/ out[c] = <<TradeFrame(e)>>
            BY <3>1, <5>1, FrameReady
          <5>3. e.type = "trade" /\ Tail(out[c]) = <<TradeFrame(e)>>
            <6>1. ASSUME NEW f, out[c] = <<f>> PROVE FALSE
              <7>1. Len(<<f>>) = 1
                BY ShortTuples
              <7> QED
                BY <4>1, <6>1, <7>1
            <6>2. out[c] = <<SnapshotFrame(e, books[e.sec]), TradeFrame(e)>> /\ e.type = "trade"
              BY <5>2, <6>1
            <6> QED
              BY <6>2, ShortTuples
          <5>4. pc'[c] = "topic" /\ out'[c] = <<TradeFrame(e)>>
            BY <1>1, <3>1, <4>1, <5>3 DEF ThreadTypes
          <5>5. Current(c)' = e
            BY <2>1, <3>1, <4>1, <5>2, CurrentStays
          <5> QED
            BY <5>3, <5>4, <5>5 DEF Framed
        <4>2. CASE ~(Len(out[c]) > 1)
          BY <1>1, <3>1, <4>2 DEF Framed, ThreadTypes
        <4> QED
          BY <4>1, <4>2
      <3>4. \A d \in Channels \ {c} : One => Framed(d)'
        BY <2>1, <2>2 DEF Framed
      <3> QED
        BY <1>1, <3>1, <3>2, <3>3, <3>4 DEF FrameInv
    <2> QED
      BY <1>3, <2>4, <2>5, <2>6, <2>7 DEF Thread, Parse
  <1> QED
    BY <1>2, <1>3 DEF Next

-------------------------------------------------------------------------------
\* The snapshots on the wire.

Payload(k) == published[k][Len(published[k])].is

SnapshotFor(p, sec) == p.type = "snapshot" /\ p.sec = sec

\* The last snapshot on the wire is the book as it is.
Seen(sec) ==
  \E m \in SnapshotsOf(sec) :
    /\ \A j \in SnapshotsOf(sec) : j <= m
    /\ Payload(m).body = SnapshotOf(books[sec])

\* A thread is on its way to send the book as it is, or to change it.
Coming(c, sec) ==
  /\ Current(c).sec = sec
  /\ \/ pc[c] \in {"apply", "snap"}
     \/ /\ pc[c] \in {"topic", "payload"}
        /\ Head(out[c]) = SnapshotFrame(Current(c), books[sec])

SnapInv == One => \A sec \in keys : Seen(sec) \/ \E c \in Channels : Coming(c, sec)

LEMMA WireGrows ==
  ASSUME published \in Seq(Messages), NEW f \in Frames,
         published' = Append(published, Message(f))
  PROVE  /\ DOMAIN published' = DOMAIN published \cup {Len(published) + 1}
         /\ Len(published) + 1 \in Nat
         /\ \A k \in DOMAIN published :
              Payload(k)' = Payload(k) /\ k \in Nat /\ k < Len(published) + 1
         /\ \A k : k = Len(published) + 1 => Payload(k)' = f.payload
  <1>1. PICK m \in Messages : m = Message(f)
    BY DEF Messages
  <1>2. m[Len(m)].is = f.payload
    BY <1>1, ShortTuples DEF Message, PayloadPart
  <1>3. published' = Append(published, m)
    BY <1>1
  <1>4. /\ Len(published) \in Nat /\ DOMAIN published = 1 .. Len(published)
        /\ DOMAIN published' = 1 .. Len(published) + 1
        /\ \A k \in DOMAIN published : published'[k] = published[k]
        /\ published'[Len(published) + 1] = m
    BY <1>3
  <1> QED
    BY <1>2, <1>4 DEF Payload

LEMMA SnapshotsAre ==
  ASSUME NEW sec
  PROVE  /\ SnapshotsOf(sec) = {k \in DOMAIN published : SnapshotFor(Payload(k), sec)}
         /\ SnapshotsOf(sec)' = {k \in DOMAIN published' : SnapshotFor(Payload(k)', sec)}
  BY DEF SnapshotsOf, SnapshotFor, Payload

LEMMA SeenSame ==
  ASSUME UNCHANGED published, NEW sec, Seen(sec), books'[sec] = books[sec]
  PROVE  Seen(sec)'
  BY DEF Seen, SnapshotsOf, Payload

LEMMA SeenKept ==
  ASSUME published \in Seq(Messages), NEW f \in Frames, NEW sec, Seen(sec),
         published' = Append(published, Message(f)), ~SnapshotFor(f.payload, sec),
         books'[sec] = books[sec]
  PROVE  Seen(sec)'
  <1>1. SnapshotsOf(sec)' = SnapshotsOf(sec)
    <2>1. /\ \A k \in DOMAIN published' : k \in DOMAIN published \/ ~SnapshotFor(Payload(k)', sec)
          /\ \A k \in DOMAIN published : k \in DOMAIN published' /\ Payload(k)' = Payload(k)
      BY WireGrows
    <2>2. \A k : k \in SnapshotsOf(sec) <=> k \in DOMAIN published /\ SnapshotFor(Payload(k), sec)
      BY SnapshotsAre
    <2>3. \A k : k \in SnapshotsOf(sec)' <=> k \in DOMAIN published' /\ SnapshotFor(Payload(k)', sec)
      BY SnapshotsAre
    <2> QED
      BY <2>1, <2>2, <2>3
  <1>2. \A m \in SnapshotsOf(sec) : Payload(m)' = Payload(m)
    BY WireGrows, SnapshotsAre
  <1> QED
    BY <1>1, <1>2 DEF Seen

LEMMA SeenNew ==
  ASSUME published \in Seq(Messages), NEW f \in Frames, NEW sec,
         published' = Append(published, Message(f)), SnapshotFor(f.payload, sec),
         f.payload.body = SnapshotOf(books'[sec])
  PROVE  Seen(sec)'
  <1>1. PICK last \in Nat : last = Len(published) + 1
    BY WireGrows
  <1>2. last \in SnapshotsOf(sec)' /\ Payload(last)' = f.payload
    BY <1>1, WireGrows, SnapshotsAre
  <1>3. \A j \in SnapshotsOf(sec)' : j <= last
    BY <1>1, WireGrows, SnapshotsAre
  <1> QED
    BY <1>2, <1>3 DEF Seen

LEMMA SnapInit == Init => SnapInv
  BY DEF Init, SnapInv

LEMMA SnapNext ==
  TypeInv /\ StopInv /\ WireInv /\ FrameInv /\ SnapInv /\ [Next]_vars => SnapInv'
  <1> SUFFICES ASSUME TypeInv, StopInv, WireInv, FrameInv, SnapInv, [Next]_vars, One',
                      NEW sec \in keys'
               PROVE  Seen(sec)' \/ \E c \in Channels : Coming(c, sec)'
    BY DEF SnapInv
  <1>1. /\ ThreadTypes /\ One /\ DOMAIN out = Channels /\ published \in Seq(Messages)
        /\ books \in [Securities -> Book] /\ keys \subseteq Securities
        /\ \A c \in Channels : Framed(c)
    BY TypesOfThreads, StaysOpened DEF FrameInv, TypeInv, BookTypeOK
  <1>2. CASE Main \/ Exchange \/ UNCHANGED vars
    <2>1. UNCHANGED <<bookVars, out, published>>
      BY <1>2 DEF Main, StartChannel, Started, StepConnect, Shutdown, StopClose, StopJoin, Exchange,
         Multicast, Repeat, Arrive, Stray, vars, threadVars, bookVars, wireVars
    <2>2. /\ UNCHANGED <<pkt, at>>
          /\ \A c \in Channels : pc'[c] = pc[c] \/ (pc[c] = "none" /\ pc'[c] = "loop")
          /\ \A n \in 1 .. Len(sent) : sent'[n] = sent[n]
      BY <1>2, OutsideSteps
    <2>3. CASE Seen(sec)
      BY <2>1, <2>3, SeenSame DEF bookVars
    <2>4. ASSUME NEW c \in Channels, Coming(c, sec) PROVE Coming(c, sec)'
      <3>1. pc'[c] = pc[c] /\ InEntry(c)
        BY <2>2, <2>4 DEF Coming, InEntry
      <3>2. Current(c)' = Current(c)
        BY <2>2, <3>1, CurrentStays
      <3> QED
        BY <2>1, <2>4, <3>1, <3>2 DEF Coming, bookVars
    <2> QED
      BY <1>1, <2>1, <2>3, <2>4 DEF SnapInv, bookVars
  <1>3. ASSUME NEW c \in Channels, Thread(c)
        PROVE  Seen(sec)' \/ Coming(c, sec)'
    <2>1. UNCHANGED sent /\ \A d \in Channels \ {c} : pc[d] = "none"
      BY <1>1, <1>3, ThreadSteps, OthersRest
    <2>2. sec \in keys => Seen(sec) \/ Coming(c, sec)
      BY <1>1, <2>1 DEF SnapInv, Coming
    <2>3. ASSUME ~Coming(c, sec), sec \in keys, UNCHANGED published, books'[sec] = books[sec]
          PROVE  Seen(sec)'
      BY <2>2, <2>3, SeenSame
    <2>4. CASE LoopTest(c) \/ RecvFails(c) \/ CheckSeq(c) \/ StoreSeq(c)
      BY <1>1, <2>3, <2>4 DEF LoopTest, RecvFails, CheckSeq, StoreSeq, Goto, Coming,
         wireVars, bookVars
    <2>5. CASE Recv(c) \/ SkipEntry(c) \/ EndPacket(c)
      BY <1>1, <2>3, <2>5 DEF Recv, SkipEntry, EndPacket, MoreEntries, Goto, Coming,
         wireVars, bookVars
    <2>6. CASE BeginQuote(c) \/ StoreSide(c) \/ StoreTrade(c) \/ BeginTrade(c)
               \/ TakeSnapshot(c) \/ SendTopic(c)
      <3>1. MoreEntries(c) \/ InEntry(c)
        BY <2>6 DEF BeginQuote, BeginTrade, StoreSide, StoreTrade, TakeSnapshot, SendTopic,
           Goto, InEntry
      <3>2. PICK e \in Entry : e = Current(c) /\ e = Current(c)'
        <4>1. UNCHANGED <<pkt, at>>
          BY <2>6 DEF BeginQuote, BeginTrade, StoreSide, StoreTrade, TakeSnapshot, SendTopic
        <4> QED
          BY <2>1, <3>1, <4>1, EntryExists, CurrentStays
      <3>3. e.sec \in Securities
        BY DEF Entry
      <3>4. CASE BeginQuote(c)
        <4>1. /\ pc[c] = "entry" /\ pc'[c] \in {"apply", "snap"} /\ keys' = keys \cup {e.sec}
              /\ UNCHANGED published /\ \A s \in Securities \ {e.sec} : books'[s] = books[s]
          BY <1>1, <3>2, <3>3, <3>4 DEF BeginQuote, Goto, ThreadTypes, wireVars
        <4>2. CASE sec = e.sec
          BY <3>2, <4>1, <4>2 DEF Coming
        <4>3. CASE sec # e.sec
          BY <1>1, <2>3, <4>1, <4>3 DEF Coming
        <4> QED
          BY <4>2, <4>3
      <3>5. CASE StoreSide(c) \/ StoreTrade(c)
        <4>1. /\ pc[c] = "apply" /\ pc'[c] = "snap" /\ keys' = keys
              /\ UNCHANGED published /\ \A s \in Securities \ {e.sec} : books'[s] = books[s]
          BY <1>1, <3>2, <3>3, <3>5 DEF StoreSide, StoreTrade, Goto, ThreadTypes, wireVars
        <4>2. CASE sec = e.sec
          BY <3>2, <4>1, <4>2 DEF Coming
        <4>3. CASE sec # e.sec
          BY <1>1, <2>3, <3>2, <4>1, <4>3 DEF Coming
        <4> QED
          BY <4>2, <4>3
      <3>6. CASE BeginTrade(c)
        <4>1. pc[c] = "entry" /\ UNCHANGED <<published, bookVars>>
          BY <3>6 DEF BeginTrade, Goto, wireVars
        <4> QED
          BY <2>3, <4>1 DEF Coming, bookVars
      <3>7. CASE TakeSnapshot(c)
        <4>1. /\ pc[c] = "snap" /\ pc'[c] = "topic" /\ UNCHANGED <<published, bookVars>>
              /\ out'[c] = FramesWithBook(e, books[e.sec])
          BY <1>1, <3>2, <3>7 DEF TakeSnapshot, Goto, ThreadTypes, wireVars
        <4>2. CASE sec = e.sec
          <5>1. Head(out'[c]) = SnapshotFrame(e, books'[sec])
            BY <1>1, <3>3, <4>1, <4>2, FrameTypes DEF bookVars
          <5> QED
            BY <3>2, <4>1, <4>2, <5>1 DEF Coming
        <4>3. CASE sec # e.sec
          BY <2>3, <3>2, <4>1, <4>3 DEF Coming, bookVars
        <4> QED
          BY <4>2, <4>3
      <3>8. CASE SendTopic(c)
        <4>1. /\ pc[c] = "topic" /\ pc'[c] = "payload" /\ UNCHANGED <<published, bookVars, out>>
          BY <1>1, <3>8 DEF SendTopic, Goto, ThreadTypes
        <4>2. CASE Coming(c, sec)
          BY <3>2, <4>1, <4>2 DEF Coming, bookVars
        <4>3. CASE ~Coming(c, sec)
          BY <2>3, <4>1, <4>3 DEF bookVars
        <4> QED
          BY <4>2, <4>3
      <3> QED
        BY <2>6, <3>4, <3>5, <3>6, <3>7, <3>8
    <2>7. CASE SendPayload(c)
      <3>1. pc[c] = "payload" /\ UNCHANGED bookVars
        BY <2>7 DEF SendPayload, Goto
      <3>2. PICK f \in Frames : f = Head(out[c]) /\ published' = Append(published, Message(f))
        BY <1>1, <2>7, Sends
      <3>3. PICK e \in Entry :
              /\ e = Current(c)
              /\ (e.sec \in keys /\ f = SnapshotFrame(e, books[e.sec])) \/ f = TradeFrame(e)
        <4>1. PICK e \in Entry :
                /\ e = Current(c)
                /\ \/ e.sec \in keys /\ out[c] = <<SnapshotFrame(e, books[e.sec])>>
                   \/ /\ e.sec \in keys
                      /\ out[c] = <<SnapshotFrame(e, books[e.sec]), TradeFrame(e)>>
                   \/ out[c] = <<TradeFrame(e)>>
          BY <1>1, <3>1, FrameReady
        <4>2. \A g, h : (out[c] = <<g>> \/ out[c] = <<g, h>>) => f = g
          BY <3>2, ShortTuples
        <4> QED
          BY <4>1, <4>2
      <3>4. CASE f = SnapshotFrame(e, books[e.sec])
        <4>1. CASE sec = e.sec
          <5>1. SnapshotFor(f.payload, sec) /\ f.payload.body = SnapshotOf(books'[sec])
            BY <3>1, <3>4, <4>1 DEF SnapshotFor, SnapshotFrame, bookVars
          <5> QED
            BY <1>1, <3>2, <5>1, SeenNew
        <4>2. CASE sec # e.sec
          <5>1. ~SnapshotFor(f.payload, sec)
            BY <3>4, <4>2 DEF SnapshotFor, SnapshotFrame
          <5>2. Seen(sec) /\ books'[sec] = books[sec]
            BY <2>2, <3>1, <3>3, <4>2 DEF Coming, bookVars
          <5> QED
            BY <1>1, <3>2, <5>1, <5>2, SeenKept
        <4> QED
          BY <4>1, <4>2
      <3>5. CASE f = TradeFrame(e)
        <4>1. ~SnapshotFor(f.payload, sec) /\ f.topic = "trade"
          BY <3>5 DEF SnapshotFor, TradeFrame
        <4>2. \A b : SnapshotFrame(e, b).topic = "snapshot"
          BY DEF SnapshotFrame
        <4>3. ~Coming(c, sec)
          BY <3>1, <3>2, <3>3, <4>1, <4>2 DEF Coming
        <4>4. Seen(sec) /\ books'[sec] = books[sec]
          BY <2>2, <3>1, <4>3 DEF bookVars
        <4> QED
          BY <1>1, <3>2, <4>1, <4>4, SeenKept
      <3> QED
        BY <3>3, <3>4, <3>5
    <2> QED
      BY <1>3, <2>4, <2>5, <2>6, <2>7 DEF Thread, Parse
  <1> QED
    BY <1>2, <1>3 DEF Next

\* With one channel open, between packets the last snapshot on the wire is the book
\* as it is, for every security that has one.
THEOREM FeedSnapshotIsBook == Spec => []SnapshotIsBook
  <1>1. ASSUME FrameInv, SnapInv, Lone, \A c \in Channels : ~Busy(c), NEW sec \in keys
        PROVE  /\ SnapshotsOf(sec) # {}
               /\ LET m == published[Latest(SnapshotsOf(sec))]
                  IN  m[Len(m)].is.body = SnapshotOf(books[sec])
    <2>1. One
      BY <1>1, LoneIsOne
    <2>2. Seen(sec)
      BY <1>1, <2>1 DEF SnapInv, Coming, Busy
    <2>3. SnapshotsOf(sec) \subseteq Nat
      BY <1>1, <2>1, SnapshotsAre DEF FrameInv
    <2>4. ASSUME NEW m \in SnapshotsOf(sec), \A j \in SnapshotsOf(sec) : j <= m
          PROVE  Latest(SnapshotsOf(sec)) = m
      BY <2>3, <2>4, LatestIs
    <2> QED
      BY <2>2, <2>4 DEF Seen, Payload
  <1>2. FrameInv /\ SnapInv => SnapshotIsBook
    BY <1>1 DEF SnapshotIsBook
  <1> QED
    BY <1>2, TypeInvInit, TypeInvNext, StopInvInit, StopInvNext, WireInit, WireNext,
       FrameInit, FrameNext, SnapInit, SnapNext, PTL DEF Spec

-------------------------------------------------------------------------------
\* The trades on the wire are the trades of the feed.

LEMMA RankBound ==
  ASSUME NEW S \in SUBSET Nat, IsFiniteSet(S), NEW k \in S
  PROVE  Cardinality(S) \in Nat /\ Rank(S, k) \in Nat /\ Rank(S, k) <= Cardinality(S)
  <1>1. {j \in S : j <= k} \subseteq S
    OBVIOUS
  <1>2. IsFiniteSet({j \in S : j <= k})
    BY <1>1, FS_Subset
  <1> QED
    BY <1>1, <1>2, FS_Subset, FS_CardinalityType DEF Rank

LEMMA RankAppend ==
  ASSUME NEW S \in SUBSET Nat, IsFiniteSet(S), NEW m \in Nat, \A k \in S : k < m
  PROVE  /\ IsFiniteSet(S \cup {m}) /\ Cardinality(S \cup {m}) = Cardinality(S) + 1
         /\ \A k \in S : Rank(S \cup {m}, k) = Rank(S, k)
         /\ Rank(S \cup {m}, m) = Cardinality(S) + 1
  <1>1. m \notin S
    OBVIOUS
  <1>2. IsFiniteSet(S \cup {m}) /\ Cardinality(S \cup {m}) = Cardinality(S) + 1
    BY <1>1, FS_AddElement
  <1>3. \A k \in S : {j \in S \cup {m} : j <= k} = {j \in S : j <= k}
    OBVIOUS
  <1>4. {j \in S \cup {m} : j <= m} = S \cup {m}
    <2>1. \A j \in S \cup {m} : j <= m
      OBVIOUS
    <2> QED
      BY <2>1
  <1> QED
    BY <1>2, <1>3, <1>4 DEF Rank

\* Only the last element of a set has its last rank.
LEMMA RankLast ==
  ASSUME NEW S \in SUBSET Nat, IsFiniteSet(S), NEW m \in S, \A k \in S : k <= m,
         NEW j \in S, j # m
  PROVE  Rank(S, j) < Cardinality(S)
  <1>1. {i \in S : i <= j} \subseteq S \ {m}
    OBVIOUS
  <1>2. IsFiniteSet(S \ {m}) /\ Cardinality(S \ {m}) = Cardinality(S) - 1
    BY FS_RemoveElement
  <1>3. Cardinality({i \in S : i <= j}) <= Cardinality(S \ {m})
    BY <1>1, <1>2, FS_Subset
  <1>4. Cardinality({i \in S : i <= j}) \in Nat /\ Cardinality(S) \in Nat
    BY <1>1, <1>2, FS_Subset, FS_CardinalityType
  <1> QED
    BY <1>2, <1>3, <1>4 DEF Rank

\* A thread owes the wire a trade from the moment it has handled it.
Owes(c) == pc[c] \in {"snap", "topic", "payload"} /\ Current(c).type = "trade"

Tally ==
  /\ (\E c \in Channels : Owes(c)) => Cardinality(TradesIn) = Cardinality(TradesOut) + 1
  /\ (\A c \in Channels : ~Owes(c)) => Cardinality(TradesIn) = Cardinality(TradesOut)

Told ==
  \A k \in TradesOut, j \in TradesIn :
    Rank(TradesOut, k) = Rank(TradesIn, j) => Payload(k) = TradeFrame(Nth(j)).payload

TapeInv == One => Tally /\ Told

LEMMA TradesAre ==
  /\ TradesOut = {k \in DOMAIN published : Payload(k).type = "trade"}
  /\ TradesOut' = {k \in DOMAIN published' : Payload(k)'.type = "trade"}
  /\ TradesIn = {k \in DOMAIN log : Nth(k).type = "trade"}
  /\ TradesIn' = {k \in DOMAIN log' : Nth(k)'.type = "trade"}
  BY DEF TradesOut, TradesIn, Payload, Nth

LEMMA TradesFinite ==
  ASSUME LogInv, published \in Seq(Messages)
  PROVE  /\ TradesOut \in SUBSET Nat /\ IsFiniteSet(TradesOut) /\ Cardinality(TradesOut) \in Nat
         /\ TradesIn \in SUBSET Nat /\ IsFiniteSet(TradesIn) /\ Cardinality(TradesIn) \in Nat
  <1>1. TradesOut \subseteq 1 .. Len(published) /\ Len(published) \in Nat
    BY TradesAre
  <1>2. TradesIn \subseteq 1 .. Len(log) /\ Len(log) \in Nat
    BY TradesAre DEF LogInv
  <1>3. IsFiniteSet(1 .. Len(published)) /\ IsFiniteSet(1 .. Len(log))
    BY <1>1, <1>2, FS_Interval
  <1>4. IsFiniteSet(TradesOut) /\ IsFiniteSet(TradesIn)
    BY <1>1, <1>2, <1>3, FS_Subset
  <1> QED
    BY <1>1, <1>2, <1>4, FS_CardinalityType

\* Nothing is sent and nothing handled.
LEMMA TapeSame ==
  ASSUME LogInv, UNCHANGED <<log, published>>, \A n \in 1 .. Len(sent) : sent'[n] = sent[n],
         Tally, Told, \A c \in Channels : (Owes(c)' <=> Owes(c))
  PROVE  Tally' /\ Told'
  <1>1. \A k \in DOMAIN log : Nth(k)' = Nth(k)
    BY LogStays
  <1>2. TradesIn' = TradesIn /\ TradesOut' = TradesOut
    BY <1>1, TradesAre DEF TradesOut
  <1>3. \A k \in TradesOut, j \in TradesIn : Payload(k)' = Payload(k) /\ Nth(j)' = Nth(j)
    BY <1>1, TradesAre DEF Payload
  <1>4. Tally'
    BY <1>2 DEF Tally
  <1>5. Told'
    BY <1>2, <1>3 DEF Told, Rank
  <1> QED
    BY <1>4, <1>5

\* An entry is handled: a trade is owed from now on.
LEMMA TapeHandles ==
  ASSUME LogInv, published \in Seq(Messages), UNCHANGED <<sent, published>>,
         NEW x \in LogEntry, log' = Append(log, x),
         Tally, Told, \A c \in Channels : ~Owes(c),
         EntryOf(x).type = "trade" => \E c \in Channels : Owes(c)',
         EntryOf(x).type # "trade" => \A c \in Channels : ~Owes(c)'
  PROVE  Tally' /\ Told'
  <1>1. /\ DOMAIN log' = DOMAIN log \cup {Len(log) + 1}
        /\ Len(log) + 1 \in Nat
        /\ \A k \in DOMAIN log : Nth(k)' = Nth(k) /\ k \in Nat /\ k < Len(log) + 1
        /\ \A k : k = Len(log) + 1 => Nth(k)' = EntryOf(x)
    BY LogGrows
  <1>2. PICK last \in Nat : last = Len(log) + 1
    BY <1>1
  <1>3. /\ TradesOut \in SUBSET Nat /\ IsFiniteSet(TradesOut) /\ Cardinality(TradesOut) \in Nat
        /\ TradesIn \in SUBSET Nat /\ IsFiniteSet(TradesIn) /\ Cardinality(TradesIn) \in Nat
    BY TradesFinite
  <1>4. TradesOut' = TradesOut /\ \A k \in TradesOut : Payload(k)' = Payload(k)
    BY DEF TradesOut, Payload
  <1>5. Cardinality(TradesIn) = Cardinality(TradesOut)
    BY DEF Tally
  <1>6. \A k \in TradesIn : k < last /\ Nth(k)' = Nth(k)
    BY <1>1, <1>2, TradesAre
  <1>7. CASE EntryOf(x).type = "trade"
    <2>1. TradesIn' = TradesIn \cup {last}
      <3>1. \A k : k \in TradesIn' <=> k \in DOMAIN log' /\ Nth(k)'.type = "trade"
        BY TradesAre
      <3>2. \A k : k \in TradesIn <=> k \in DOMAIN log /\ Nth(k).type = "trade"
        BY TradesAre
      <3> QED
        BY <1>1, <1>2, <1>7, <3>1, <3>2
    <2>2. /\ Cardinality(TradesIn \cup {last}) = Cardinality(TradesIn) + 1
          /\ \A k \in TradesIn : Rank(TradesIn \cup {last}, k) = Rank(TradesIn, k)
          /\ Rank(TradesIn \cup {last}, last) = Cardinality(TradesIn) + 1
      BY <1>3, <1>6, RankAppend
    <2>3. Tally'
      BY <1>4, <1>5, <1>7, <2>1, <2>2 DEF Tally
    <2>4. ASSUME NEW k \in TradesOut, NEW j \in TradesIn \cup {last},
                 Rank(TradesOut, k) = Rank(TradesIn \cup {last}, j)
          PROVE  Payload(k) = TradeFrame(Nth(j)').payload
      <3>1. CASE j = last
        <4>1. Rank(TradesOut, k) \in Nat /\ Rank(TradesOut, k) <= Cardinality(TradesOut)
          BY <1>3, RankBound
        <4> QED
          BY <1>3, <1>5, <2>2, <2>4, <3>1, <4>1
      <3>2. CASE j \in TradesIn
        BY <1>6, <2>2, <2>4, <3>2 DEF Told
      <3> QED
        BY <3>1, <3>2
    <2>5. Told'
      BY <1>4, <2>1, <2>4 DEF Told, Rank
    <2> QED
      BY <2>3, <2>5
  <1>8. CASE EntryOf(x).type # "trade"
    <2>1. TradesIn' = TradesIn
      <3>1. \A k : k \in TradesIn' <=> k \in DOMAIN log' /\ Nth(k)'.type = "trade"
        BY TradesAre
      <3>2. \A k : k \in TradesIn <=> k \in DOMAIN log /\ Nth(k).type = "trade"
        BY TradesAre
      <3> QED
        BY <1>1, <1>8, <3>1, <3>2
    <2>2. Tally'
      BY <1>4, <1>5, <1>8, <2>1 DEF Tally
    <2>3. Told'
      BY <1>4, <1>6, <2>1 DEF Told, Rank
    <2> QED
      BY <2>2, <2>3
  <1> QED
    BY <1>7, <1>8

\* A message goes out: a snapshot changes nothing, a trade is the one owed, the last
\* one handled.
LEMMA TapeSends ==
  ASSUME LogInv, published \in Seq(Messages), UNCHANGED <<sent, log>>,
         NEW f \in Frames, published' = Append(published, Message(f)), Tally, Told,
         \/ f.payload.type # "trade" /\ \A c \in Channels : (Owes(c)' <=> Owes(c))
         \/ /\ f.payload.type = "trade" /\ log # <<>>
            /\ Nth(Len(log)).type = "trade" /\ f.payload = TradeFrame(Nth(Len(log))).payload
            /\ (\E c \in Channels : Owes(c)) /\ (\A c \in Channels : ~Owes(c)')
  PROVE  Tally' /\ Told'
  <1>1. /\ DOMAIN published' = DOMAIN published \cup {Len(published) + 1}
        /\ Len(published) + 1 \in Nat
        /\ \A k \in DOMAIN published :
             Payload(k)' = Payload(k) /\ k \in Nat /\ k < Len(published) + 1
        /\ \A k : k = Len(published) + 1 => Payload(k)' = f.payload
    BY WireGrows
  <1>2. PICK last \in Nat : last = Len(published) + 1
    BY <1>1
  <1>3. /\ TradesOut \in SUBSET Nat /\ IsFiniteSet(TradesOut) /\ Cardinality(TradesOut) \in Nat
        /\ TradesIn \in SUBSET Nat /\ IsFiniteSet(TradesIn) /\ Cardinality(TradesIn) \in Nat
    BY TradesFinite
  <1>4. TradesIn' = TradesIn /\ \A j \in TradesIn : Nth(j)' = Nth(j)
    <2>1. \A j : Nth(j)' = Nth(j)
      BY DEF Nth, EntryOf
    <2> QED
      BY <2>1, TradesAre
  <1>5. \A k \in TradesOut : k < last /\ Payload(k)' = Payload(k)
    BY <1>1, <1>2, TradesAre
  <1>6. \A k : k \in TradesOut' <=> k \in DOMAIN published' /\ Payload(k)'.type = "trade"
    BY TradesAre
  <1>7. \A k : k \in TradesOut <=> k \in DOMAIN published /\ Payload(k).type = "trade"
    BY TradesAre
  <1>8. CASE f.payload.type # "trade" /\ \A c \in Channels : (Owes(c)' <=> Owes(c))
    <2>1. TradesOut' = TradesOut
      BY <1>1, <1>6, <1>7, <1>8
    <2>2. Tally'
      BY <1>4, <1>8, <2>1 DEF Tally
    <2>3. Told'
      BY <1>4, <1>5, <2>1 DEF Told, Rank
    <2> QED
      BY <2>2, <2>3
  <1>9. CASE /\ f.payload.type = "trade" /\ log # <<>>
             /\ Nth(Len(log)).type = "trade" /\ f.payload = TradeFrame(Nth(Len(log))).payload
             /\ (\E c \in Channels : Owes(c)) /\ (\A c \in Channels : ~Owes(c)')
    <2>1. TradesOut' = TradesOut \cup {last}
      BY <1>1, <1>2, <1>6, <1>7, <1>9
    <2>2. /\ Cardinality(TradesOut \cup {last}) = Cardinality(TradesOut) + 1
          /\ \A k \in TradesOut : Rank(TradesOut \cup {last}, k) = Rank(TradesOut, k)
          /\ Rank(TradesOut \cup {last}, last) = Cardinality(TradesOut) + 1
      BY <1>3, <1>5, RankAppend
    <2>3. Cardinality(TradesIn) = Cardinality(TradesOut) + 1
      BY <1>9 DEF Tally
    <2>4. Tally'
      BY <1>4, <1>9, <2>1, <2>2, <2>3 DEF Tally
    <2>5. PICK m \in TradesIn : m = Len(log) /\ \A j \in TradesIn : j <= m
      <3>1. Len(log) \in DOMAIN log /\ \A j \in DOMAIN log : j <= Len(log)
        BY <1>9 DEF LogInv
      <3> QED
        BY <1>9, <3>1, TradesAre
    <2>6. ASSUME NEW k \in TradesOut \cup {last}, NEW j \in TradesIn,
                 Rank(TradesOut \cup {last}, k) = Rank(TradesIn, j)
          PROVE  Payload(k)' = TradeFrame(Nth(j)).payload
      <3>1. CASE k = last
        <4>1. ~(Rank(TradesIn, j) < Cardinality(TradesIn))
          BY <1>3, <2>2, <2>3, <2>6, <3>1
        <4>2. j = m
          BY <1>3, <2>5, <4>1, RankLast
        <4> QED
          BY <1>1, <1>2, <1>9, <2>5, <3>1, <4>2
      <3>2. CASE k \in TradesOut
        BY <1>5, <2>2, <2>6, <3>2 DEF Told
      <3> QED
        BY <3>1, <3>2
    <2>7. Told'
      BY <1>4, <2>1, <2>6 DEF Told, Rank
    <2> QED
      BY <2>4, <2>7
  <1> QED
    BY <1>8, <1>9

LEMMA TapeInit == Init => TapeInv
  <1> SUFFICES ASSUME Init PROVE Tally /\ Told
    BY DEF TapeInv
  <1>1. TradesIn = {} /\ TradesOut = {}
    BY DEF Init, TradesIn, TradesOut
  <1>2. \A c \in Channels : ~Owes(c)
    BY DEF Init, Owes
  <1> QED
    BY <1>1, <1>2 DEF Tally, Told

LEMMA TapeNext ==
  /\ TypeInv /\ StopInv /\ WireInv /\ LogInv /\ OrderInv /\ FrameInv /\ TapeInv
  /\ [Next]_vars
  => TapeInv'
  <1> SUFFICES ASSUME TypeInv, StopInv, WireInv, LogInv, OrderInv, FrameInv, TapeInv,
                      [Next]_vars, One'
               PROVE  Tally' /\ Told'
    BY DEF TapeInv
  <1>1. /\ ThreadTypes /\ One /\ DOMAIN out = Channels /\ published \in Seq(Messages)
        /\ Tally /\ Told /\ \A c \in Channels : Framed(c) /\ Position(c)
    BY TypesOfThreads, StaysOpened DEF FrameInv, TapeInv, OrderInv, Order
  <1>2. CASE Main \/ Exchange \/ UNCHANGED vars
    <2>1. UNCHANGED published
      BY <1>2 DEF Main, StartChannel, Started, StepConnect, Shutdown, StopClose, StopJoin, Exchange,
         Multicast, Repeat, Arrive, Stray, vars, wireVars
    <2>2. /\ UNCHANGED <<log, pkt, at>>
          /\ \A c \in Channels : pc'[c] = pc[c] \/ (pc[c] = "none" /\ pc'[c] = "loop")
          /\ \A n \in 1 .. Len(sent) : sent'[n] = sent[n]
      BY <1>2, OutsideSteps
    <2>3. ASSUME NEW c \in Channels PROVE (Owes(c)' <=> Owes(c))
      <3>1. CASE pc[c] \in {"snap", "topic", "payload"}
        <4>1. InEntry(c) /\ pc'[c] = pc[c]
          BY <2>2, <3>1 DEF InEntry
        <4>2. Current(c)' = Current(c)
          BY <2>2, <4>1, CurrentStays
        <4> QED
          BY <4>1, <4>2 DEF Owes
      <3>2. CASE pc[c] \notin {"snap", "topic", "payload"}
        <4>1. pc'[c] \notin {"snap", "topic", "payload"}
          BY <2>2, <3>2
        <4> QED
          BY <3>2, <4>1 DEF Owes
      <3> QED
        BY <3>1, <3>2
    <2> QED
      BY <1>1, <2>1, <2>2, <2>3, TapeSame
  <1>3. ASSUME NEW c \in Channels, Thread(c) PROVE Tally' /\ Told'
    <2>1. UNCHANGED sent /\ \A d \in Channels \ {c} : ~Owes(d) /\ ~Owes(d)'
      BY <1>1, <1>3, ThreadSteps, OthersRest DEF Owes
    <2>2. ASSUME UNCHANGED <<log, published>>, (Owes(c)' <=> Owes(c)) PROVE Tally' /\ Told'
      <3>1. \A d \in Channels : (Owes(d)' <=> Owes(d))
        BY <2>1, <2>2
      <3> QED
        BY <1>1, <2>1, <2>2, <3>1, TapeSame
    <2>3. ASSUME UNCHANGED <<log, published>>, pc[c] \notin {"snap", "topic", "payload"},
                 pc'[c] \notin {"snap", "topic", "payload"}
          PROVE  Tally' /\ Told'
      BY <2>2, <2>3 DEF Owes
    <2>4. CASE LoopTest(c) \/ RecvFails(c) \/ CheckSeq(c) \/ StoreSeq(c)
      BY <1>1, <2>3, <2>4 DEF LoopTest, RecvFails, CheckSeq, StoreSeq, Goto, ThreadTypes,
         wireVars
    <2>5. CASE Recv(c) \/ EndPacket(c)
      BY <1>1, <2>3, <2>5 DEF Recv, AfterRecv, EndPacket, Goto, ThreadTypes, wireVars
    <2>6. CASE BeginQuote(c) \/ StoreSide(c) \/ StoreTrade(c) \/ BeginTrade(c) \/ SkipEntry(c)
      <3>1. MoreEntries(c) \/ InEntry(c)
        BY <2>6 DEF BeginQuote, BeginTrade, StoreSide, StoreTrade, SkipEntry, Goto, InEntry
      <3>2. PICK e \in Entry : e = Current(c)
        BY <3>1, EntryExists
      <3>3. PICK x \in LogEntry : x = Place(c)
        <4>1. pkt[c] \in 1 .. Len(sent) /\ pkt[c] \in 0 .. MaxDatagrams /\ at[c] \in Nat \ {0}
          BY <1>1, <3>1, EntryExists DEF ThreadTypes
        <4>2. pkt[c] \in 1 .. MaxDatagrams
          BY <1>1, <4>1, ConstantTypes DEF ThreadTypes
        <4> QED
          BY <4>1, <4>2 DEF Place, LogEntry
      <3>4. EntryOf(x) = e
        BY <3>2, <3>3 DEF EntryOf, Current, Place
      <3>5. UNCHANGED published /\ pc[c] \in {"entry", "apply"}
        BY <2>6 DEF BeginQuote, BeginTrade, StoreSide, StoreTrade, SkipEntry, Goto, wireVars
      <3>6. ASSUME Handled(c), Owes(c)' <=> e.type = "trade" PROVE Tally' /\ Told'
        <4>1. log' = Append(log, x)
          BY <3>3, <3>6 DEF Handled, Place
        <4>2. \A d \in Channels : ~Owes(d)
          BY <2>1, <3>5 DEF Owes
        <4> QED
          BY <1>1, <2>1, <3>4, <3>5, <3>6, <4>1, <4>2, TapeHandles
      <3>7. ASSUME UNCHANGED <<pkt, at>> PROVE Current(c)' = e
        BY <2>1, <3>1, <3>2, <3>7, CurrentStays
      <3>8. CASE SkipEntry(c)
        <4>1. Handled(c) /\ e.type = "other" /\ pc'[c] = "entry"
          BY <1>1, <3>2, <3>8 DEF SkipEntry, Goto, ThreadTypes
        <4> QED
          BY <3>6, <4>1 DEF Owes
      <3>9. CASE BeginQuote(c)
        <4>1. /\ e.type # "trade" /\ UNCHANGED <<pkt, at>>
              /\ \/ pc'[c] = "apply" /\ log' = log
                 \/ pc'[c] = "snap" /\ Handled(c)
          BY <1>1, <3>2, <3>9 DEF BeginQuote, Goto, ThreadTypes, IsQuote
        <4>2. ~Owes(c)'
          BY <3>7, <4>1 DEF Owes
        <4> QED
          BY <2>2, <3>5, <3>6, <4>1, <4>2 DEF Owes
      <3>10. CASE BeginTrade(c)
        <4>1. /\ e.type = "trade" /\ UNCHANGED <<pkt, at>>
              /\ \/ pc'[c] = "apply" /\ log' = log
                 \/ pc'[c] = "topic" /\ Handled(c)
          BY <1>1, <3>2, <3>10 DEF BeginTrade, Goto, ThreadTypes
        <4>2. CASE pc'[c] = "apply" /\ log' = log
          BY <2>3, <3>5, <4>2
        <4>3. CASE pc'[c] = "topic" /\ Handled(c)
          BY <3>6, <3>7, <4>1, <4>3 DEF Owes
        <4> QED
          BY <4>1, <4>2, <4>3
      <3>11. CASE StoreSide(c)
        <4>1. e.type # "trade" /\ UNCHANGED <<pkt, at>> /\ Handled(c)
          BY <3>2, <3>11 DEF StoreSide, IsQuote
        <4> QED
          BY <3>6, <3>7, <4>1 DEF Owes
      <3>12. CASE StoreTrade(c)
        <4>1. e.type = "trade" /\ UNCHANGED <<pkt, at>> /\ Handled(c) /\ pc'[c] = "snap"
          BY <1>1, <3>2, <3>12 DEF StoreTrade, Goto, ThreadTypes
        <4> QED
          BY <3>6, <3>7, <4>1 DEF Owes
      <3> QED
        BY <2>6, <3>8, <3>9, <3>10, <3>11, <3>12
    <2>7. CASE TakeSnapshot(c) \/ SendTopic(c)
      <3>1. /\ UNCHANGED <<log, published, pkt, at>> /\ InEntry(c)
            /\ pc[c] \in {"snap", "topic", "payload"} /\ pc'[c] \in {"snap", "topic", "payload"}
        BY <1>1, <2>7 DEF TakeSnapshot, SendTopic, Goto, ThreadTypes, wireVars, InEntry
      <3>2. Current(c)' = Current(c)
        BY <2>1, <3>1, CurrentStays
      <3> QED
        BY <2>2, <3>1, <3>2 DEF Owes
    <2>8. CASE SendPayload(c)
      <3>1. /\ pc[c] = "payload" /\ InEntry(c) /\ UNCHANGED <<log, pkt>>
            /\ pc'[c] = IF Len(out[c]) > 1 THEN "topic" ELSE "entry"
            /\ (Len(out[c]) > 1 => at' = at)
        BY <1>1, <2>8 DEF SendPayload, Goto, ThreadTypes, InEntry
      <3>2. PICK f \in Frames : f = Head(out[c]) /\ published' = Append(published, Message(f))
        BY <1>1, <2>8, Sends
      <3>3. PICK e \in Entry :
              /\ e = Current(c)
              /\ \/ IsQuote(e) /\ out[c] = <<SnapshotFrame(e, books[e.sec])>>
                 \/ /\ e.type = "trade"
                    /\ out[c] = <<SnapshotFrame(e, books[e.sec]), TradeFrame(e)>>
                 \/ e.type = "trade" /\ out[c] = <<TradeFrame(e)>>
        BY <1>1, <3>1, FrameReady
      <3>4. \A b : SnapshotFrame(e, b).payload.type = "snapshot"
        BY DEF SnapshotFrame
      <3>5. \A g, h : /\ out[c] = <<g>> => f = g /\ Len(out[c]) = 1
                      /\ out[c] = <<g, h>> => f = g /\ Len(out[c]) = 2
        BY <3>2, ShortTuples
      <3>6. ASSUME f.payload.type = "snapshot", (Owes(c)' <=> Owes(c)) PROVE Tally' /\ Told'
        <4>1. \A d \in Channels : (Owes(d)' <=> Owes(d))
          BY <2>1, <3>6
        <4> QED
          BY <1>1, <2>1, <3>1, <3>2, <3>6, <4>1, TapeSends
      <3>7. CASE IsQuote(e) /\ out[c] = <<SnapshotFrame(e, books[e.sec])>>
        <4>1. f.payload.type = "snapshot" /\ Len(out[c]) = 1
          BY <3>4, <3>5, <3>7
        <4>2. ~Owes(c) /\ ~Owes(c)'
          BY <3>1, <3>3, <3>7, <4>1 DEF Owes, IsQuote
        <4> QED
          BY <3>6, <4>1, <4>2
      <3>8. CASE e.type = "trade" /\ out[c] = <<SnapshotFrame(e, books[e.sec]), TradeFrame(e)>>
        <4>1. f.payload.type = "snapshot" /\ Len(out[c]) = 2
          BY <3>4, <3>5, <3>8
        <4>2. Current(c)' = e /\ pc'[c] = "topic"
          BY <2>1, <3>1, <3>3, <4>1, CurrentStays
        <4>3. Owes(c) /\ Owes(c)'
          BY <3>1, <3>3, <3>8, <4>2 DEF Owes
        <4> QED
          BY <3>6, <4>1, <4>3
      <3>9. CASE e.type = "trade" /\ out[c] = <<TradeFrame(e)>>
        <4>1. f = TradeFrame(e) /\ Len(out[c]) = 1
          BY <3>5, <3>9
        <4>2. Owes(c) /\ ~Owes(c)' /\ f.payload.type = "trade"
          BY <3>1, <3>3, <3>9, <4>1 DEF Owes, TradeFrame
        <4>3. log # <<>> /\ Nth(Len(log)) = e
          <5>1. log # <<>> /\ log[Len(log)] = Place(c)
            BY <1>1, <3>1 DEF Position
          <5> QED
            BY <3>3, <5>1 DEF Place, Nth, EntryOf, Current
        <4>4. \A d \in Channels : ~Owes(d)'
          BY <2>1, <4>2
        <4> QED
          BY <1>1, <2>1, <3>1, <3>2, <3>9, <4>1, <4>2, <4>3, <4>4, TapeSends
      <3> QED
        BY <3>3, <3>7, <3>8, <3>9
    <2> QED
      BY <1>3, <2>4, <2>5, <2>6, <2>7, <2>8 DEF Thread, Parse
  <1> QED
    BY <1>2, <1>3 DEF Next

\* With one channel open, the tape is the feed: whole messages, the trades in the
\* order they were handled, each once, and none missing between packets.
THEOREM FeedTapeFollowsFeed == Spec => []TapeFollowsFeed
  <1>1. ASSUME LogInv, FrameInv, TapeInv, Lone PROVE TapeFollowsFeed
    <2>1. One /\ published \in Seq(Messages) /\ Tally /\ Told
      BY <1>1, LoneIsOne DEF FrameInv, TapeInv
    <2>2. Cardinality(TradesOut) \in Nat /\ Cardinality(TradesIn) \in Nat
      BY <1>1, <2>1, TradesFinite
    <2>3. \A k \in DOMAIN published : WholeFrame(published[k])
      <3>1. \A k \in DOMAIN published : published[k] \in Messages
        BY <2>1
      <3> QED
        BY <3>1, MessageShape
    <2>4. Cardinality(TradesOut) <= Cardinality(TradesIn)
      BY <2>1, <2>2 DEF Tally
    <2>5. (\A c \in Channels : ~Busy(c)) => Cardinality(TradesOut) = Cardinality(TradesIn)
      BY <2>1 DEF Tally, Owes, Busy
    <2>6. \A k \in TradesOut, j \in TradesIn :
            Rank(TradesOut, k) = Rank(TradesIn, j) =>
              published[k][Len(published[k])].is = TradeFrame(EntryOf(log[j])).payload
      BY <2>1 DEF Told, Payload, Nth
    <2> QED
      BY <2>3, <2>4, <2>5, <2>6 DEF TapeFollowsFeed
  <1>2. LogInv /\ FrameInv /\ TapeInv => TapeFollowsFeed
    BY <1>1 DEF TapeFollowsFeed
  <1> QED
    BY <1>2, TypeInvInit, TypeInvNext, StopInvInit, StopInvNext, WireInit, WireNext,
       LogInit, LogNext, OrderInit, OrderNext, FrameInit, FrameNext, TapeInit, TapeNext,
       PTL DEF Spec

===============================================================================
