-------------------------- MODULE OrderEntryProofs --------------------------
(***************************************************************************)
(* Theorems about OrderEntry for any connections, capacities and numbers   *)
(* of frames and reports: numbering, engine order and order of a client's  *)
(* own answers on every connection.                                        *)
(***************************************************************************)
EXTENDS OrderEntry, TLAPS

Reports == [to : Conns, from : Conns, n : Nat, engine : Nat]
Stamps  == [seq : Nat, engine : Nat, from : Conns, n : Nat]
Waiting == [conn : Conns, n : Nat]
Tasks   == [conn : Conns, n : Nat, left : Int]

\* The types of everything but the sockets' fill.
TypeInv ==
    /\ peer \in [Conns -> {"absent", "open", "gone"}]
    /\ frame \in [Conns -> FrameKinds \cup {"absent", "none", "ended"}]
    /\ count \in [Conns -> Nat]
    /\ commands \in Seq(Waiting)
    /\ busy = << >> \/ busy \in {<<task>> : task \in Tasks}
    /\ engineSeq \in Nat
    /\ returns \in Seq(Reports)
    /\ held = << >> \/ held \in {<<report>> : report \in Reports}
    /\ writers \subseteq Conns
    /\ seqs \in [Conns -> Nat]
    /\ stream \in [Conns -> Seq(Stamps)]
    /\ DOMAIN unread = Conns

\* The dispatcher has numbered a message for c and not written it.
HeldFor(c) == held # << >> /\ held[1].to = c

\* The dispatcher's number for c is that of its last message.  A connection
\* that was never accepted has no number and is sent nothing, so once forgotten
\* a connection does not come back.
NumInv(c) ==
    /\ \A i \in 1 .. Len(stream[c]) : stream[c][i].seq = i
    /\ c \in writers => seqs[c] = Len(stream[c]) + IF HeldFor(c) THEN 1 ELSE 0
    /\ frame[c] = "absent" =>
          /\ c \notin writers /\ seqs[c] = 0 /\ stream[c] = << >> /\ ~HeldFor(c)
          /\ \A i \in 1 .. Len(returns) : returns[i].to # c
    /\ peer[c] = "absent" => frame[c] = "absent"

\* Report a may go out before report b.
Before(a, b) ==
    /\ a.engine # WireReject /\ b.engine # WireReject => a.engine <= b.engine
    /\ a.from = b.from /\ (a.engine # WireReject \/ b.engine = WireReject) => a.n <= b.n

\* Whatever is written, held or in the return channel, in that order.
PipeInv ==
    /\ \A c \in Conns : \A i, j \in 1 .. Len(stream[c]) :
          i < j => Before(stream[c][i], stream[c][j])
    /\ \A c \in Conns : \A i \in 1 .. Len(stream[c]) :
          /\ held # << >> => Before(stream[c][i], held[1])
          /\ \A j \in 1 .. Len(returns) : Before(stream[c][i], returns[j])
    /\ held # << >> => \A j \in 1 .. Len(returns) : Before(held[1], returns[j])
    /\ \A i, j \in 1 .. Len(returns) : i < j => Before(returns[i], returns[j])

\* Nothing still to be reported belongs before report a.
Past(a) ==
    /\ a.engine <= engineSeq
    /\ a.n <= count[a.from]
    /\ a.engine # WireReject =>
          /\ busy # << >> /\ busy[1].conn = a.from => a.n <= busy[1].n
          /\ \A j \in 1 .. Len(commands) : commands[j].conn = a.from => a.n <= commands[j].n

PastInv ==
    /\ \A c \in Conns : \A i \in 1 .. Len(stream[c]) : Past(stream[c][i])
    /\ held # << >> => Past(held[1])
    /\ \A i \in 1 .. Len(returns) : Past(returns[i])

\* Commands wait in the order of their frames, behind the one in progress, whose
\* reports are told from rejects.
QueueInv ==
    /\ \A i \in 1 .. Len(commands) : commands[i].n <= count[commands[i].conn]
    /\ \A i, j \in 1 .. Len(commands) :
          i < j /\ commands[i].conn = commands[j].conn => commands[i].n <= commands[j].n
    /\ busy # << >> =>
          /\ engineSeq # WireReject
          /\ busy[1].n <= count[busy[1].conn]
          /\ \A j \in 1 .. Len(commands) :
                commands[j].conn = busy[1].conn => busy[1].n <= commands[j].n

IInv == TypeInv /\ (\A c \in Conns : NumInv(c)) /\ PipeInv /\ PastInv /\ QueueInv

-----------------------------------------------------------------------------
(* Sequences and reports *)

LEMMA AppendFacts ==
    ASSUME NEW S, NEW q \in Seq(S), NEW e \in S
    PROVE  /\ Append(q, e) \in Seq(S)
           /\ Len(q) \in Nat
           /\ Len(Append(q, e)) = Len(q) + 1
           /\ \A i \in 1 .. Len(q) : Append(q, e)[i] = q[i]
           /\ Append(q, e)[Len(q) + 1] = e
           /\ \A i \in 1 .. Len(q) + 1 : i \in 1 .. Len(q) \/ i = Len(q) + 1
OBVIOUS

LEMMA TailFacts ==
    ASSUME NEW S, NEW q \in Seq(S), q # << >>
    PROVE  /\ Head(q) \in S /\ Tail(q) \in Seq(S)
           /\ Len(q) \in Nat /\ 1 \in 1 .. Len(q) /\ Head(q) = q[1]
           /\ Len(Tail(q)) = Len(q) - 1
           /\ \A i \in 1 .. Len(q) - 1 :
                 i \in Int /\ i + 1 \in 1 .. Len(q) /\ Tail(q)[i] = q[i + 1] /\ 1 < i + 1
OBVIOUS

\* What is in flight is a task and a report.
LEMMA Singles ==
    ASSUME TypeInv
    PROVE  /\ busy # << >> => busy[1] \in Tasks
           /\ held # << >> => held[1] \in Reports
BY DEF TypeInv

LEMMA InitIInv == Init => IInv
<1> SUFFICES ASSUME Init PROVE IInv
  OBVIOUS
<1>1. TypeInv
  BY OrderEntryAssumption DEF Init, TypeInv, FrameKinds
<1>2. ASSUME NEW c \in Conns PROVE NumInv(c)
  BY DEF Init, NumInv, HeldFor
<1>3. PipeInv /\ PastInv /\ QueueInv
  BY DEF Init, PipeInv, PastInv, QueueInv
<1>. QED BY <1>1, <1>2, <1>3 DEF IInv

-----------------------------------------------------------------------------
(* What a step that leaves part of the state alone keeps *)

LEMMA PipeQuiet ==
    ASSUME PipeInv, UNCHANGED <<stream, held, returns>>
    PROVE  PipeInv'
BY DEF PipeInv

\* Frames read may grow, the rest of what Past looks at stays.
LEMMA PastQuiet ==
    ASSUME IInv, UNCHANGED <<stream, held, returns, busy, commands, engineSeq>>,
           count' \in [Conns -> Nat], \A c \in Conns : count[c] <= count'[c]
    PROVE  PastInv' /\ QueueInv'
<1>1. ASSUME NEW a, a.from \in Conns, a.n \in Nat, Past(a) PROVE Past(a)'
  <2>1. count[a.from] \in Nat /\ count'[a.from] \in Nat /\ count[a.from] <= count'[a.from]
    BY <1>1 DEF IInv, TypeInv
  <2>2. a.n <= count'[a.from]
    BY <1>1, <2>1 DEF Past
  <2>. QED BY <1>1, <2>2 DEF Past
<1>2. PastInv'
  <2>1. ASSUME NEW c \in Conns, NEW i \in 1 .. Len(stream[c]) PROVE Past(stream[c][i])'
    <3>1. stream[c][i] \in Stamps
      BY DEF IInv, TypeInv
    <3>. QED BY <1>1, <3>1 DEF IInv, PastInv, Stamps
  <2>2. ASSUME held # << >> PROVE Past(held[1])'
    BY <1>1, <2>2, Singles DEF IInv, PastInv, Reports
  <2>3. ASSUME NEW i \in 1 .. Len(returns) PROVE Past(returns[i])'
    <3>1. returns[i] \in Reports
      BY DEF IInv, TypeInv
    <3>. QED BY <1>1, <3>1 DEF IInv, PastInv, Reports
  <2>. QED BY <2>1, <2>2, <2>3 DEF PastInv
<1>3. QueueInv'
  <2>1. ASSUME NEW i \in 1 .. Len(commands) PROVE commands[i].n <= count'[commands[i].conn]
    <3>1. commands[i] \in Waiting
      BY DEF IInv, TypeInv
    <3>2. commands[i].conn \in Conns /\ commands[i].n \in Nat
      BY <3>1 DEF Waiting
    <3>3. count[commands[i].conn] \in Nat /\ count'[commands[i].conn] \in Nat
          /\ count[commands[i].conn] <= count'[commands[i].conn]
      BY <3>2 DEF IInv, TypeInv
    <3>. QED BY <3>2, <3>3 DEF IInv, QueueInv
  <2>2. ASSUME busy # << >> PROVE busy[1].n <= count'[busy[1].conn]
    <3>1. busy[1].conn \in Conns /\ busy[1].n \in Nat
      BY <2>2, Singles DEF IInv, Tasks
    <3>2. count[busy[1].conn] \in Nat /\ count'[busy[1].conn] \in Nat
          /\ count[busy[1].conn] <= count'[busy[1].conn]
      BY <3>1 DEF IInv, TypeInv
    <3>. QED BY <2>2, <3>1, <3>2 DEF IInv, QueueInv
  <2>. QED BY <2>1, <2>2 DEF IInv, QueueInv
<1>. QED BY <1>2, <1>3

LEMMA NumQuiet ==
    ASSUME NEW c \in Conns, NumInv(c), UNCHANGED <<stream, held, returns, seqs>>,
           c \in writers' <=> c \in writers,
           frame'[c] = frame[c] \/ (frame'[c] # "absent" /\ frame[c] # "absent"),
           peer'[c] = peer[c] \/ peer'[c] # "absent"
    PROVE  NumInv(c)'
BY Zenon DEF NumInv, HeldFor

\* A report that follows all others joins the return channel.
LEMMA ReturnAppended ==
    ASSUME IInv, NEW r \in Reports, returns' = Append(returns, r), UNCHANGED <<stream, held>>,
           \A c \in Conns : \A i \in 1 .. Len(stream[c]) : Before(stream[c][i], r),
           held # << >> => Before(held[1], r),
           \A i \in 1 .. Len(returns) : Before(returns[i], r)
    PROVE  PipeInv'
<1>1. returns \in Seq(Reports)
  BY DEF IInv, TypeInv
<1>2. /\ Len(returns') = Len(returns) + 1 /\ Len(returns) \in Nat
      /\ \A i \in 1 .. Len(returns) : returns'[i] = returns[i]
      /\ returns'[Len(returns) + 1] = r
      /\ \A i \in 1 .. Len(returns) + 1 : i \in 1 .. Len(returns) \/ i = Len(returns) + 1
  BY <1>1, AppendFacts
<1>3. ASSUME NEW c \in Conns, NEW i \in 1 .. Len(stream[c]), NEW j \in 1 .. Len(returns')
      PROVE  Before(stream[c][i], returns'[j])
  BY <1>2 DEF IInv, PipeInv
<1>4. ASSUME held # << >>, NEW j \in 1 .. Len(returns') PROVE Before(held[1], returns'[j])
  BY <1>2, <1>4 DEF IInv, PipeInv
<1>5. ASSUME NEW i \in 1 .. Len(returns'), NEW j \in 1 .. Len(returns'), i < j
      PROVE  Before(returns'[i], returns'[j])
  <2>1. i \in 1 .. Len(returns)
    BY <1>2, <1>5
  <2>. QED BY <1>2, <1>5, <2>1 DEF IInv, PipeInv
<1>6. (\A c \in Conns : \A i, j \in 1 .. Len(stream[c]) :
          i < j => Before(stream[c][i], stream[c][j]))'
  BY DEF IInv, PipeInv, Before
<1>7. \A c \in Conns : \A i \in 1 .. Len(stream[c]) :
          held # << >> => Before(stream[c][i], held[1])
  BY DEF IInv, PipeInv
<1>. QED BY <1>3, <1>4, <1>5, <1>6, <1>7 DEF PipeInv, Before
-----------------------------------------------------------------------------
(* One lemma per action *)

\* Accepting, leaving, reading: no report moves.
OffPipe(c) == Accept(c) \/ AcceptDrops(c) \/ ReaderTake(c) \/ ReaderEnd(c)
              \/ ClientReads(c) \/ ClientCloses(c)

LEMMA OffPipeKeeps ==
    ASSUME IInv, NEW c \in Conns, OffPipe(c)
    PROVE  IInv'
<1>1. UNCHANGED <<stream, held, returns, busy, commands, engineSeq, seqs>>
  BY DEF OffPipe, Accept, AcceptDrops, ReaderTake, ReaderEnd, ClientReads, ClientCloses, serverVars
<1>2. /\ peer' \in [Conns -> {"absent", "open", "gone"}]
      /\ \A d \in Conns : peer'[d] = peer[d] \/ peer'[d] # "absent"
  BY Zenon DEF IInv, TypeInv, OffPipe, Accept, AcceptDrops, ReaderTake, ReaderEnd, ClientReads, ClientCloses
<1>3. /\ frame' \in [Conns -> FrameKinds \cup {"absent", "none", "ended"}]
      /\ \A d \in Conns \ {c} : frame'[d] = frame[d]
      /\ ~Accept(c) => frame'[c] = frame[c] \/ (frame'[c] # "absent" /\ frame[c] # "absent")
  BY ZenonT(40) DEF IInv, TypeInv, OffPipe, Accept, AcceptDrops, ReaderTake, ReaderEnd, ClientReads, ClientCloses,
         serverVars, FrameKinds
<1>4. count' \in [Conns -> Nat] /\ \A d \in Conns : count[d] <= count'[d]
  BY SMTT(30) DEF IInv, TypeInv, OffPipe, Accept, AcceptDrops, ReaderTake, ReaderEnd, ClientReads, ClientCloses,
         serverVars
<1>5. /\ writers' \subseteq Conns
      /\ \A d \in Conns \ {c} : d \in writers' <=> d \in writers
      /\ ~Accept(c) => writers' = writers
  BY DEF IInv, TypeInv, OffPipe, Accept, AcceptDrops, ReaderTake, ReaderEnd, ClientReads, ClientCloses,
         serverVars
<1>6. DOMAIN unread' = Conns
  BY DEF IInv, TypeInv, OffPipe, Accept, AcceptDrops, ReaderTake, ReaderEnd, ClientReads, ClientCloses,
         serverVars
<1>7. TypeInv'
  BY <1>1, <1>2, <1>3, <1>4, <1>5, <1>6 DEF IInv, TypeInv
<1>8. ASSUME NEW d \in Conns PROVE NumInv(d)'
  <2>1. CASE d # c \/ ~Accept(c)
    BY <1>1, <1>2, <1>3, <1>5, <2>1, NumQuiet DEF IInv
  <2>2. CASE d = c /\ Accept(c)
    <3>1. /\ peer[c] = "absent" /\ held = << >> /\ frame'[c] = "none" /\ peer'[c] = "open"
      BY <2>2 DEF Accept, IInv, TypeInv
    <3>2. NumInv(c) /\ seqs[c] = 0 /\ stream[c] = << >>
      BY <3>1, Zenon DEF IInv, NumInv
    <3>. QED BY <1>1, <2>2, <3>1, <3>2 DEF NumInv, HeldFor
  <2>. QED BY <2>1, <2>2
<1>9. PipeInv'
  BY <1>1, PipeQuiet DEF IInv
<1>10. PastInv' /\ QueueInv'
  BY <1>1, <1>4, PastQuiet
<1>. QED BY <1>7, <1>8, <1>9, <1>10 DEF IInv

\* The command is the newest frame of its connection.
LEMMA SendCommandKeeps ==
    ASSUME IInv, NEW c \in Conns, SendCommand(c)
    PROVE  IInv'
<1> DEFINE w == [conn |-> c, n |-> count[c]]
<1>1. /\ commands' = Append(commands, w)
      /\ frame' = [frame EXCEPT ![c] = "none"] /\ frame[c] = "command"
      /\ UNCHANGED <<peer, count, busy, engineSeq, returns, held, writers, seqs, stream, unread>>
  BY DEF SendCommand
<1>2. w \in Waiting /\ commands \in Seq(Waiting) /\ w.conn = c /\ w.n = count[c]
  BY DEF IInv, TypeInv, Waiting
<1> HIDE DEF w
<1>3. /\ commands' \in Seq(Waiting) /\ Len(commands') = Len(commands) + 1 /\ Len(commands) \in Nat
      /\ \A i \in 1 .. Len(commands) : commands'[i] = commands[i]
      /\ commands'[Len(commands) + 1] = w
      /\ \A i \in 1 .. Len(commands) + 1 : i \in 1 .. Len(commands) \/ i = Len(commands) + 1
  BY <1>1, <1>2, AppendFacts
<1>4. TypeInv'
  BY <1>1, <1>3 DEF IInv, TypeInv
<1>5. ASSUME NEW d \in Conns PROVE NumInv(d)'
  <2>1. frame'[d] = frame[d] \/ (frame'[d] # "absent" /\ frame[d] # "absent")
    BY <1>1 DEF IInv, TypeInv
  <2>. QED BY <1>1, <2>1, NumQuiet DEF IInv
<1>6. PipeInv'
  BY <1>1, PipeQuiet DEF IInv
<1>7. ASSUME NEW a, Past(a) PROVE Past(a)'
  <2>1. ASSUME a.engine # WireReject, NEW j \in 1 .. Len(commands'), commands'[j].conn = a.from
        PROVE  a.n <= commands'[j].n
    <3>1. CASE j \in 1 .. Len(commands)
      BY <1>3, <1>7, <2>1, <3>1 DEF Past
    <3>2. CASE j = Len(commands) + 1
      BY <1>2, <1>3, <1>7, <2>1, <3>2, SMTT(30) DEF Past
    <3>. QED BY <1>3, <3>1, <3>2
  <2>. QED BY <1>1, <1>7, <2>1 DEF Past
<1>8. PastInv'
  <2>1. \A d \in Conns : \A i \in 1 .. Len(stream[d]) : Past(stream[d][i])'
    BY <1>1, <1>7 DEF IInv, PastInv
  <2>2. held # << >> => Past(held[1])'
    BY <1>1, <1>7 DEF IInv, PastInv
  <2>3. \A i \in 1 .. Len(returns) : Past(returns[i])'
    BY <1>1, <1>7 DEF IInv, PastInv
  <2>. QED BY <1>1, <2>1, <2>2, <2>3, SMTT(30) DEF PastInv, Past
<1>9. QueueInv'
  <2>1. ASSUME NEW i \in 1 .. Len(commands') PROVE commands'[i].n <= count'[commands'[i].conn]
    <3>1. CASE i \in 1 .. Len(commands)
      BY <1>1, <1>3, <3>1 DEF IInv, QueueInv
    <3>2. CASE i = Len(commands) + 1
      <4>1. count[c] \in Nat
        BY DEF IInv, TypeInv
      <4>. QED BY <1>1, <1>2, <1>3, <3>2, <4>1
    <3>. QED BY <1>3, <3>1, <3>2
  <2>2. ASSUME NEW i \in 1 .. Len(commands'), NEW j \in 1 .. Len(commands'), i < j,
               commands'[i].conn = commands'[j].conn
        PROVE  commands'[i].n <= commands'[j].n
    <3>1. i \in 1 .. Len(commands)
      BY <1>3, <2>2
    <3>2. CASE j \in 1 .. Len(commands)
      BY <1>3, <2>2, <3>1, <3>2 DEF IInv, QueueInv
    <3>3. CASE j = Len(commands) + 1
      BY <1>2, <1>3, <2>2, <3>1, <3>3 DEF IInv, QueueInv
    <3>. QED BY <1>3, <3>2, <3>3
  <2>3. ASSUME busy # << >>, NEW j \in 1 .. Len(commands'), commands'[j].conn = busy[1].conn
        PROVE  busy[1].n <= commands'[j].n
    <3>1. CASE j \in 1 .. Len(commands)
      BY <1>3, <2>3, <3>1 DEF IInv, QueueInv
    <3>2. CASE j = Len(commands) + 1
      BY <1>2, <1>3, <2>3, <3>2 DEF IInv, QueueInv
    <3>. QED BY <1>3, <3>1, <3>2
  <2>. QED BY <1>1, <2>1, <2>2, <2>3 DEF IInv, QueueInv
<1>. QED BY <1>4, <1>5, <1>6, <1>8, <1>9 DEF IInv
\* A report for an accepted connection, after all others, joins the channel.
LEMMA NumAppended ==
    ASSUME IInv, NEW r \in Reports, returns' = Append(returns, r), frame[r.to] # "absent",
           UNCHANGED <<stream, held, seqs, writers, peer>>, NEW c \in Conns,
           frame'[c] = frame[c] \/ (frame'[c] # "absent" /\ frame[c] # "absent")
    PROVE  NumInv(c)'
<1>1. returns \in Seq(Reports)
  BY DEF IInv, TypeInv
<1>2. /\ Len(returns') = Len(returns) + 1 /\ Len(returns) \in Nat
      /\ \A i \in 1 .. Len(returns) : returns'[i] = returns[i]
      /\ returns'[Len(returns) + 1] = r
      /\ \A i \in 1 .. Len(returns) + 1 : i \in 1 .. Len(returns) \/ i = Len(returns) + 1
  BY <1>1, AppendFacts
<1>3. NumInv(c)
  BY DEF IInv
<1>4. frame'[c] = "absent" => \A i \in 1 .. Len(returns') : returns'[i].to # c
  <2> SUFFICES ASSUME frame'[c] = "absent", NEW i \in 1 .. Len(returns') PROVE returns'[i].to # c
    OBVIOUS
  <2>1. CASE i \in 1 .. Len(returns)
    BY <1>2, <1>3, <2>1 DEF NumInv
  <2>2. CASE i = Len(returns) + 1
    BY <1>2, <2>2, SMTT(30)
  <2>. QED BY <1>2, <2>1, <2>2
<1>. QED BY <1>3, <1>4, Zenon DEF NumInv, HeldFor

LEMMA PastAppended ==
    ASSUME IInv, NEW r \in Reports, returns' = Append(returns, r), UNCHANGED <<stream, held>>,
           \A c \in Conns : \A i \in 1 .. Len(stream[c]) : Past(stream[c][i])',
           held # << >> => Past(held[1])',
           \A i \in 1 .. Len(returns) : \A a : a = returns[i] => Past(a)',
           \A a : a = r => Past(a)'
    PROVE  PastInv'
<1>1. returns \in Seq(Reports)
  BY DEF IInv, TypeInv
<1>2. /\ Len(returns') = Len(returns) + 1 /\ Len(returns) \in Nat
      /\ \A i \in 1 .. Len(returns) : returns'[i] = returns[i]
      /\ returns'[Len(returns) + 1] = r
      /\ \A i \in 1 .. Len(returns) + 1 : i \in 1 .. Len(returns) \/ i = Len(returns) + 1
  BY <1>1, AppendFacts, SMTT(30)
<1>3. ASSUME NEW i \in 1 .. Len(returns') PROVE (Past(returns[i]))'
  BY <1>2 DEF Past
<1>. QED BY <1>3, SMTT(30) DEF PastInv, Past

LEMMA SendRejectKeeps ==
    ASSUME IInv, NEW c \in Conns, SendReject(c)
    PROVE  IInv'
<1> DEFINE r == Report(c, c, count[c], WireReject)
<1>1. /\ returns' = Append(returns, r)
      /\ frame[c] \in {"malformed", "unknown"}
      /\ UNCHANGED <<peer, count, commands, busy, engineSeq, held, writers, seqs, stream, unread>>
  BY DEF SendReject
<1>2. r \in Reports /\ r.engine = WireReject /\ r.from = c /\ r.n = count[c] /\ r.to = c
      /\ count[c] \in Nat
  BY DEF IInv, TypeInv, Report, Reports, WireReject
<1> HIDE DEF r
<1>3. /\ frame' \in [Conns -> FrameKinds \cup {"absent", "none", "ended"}]
      /\ \A d \in Conns : frame'[d] = frame[d] \/ (frame'[d] # "absent" /\ frame[d] # "absent")
  BY DEF SendReject, IInv, TypeInv, FrameKinds
<1>4. TypeInv'
  <2>1. returns' \in Seq(Reports)
    BY <1>1, <1>2, AppendFacts DEF IInv, TypeInv
  <2>. QED BY <1>1, <1>3, <2>1 DEF IInv, TypeInv
<1>5. \A d \in Conns : NumInv(d)'
  BY <1>1, <1>2, <1>3, NumAppended
<1>6. ASSUME NEW a, Past(a) PROVE Before(a, r)
  BY <1>2, <1>6, SMTT(30) DEF Past, Before
<1>7. PipeInv'
  <2>1. \A d \in Conns : \A i \in 1 .. Len(stream[d]) : Before(stream[d][i], r)
    BY <1>6, Zenon DEF IInv, PastInv
  <2>2. held # << >> => Before(held[1], r)
    BY <1>6, Zenon DEF IInv, PastInv
  <2>3. \A i \in 1 .. Len(returns) : Before(returns[i], r)
    BY <1>6, Zenon DEF IInv, PastInv
  <2>. QED BY <1>1, <1>2, <2>1, <2>2, <2>3, ReturnAppended
<1>8. PastInv'
  <2>1. ASSUME NEW a, Past(a) PROVE Past(a)'
    BY <1>1, <2>1 DEF Past
  <2>2. Past(r)
    <3>1. WireReject <= engineSeq
      BY DEF IInv, TypeInv, WireReject
    <3>. QED BY <1>2, <3>1 DEF Past
  <2>3. \A d \in Conns : \A i \in 1 .. Len(stream[d]) : Past(stream[d][i])'
    BY <1>1, <2>1 DEF IInv, PastInv
  <2>4. held # << >> => Past(held[1])'
    BY <1>1, <2>1 DEF IInv, PastInv
  <2>5. \A i \in 1 .. Len(returns) : \A a : a = returns[i] => Past(a)'
    BY <2>1 DEF IInv, PastInv
  <2>6. \A a : a = r => Past(a)'
    BY <2>1, <2>2
  <2>. QED BY <1>1, <1>2, <2>3, <2>4, <2>5, <2>6, PastAppended
<1>9. QueueInv'
  BY <1>1 DEF IInv, QueueInv
<1>. QED BY <1>4, <1>5, <1>7, <1>8, <1>9 DEF IInv
\* A report of the command in progress carries the largest number so far.
LEMMA EmitKeeps ==
    ASSUME IInv, Emit
    PROVE  IInv'
<1>0. PICK to \in Conns : /\ frame[to] # "absent"
                          /\ returns' = Append(returns, Report(to, busy[1].conn, busy[1].n, engineSeq))
  BY DEF Emit
<1> DEFINE r == Report(to, busy[1].conn, busy[1].n, engineSeq)
<1>1. /\ busy # << >>
      /\ busy' = IF busy[1].left = 1 THEN << >> ELSE <<[busy[1] EXCEPT !.left = @ - 1]>>
      /\ UNCHANGED <<peer, frame, count, commands, engineSeq, held, writers, seqs, stream, unread>>
  BY DEF Emit
<1>2. busy[1] \in Tasks
  BY <1>1, Singles DEF IInv
<1>3. /\ r \in Reports /\ r.engine = engineSeq /\ r.from = busy[1].conn /\ r.n = busy[1].n /\ r.to = to
      /\ engineSeq \in Nat
  BY <1>2, SMTT(30) DEF IInv, TypeInv, Report, Reports, Tasks
<1>4. returns' = Append(returns, r)
  BY <1>0
<1> HIDE DEF r
<1>5. /\ busy' = << >> \/ busy' \in {<<task>> : task \in Tasks}
      /\ busy' # << >> => busy'[1].conn = busy[1].conn /\ busy'[1].n = busy[1].n
  BY <1>1, <1>2 DEF Tasks
<1>6. TypeInv'
  <2>1. returns' \in Seq(Reports)
    BY <1>3, <1>4, AppendFacts DEF IInv, TypeInv
  <2>. QED BY <1>1, <1>5, <2>1 DEF IInv, TypeInv
<1>7. \A d \in Conns : NumInv(d)'
  BY <1>0, <1>1, <1>3, <1>4, NumAppended
<1>8. ASSUME NEW a, Past(a) PROVE Before(a, r)
  <2>1. r.engine # WireReject
    BY <1>1, <1>3 DEF IInv, QueueInv
  <2>. QED BY <1>1, <1>3, <1>8, <2>1 DEF Past, Before
<1>9. PipeInv'
  <2>1. \A d \in Conns : \A i \in 1 .. Len(stream[d]) : Before(stream[d][i], r)
    BY <1>8, Zenon DEF IInv, PastInv
  <2>2. held # << >> => Before(held[1], r)
    BY <1>8, Zenon DEF IInv, PastInv
  <2>3. \A i \in 1 .. Len(returns) : Before(returns[i], r)
    BY <1>8, Zenon DEF IInv, PastInv
  <2>. QED BY <1>1, <1>3, <1>4, <2>1, <2>2, <2>3, ReturnAppended
<1>10. PastInv'
  <2>1. ASSUME NEW a, Past(a) PROVE Past(a)'
    BY <1>1, <1>5, <2>1 DEF Past
  <2>2. Past(r)
    <3>1. busy[1].n <= busy[1].n /\ engineSeq <= engineSeq
      BY <1>2, <1>3 DEF Tasks
    <3>. QED BY <1>1, <1>3, <3>1 DEF IInv, QueueInv, Past
  <2>3. \A d \in Conns : \A i \in 1 .. Len(stream[d]) : Past(stream[d][i])'
    BY <1>1, <2>1 DEF IInv, PastInv
  <2>4. held # << >> => Past(held[1])'
    BY <1>1, <2>1 DEF IInv, PastInv
  <2>5. \A i \in 1 .. Len(returns) : \A a : a = returns[i] => Past(a)'
    BY <2>1 DEF IInv, PastInv
  <2>6. \A a : a = r => Past(a)'
    BY <2>1, <2>2
  <2>. QED BY <1>1, <1>3, <1>4, <2>3, <2>4, <2>5, <2>6, PastAppended
<1>11. QueueInv'
  BY <1>1, <1>5 DEF IInv, QueueInv
<1>. QED BY <1>6, <1>7, <1>9, <1>10, <1>11 DEF IInv

\* The oldest command becomes the one in progress, under a larger number.
LEMMA TakeCommandKeeps ==
    ASSUME IInv, TakeCommand
    PROVE  IInv'
<1>1. /\ busy = << >> /\ commands # << >> /\ engineSeq' = engineSeq + 1
      /\ commands' = Tail(commands)
      /\ UNCHANGED <<peer, frame, count, returns, held, writers, seqs, stream, unread>>
  BY DEF TakeCommand
<1>2. commands \in Seq(Waiting)
  BY DEF IInv, TypeInv
<1>3. /\ Head(commands) \in Waiting /\ commands' \in Seq(Waiting)
      /\ Len(commands) \in Nat /\ 1 \in 1 .. Len(commands) /\ Head(commands) = commands[1]
      /\ Len(commands') = Len(commands) - 1
      /\ \A i \in 1 .. Len(commands) - 1 :
            i \in Int /\ i + 1 \in 1 .. Len(commands) /\ commands'[i] = commands[i + 1] /\ 1 < i + 1
  BY <1>1, <1>2, TailFacts
<1>4. /\ busy' = << >> \/ busy' \in {<<task>> : task \in Tasks}
      /\ busy' # << >> => busy'[1].conn = commands[1].conn /\ busy'[1].n = commands[1].n
  <2>1. PICK left \in 0 .. MaxReports :
          busy' = IF left = 0 THEN << >>
                  ELSE <<[conn |-> Head(commands).conn, n |-> Head(commands).n, left |-> left]>>
    BY DEF TakeCommand
  <2>2. [conn |-> Head(commands).conn, n |-> Head(commands).n, left |-> left] \in Tasks
    BY <1>3, OrderEntryAssumption DEF Tasks, Waiting
  <2>. QED BY <1>3, <2>1, <2>2
<1>5. engineSeq \in Nat /\ engineSeq' \in Nat /\ engineSeq <= engineSeq' /\ engineSeq' # WireReject
  BY <1>1 DEF IInv, TypeInv, WireReject
<1>6. TypeInv'
  BY <1>1, <1>3, <1>4, <1>5, SMTT(30) DEF IInv, TypeInv
<1>7. \A d \in Conns : NumInv(d)'
  BY <1>1, NumQuiet DEF IInv
<1>8. PipeInv'
  BY <1>1, PipeQuiet, SMTT(30) DEF IInv
<1>9. ASSUME NEW a, a.engine \in Nat, Past(a) PROVE Past(a)'
  <2>1. a.engine <= engineSeq'
    BY <1>5, <1>9, SMTT(30) DEF Past
  <2>2. a.engine # WireReject /\ busy' # << >> /\ busy'[1].conn = a.from => a.n <= busy'[1].n
    BY <1>3, <1>4, <1>9 DEF Past
  <2>3. ASSUME a.engine # WireReject, NEW j \in 1 .. Len(commands'), commands'[j].conn = a.from
        PROVE  a.n <= commands'[j].n
    BY <1>3, <1>9, <2>3, SMTT(30) DEF Past
  <2>. QED BY <1>1, <1>9, <2>1, <2>2, <2>3 DEF Past
<1>10. PastInv'
  <2>1. ASSUME NEW d \in Conns, NEW i \in 1 .. Len(stream[d]) PROVE Past(stream[d][i])'
    <3>1. stream[d][i] \in Stamps
      BY DEF IInv, TypeInv
    <3>. QED BY <1>1, <1>9, <3>1 DEF IInv, PastInv, Stamps
  <2>2. held # << >> => Past(held[1])'
    BY <1>1, <1>9, Singles DEF IInv, PastInv, Reports
  <2>3. ASSUME NEW i \in 1 .. Len(returns) PROVE Past(returns[i])'
    <3>1. returns[i] \in Reports
      BY DEF IInv, TypeInv
    <3>. QED BY <1>1, <1>9, <3>1 DEF IInv, PastInv, Reports
  <2>. QED BY <1>1, <2>1, <2>2, <2>3 DEF PastInv, Past
<1>11. QueueInv'
  <2>1. \A i \in 1 .. Len(commands') : commands'[i].n <= count'[commands'[i].conn]
    BY <1>1, <1>3 DEF IInv, QueueInv
  <2>2. ASSUME NEW i \in 1 .. Len(commands'), NEW j \in 1 .. Len(commands'), i < j,
               commands'[i].conn = commands'[j].conn
        PROVE  commands'[i].n <= commands'[j].n
    <3>1. i + 1 < j + 1
      BY <1>3, <2>2
    <3>. QED BY <1>3, <2>2, <3>1, SMTT(30) DEF IInv, QueueInv
  <2>3. busy' # << >> => busy'[1].n <= count'[busy'[1].conn]
    BY <1>1, <1>3, <1>4 DEF IInv, QueueInv
  <2>4. ASSUME busy' # << >>, NEW j \in 1 .. Len(commands'), commands'[j].conn = busy'[1].conn
        PROVE  busy'[1].n <= commands'[j].n
    BY <1>3, <1>4, <2>4 DEF IInv, QueueInv
  <2>. QED BY <1>5, <2>1, <2>2, <2>3, <2>4 DEF QueueInv
<1>. QED BY <1>6, <1>7, <1>8, <1>10, <1>11 DEF IInv
\* The oldest report moves from the channel to the dispatcher's hand.
LEMMA DispatchKeeps ==
    ASSUME IInv, Dispatch
    PROVE  IInv'
<1> DEFINE c == Head(returns).to
<1>1. /\ held = << >> /\ returns # << >> /\ held' = <<Head(returns)>>
      /\ seqs' = [seqs EXCEPT ![c] = seqs[c] + 1]
      /\ returns' = Tail(returns)
      /\ UNCHANGED <<peer, frame, count, commands, busy, engineSeq, writers, stream, unread>>
  BY DEF Dispatch, IInv, TypeInv
<1>2. returns \in Seq(Reports)
  BY DEF IInv, TypeInv
<1>3. /\ Head(returns) \in Reports /\ returns' \in Seq(Reports)
      /\ Len(returns) \in Nat /\ 1 \in 1 .. Len(returns) /\ Head(returns) = returns[1]
      /\ Len(returns') = Len(returns) - 1
      /\ \A i \in 1 .. Len(returns) - 1 :
            i \in Int /\ i + 1 \in 1 .. Len(returns) /\ returns'[i] = returns[i + 1] /\ 1 < i + 1
  BY <1>1, <1>2, TailFacts
<1>4. c \in Conns /\ c = returns[1].to /\ held' # << >> /\ held'[1] = returns[1]
  BY <1>1, <1>3 DEF Reports
<1> HIDE DEF c
<1>5. seqs[c] \in Nat
  BY <1>4 DEF IInv, TypeInv
<1>6. TypeInv'
  <2>1. held' \in {<<report>> : report \in Reports}
    BY <1>1, <1>3
  <2>2. seqs' \in [Conns -> Nat]
    BY <1>1, <1>4, <1>5 DEF IInv, TypeInv
  <2>. QED BY <1>1, <1>3, <2>1, <2>2 DEF IInv, TypeInv
<1>7. ASSUME NEW d \in Conns PROVE NumInv(d)'
  <2>0. NumInv(d) /\ ~HeldFor(d) /\ (HeldFor(d)' <=> d = c) /\ stream'[d] = stream[d]
    BY <1>1, <1>4 DEF IInv, HeldFor
  <2>1. CASE d = c
    <3>1. frame[c] # "absent"
      BY <1>3, <1>4, <2>0, <2>1 DEF NumInv
    <3>2. c \in writers => seqs'[c] = Len(stream[c]) + 1
      <4>1. seqs'[c] = seqs[c] + 1
        BY <1>1, <1>4 DEF IInv, TypeInv
      <4>2. c \in writers => seqs[c] = Len(stream[c])
        <5>1. stream[c] \in Seq(Stamps)
          BY <1>4 DEF IInv, TypeInv
        <5>2. Len(stream[c]) \in Nat
          BY <5>1
        <5>. QED BY <2>0, <2>1, <5>2 DEF NumInv
      <4>. QED BY <4>1, <4>2
    <3>. QED BY <1>1, <2>0, <2>1, <3>1, <3>2 DEF NumInv
  <2>2. CASE d # c
    <3>1. seqs'[d] = seqs[d]
      BY <1>1, <2>2 DEF IInv, TypeInv
    <3>2. frame[d] = "absent" => \A i \in 1 .. Len(returns') : returns'[i].to # d
      BY <1>3, <2>0 DEF NumInv
    <3>. QED BY <1>1, <2>0, <2>2, <3>1, <3>2, Zenon DEF NumInv
  <2>. QED BY <2>1, <2>2
<1>8. PipeInv'
  <2>1. ASSUME NEW d \in Conns, NEW i \in 1 .. Len(stream[d])
        PROVE  /\ Before(stream[d][i], held'[1])
               /\ \A j \in 1 .. Len(returns') : Before(stream[d][i], returns'[j])
    BY <1>3, <1>4, Zenon DEF IInv, PipeInv
  <2>2. \A j \in 1 .. Len(returns') : Before(held'[1], returns'[j])
    BY <1>3, <1>4 DEF IInv, PipeInv
  <2>3. ASSUME NEW i \in 1 .. Len(returns'), NEW j \in 1 .. Len(returns'), i < j
        PROVE  Before(returns'[i], returns'[j])
    <3>1. i + 1 < j + 1
      BY <1>3, <2>3
    <3>. QED BY <1>3, <3>1, ZenonT(40) DEF IInv, PipeInv
  <2>4. \A d \in Conns : \A i, j \in 1 .. Len(stream[d]) :
          i < j => Before(stream[d][i], stream[d][j])
    BY DEF IInv, PipeInv
  <2>5. stream' = stream
    BY <1>1
  <2>. QED BY <2>1, <2>2, <2>3, <2>4, <2>5 DEF PipeInv
<1>9. PastInv'
  <2>1. ASSUME NEW a, Past(a) PROVE Past(a)'
    BY <1>1, <2>1 DEF Past
  <2>2. \A d \in Conns : \A i \in 1 .. Len(stream[d]) : Past(stream[d][i])'
    BY <1>1, <2>1 DEF IInv, PastInv
  <2>3. Past(held[1])'
    BY <1>3, <1>4, <2>1 DEF IInv, PastInv
  <2>4. \A i \in 1 .. Len(returns') : Past(returns[i])'
    BY <1>3, <2>1, SMTT(30) DEF IInv, PastInv
  <2>. QED BY <1>1, <2>2, <2>3, <2>4 DEF PastInv
<1>10. QueueInv'
  BY <1>1 DEF IInv, QueueInv
<1>. QED BY <1>6, <1>7, <1>8, <1>9, <1>10 DEF IInv

\* The report in hand goes to its socket.
LEMMA WriteKeeps ==
    ASSUME IInv, Write
    PROVE  IInv'
<1> DEFINE c == held[1].to
           e == Stamped(held[1])
<1>1. /\ held # << >> /\ c \in writers /\ held' = << >>
      /\ stream' = [stream EXCEPT ![c] = Append(stream[c], e)]
      /\ DOMAIN unread' = Conns
      /\ UNCHANGED <<peer, frame, count, commands, busy, engineSeq, returns, writers, seqs>>
  BY DEF Write, IInv, TypeInv
<1>2. held[1] \in Reports
  BY <1>1, Singles DEF IInv
<1>3. /\ c \in Conns /\ e \in Stamps /\ e.seq = seqs[c]
      /\ e.engine = held[1].engine /\ e.from = held[1].from /\ e.n = held[1].n
  BY <1>2 DEF IInv, TypeInv, Stamped, Reports, Stamps
<1>4. HeldFor(c) /\ \A d \in Conns : d # c => ~HeldFor(d)
  BY <1>1 DEF HeldFor
<1> HIDE DEF c, e
<1>5. stream[c] \in Seq(Stamps)
  BY <1>3 DEF IInv, TypeInv
<1>6. /\ stream'[c] = Append(stream[c], e)
      /\ \A d \in Conns : d # c => stream'[d] = stream[d]
  BY <1>1, <1>3 DEF IInv, TypeInv
<1>7. /\ stream'[c] \in Seq(Stamps) /\ Len(stream'[c]) = Len(stream[c]) + 1 /\ Len(stream[c]) \in Nat
      /\ \A i \in 1 .. Len(stream[c]) : stream'[c][i] = stream[c][i]
      /\ stream'[c][Len(stream[c]) + 1] = e
      /\ \A i \in 1 .. Len(stream[c]) + 1 : i \in 1 .. Len(stream[c]) \/ i = Len(stream[c]) + 1
  BY <1>3, <1>5, <1>6, AppendFacts
<1>8. TypeInv'
  <2>1. stream' \in [Conns -> Seq(Stamps)]
    BY <1>1, <1>6, <1>7 DEF IInv, TypeInv
  <2>. QED BY <1>1, <2>1 DEF IInv, TypeInv
<1>9. ASSUME NEW d \in Conns PROVE NumInv(d)'
  <2>0. NumInv(d) /\ ~HeldFor(d)'
    BY <1>1 DEF IInv, HeldFor
  <2>1. CASE d = c
    <3>1. seqs[c] = Len(stream[c]) + 1 /\ frame[c] # "absent"
      BY <1>1, <1>4, <1>7, <2>0, <2>1 DEF NumInv
    <3>2. \A i \in 1 .. Len(stream'[c]) : stream'[c][i].seq = i
      BY <1>3, <1>7, <2>0, <2>1, <3>1, SMTT(30) DEF NumInv
    <3>3. seqs'[c] = Len(stream'[c]) + 0
      BY <1>1, <1>7, <3>1
    <3>. QED BY <1>1, <2>0, <2>1, <3>1, <3>2, <3>3 DEF NumInv
  <2>2. CASE d # c
    BY <1>1, <1>4, <1>6, <2>0, <2>2, Zenon DEF NumInv
  <2>. QED BY <2>1, <2>2
<1>10. \A x : (Before(x, held[1]) => Before(x, e)) /\ (Before(held[1], x) => Before(e, x))
  BY <1>3 DEF Before
<1>11. PipeInv'
  <2>1. ASSUME NEW d \in Conns, NEW i \in 1 .. Len(stream'[d]), NEW j \in 1 .. Len(stream'[d]), i < j
        PROVE  Before(stream'[d][i], stream'[d][j])
    <3>1. CASE d # c
      BY <1>6, <2>1, <3>1, SMTT(30) DEF IInv, PipeInv
    <3>2. CASE d = c
      <4>1. i \in 1 .. Len(stream[c])
        BY <1>7, <2>1, <3>2
      <4>2. CASE j \in 1 .. Len(stream[c])
        BY <1>3, <1>7, <2>1, <3>2, <4>1, <4>2, SMTT(30) DEF IInv, PipeInv
      <4>3. CASE j = Len(stream[c]) + 1
        BY <1>1, <1>3, <1>7, <1>10, <3>2, <4>1, <4>3, SMTT(30) DEF IInv, PipeInv
      <4>. QED BY <1>7, <3>2, <4>2, <4>3
    <3>. QED BY <3>1, <3>2
  <2>2. ASSUME NEW d \in Conns, NEW i \in 1 .. Len(stream'[d]), NEW j \in 1 .. Len(returns)
        PROVE  Before(stream'[d][i], returns[j])
    <3>1. CASE d # c
      BY <1>6, <3>1 DEF IInv, PipeInv
    <3>2. CASE d = c
      <4>1. CASE i \in 1 .. Len(stream[c])
        BY <1>3, <1>7, <3>2, <4>1 DEF IInv, PipeInv
      <4>2. CASE i = Len(stream[c]) + 1
        BY <1>1, <1>7, <1>10, <3>2, <4>2 DEF IInv, PipeInv
      <4>. QED BY <1>7, <3>2, <4>1, <4>2
    <3>. QED BY <3>1, <3>2
  <2>3. \A i, j \in 1 .. Len(returns) : i < j => Before(returns[i], returns[j])
    BY DEF IInv, PipeInv
  <2>4. (\A d \in Conns : \A i, j \in 1 .. Len(stream[d]) :
            i < j => Before(stream[d][i], stream[d][j]))'
    BY <2>1 DEF Before
  <2>5. (\A d \in Conns : \A i \in 1 .. Len(stream[d]) : \A j \in 1 .. Len(returns) :
            Before(stream[d][i], returns[j]))'
    BY <1>1, <2>2, SMTT(30) DEF Before
  <2>6. (\A i, j \in 1 .. Len(returns) : i < j => Before(returns[i], returns[j]))'
    BY <1>1, <2>3, SMTT(30) DEF Before
  <2>. QED BY <1>1, <2>4, <2>5, <2>6, SMTT(30) DEF PipeInv
<1>12. PastInv'
  <2>1. ASSUME NEW a, Past(a) PROVE Past(a)'
    BY <1>1, <2>1, SMTT(30) DEF Past
  <2>2. Past(e)
    BY <1>1, <1>3 DEF IInv, PastInv, Past
  <2>3. ASSUME NEW d \in Conns, NEW i \in 1 .. Len(stream'[d]) PROVE (Past(stream[d][i]))'
    <3>1. CASE d # c
      BY <1>6, <2>1, <3>1 DEF IInv, PastInv
    <3>2. CASE d = c
      BY <1>3, <1>7, <2>1, <2>2, <3>2 DEF IInv, PastInv
    <3>. QED BY <3>1, <3>2
  <2>4. \A i \in 1 .. Len(returns) : Past(returns[i])'
    BY <1>1, <2>1 DEF IInv, PastInv
  <2>. QED BY <1>1, <2>3, <2>4 DEF PastInv
<1>13. QueueInv'
  BY <1>1 DEF IInv, QueueInv
<1>. QED BY <1>8, <1>9, <1>11, <1>12, <1>13 DEF IInv

\* The report in hand is lost with its connection.
LEMMA WriteFailsKeeps ==
    ASSUME IInv, WriteFails
    PROVE  IInv'
<1> DEFINE c == held[1].to
<1>1. /\ held # << >> /\ held' = << >> /\ writers' = writers \ {c}
      /\ seqs' = [seqs EXCEPT ![c] = 0]
      /\ UNCHANGED <<peer, frame, count, commands, busy, engineSeq, returns, stream, unread>>
  BY DEF WriteFails
<1>2. c \in Conns /\ HeldFor(c) /\ \A d \in Conns : d # c => ~HeldFor(d)
  BY <1>1, Singles DEF IInv, HeldFor, Reports
<1> HIDE DEF c
<1>3. TypeInv'
  BY <1>1, <1>2 DEF IInv, TypeInv
<1>4. ASSUME NEW d \in Conns PROVE NumInv(d)'
  <2>0. NumInv(d) /\ ~HeldFor(d)'
    BY <1>1 DEF IInv, HeldFor
  <2>1. CASE d = c
    BY <1>1, <1>2, <2>0, <2>1 DEF NumInv
  <2>2. CASE d # c
    <3>1. seqs'[d] = seqs[d] /\ (d \in writers' <=> d \in writers)
      BY <1>1, <2>2 DEF IInv, TypeInv
    <3>. QED BY <1>1, <1>2, <2>0, <2>2, <3>1, Zenon DEF NumInv
  <2>. QED BY <2>1, <2>2
<1>5. PipeInv'
  BY <1>1, ZenonT(40) DEF IInv, PipeInv
<1>6. PastInv' /\ QueueInv'
  BY <1>1, ZenonT(40) DEF IInv, PastInv, Past, QueueInv
<1>. QED BY <1>3, <1>4, <1>5, <1>6, SMTT(30) DEF IInv

-----------------------------------------------------------------------------
(* Theorems *)

LEMMA NextIInv == IInv /\ [Next]_vars => IInv'
<1> SUFFICES ASSUME IInv, [Next]_vars PROVE IInv'
  OBVIOUS
<1>1. ASSUME NEW c \in Conns, OffPipe(c) PROVE IInv'
  BY <1>1, OffPipeKeeps
<1>2. ASSUME NEW c \in Conns, SendCommand(c) PROVE IInv'
  BY <1>2, SendCommandKeeps
<1>3. ASSUME NEW c \in Conns, SendReject(c) PROVE IInv'
  BY <1>3, SendRejectKeeps
<1>4. CASE Matching
  BY <1>4, TakeCommandKeeps, EmitKeeps DEF Matching
<1>5. CASE Dispatcher
  BY <1>5, DispatchKeeps, WriteKeeps, WriteFailsKeeps DEF Dispatcher
<1>6. CASE UNCHANGED vars
  <2>1. UNCHANGED <<peer, frame, count, commands, busy, engineSeq, returns, held, writers, seqs, stream, unread>>
    BY <1>6 DEF vars
  <2>2. TypeInv'
    BY <2>1 DEF IInv, TypeInv
  <2>3. \A c \in Conns : NumInv(c)'
    BY <2>1, NumQuiet DEF IInv
  <2>4. PipeInv'
    BY <2>1, PipeQuiet, SMTT(30) DEF IInv
  <2>5. PastInv' /\ QueueInv'
    BY <2>1 DEF IInv, PastInv, Past, QueueInv
  <2>. QED BY <2>2, <2>3, <2>4, <2>5 DEF IInv
<1>. QED BY <1>1, <1>2, <1>3, <1>4, <1>5, <1>6 DEF Next, ReaderSends, OffPipe

LEMMA IInvOrdered == IInv => StreamNumbered /\ EngineOrderKept /\ OwnAnswersOrdered
<1> SUFFICES ASSUME IInv PROVE StreamNumbered /\ EngineOrderKept /\ OwnAnswersOrdered
  OBVIOUS
<1>1. ASSUME NEW c \in Conns PROVE DOMAIN stream[c] = 1 .. Len(stream[c])
  <2>1. stream[c] \in Seq(Stamps)
    BY SMTT(30) DEF IInv, TypeInv
  <2>. QED BY <2>1
<1>2. StreamNumbered
  BY <1>1, ZenonT(40) DEF IInv, NumInv, StreamNumbered
<1>3. EngineOrderKept
  BY <1>1, Zenon DEF IInv, PipeInv, Before, EngineOrderKept
<1>4. OwnAnswersOrdered
  BY <1>1 DEF IInv, PipeInv, Before, OwnAnswersOrdered
<1>. QED BY <1>2, <1>3, <1>4

\* The dispatcher numbers the messages of every connection 1, 2, 3, ..., also
\* after failed writes and whatever the other connections do.
THEOREM StreamsNumbered == Spec => []StreamNumbered
<1>. QED BY InitIInv, NextIInv, IInvOrdered, PTL DEF Spec

\* Reports of a later command never overtake those of an earlier one on their
\* way through the return channel and the dispatcher.
THEOREM EngineNumbersOrdered == Spec => []EngineOrderKept
<1>. QED BY InitIInv, NextIInv, IInvOrdered, PTL DEF Spec

\* A client sees the answers to its own frames in their order, except that
\* rejects of the reader may come early.
THEOREM OwnAnswersInOrder == Spec => []OwnAnswersOrdered
<1>. QED BY InitIInv, NextIInv, IInvOrdered, PTL DEF Spec
=============================================================================
