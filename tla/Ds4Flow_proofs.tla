--------------------------- MODULE Ds4Flow_proofs ---------------------------
(* More about Ds4Bridge: what flows through it.  Commands and their answers,  *)
(* ACL packets and the dongle's buffers, reports and the ring buffers; and    *)
(* from these, that every variable keeps its type.                            *)
EXTENDS Ds4Bridge_proofs

(* The dongle is sent a command only while it has room for it. *)
Room == cmds > 0 => Len(asked) < CmdSlots
CommandInv == /\ cmds \in 0 .. 1 /\ asked \in Seq(Kinds) /\ Len(asked) <= CmdSlots
              /\ known \subseteq Facts /\ substate \in 0 .. LastSubstate
              /\ btinit \in -1 .. 38 /\ Room

(* The start-up asks for the three facts early and then sends other commands;
   status events for no command may end its waits before the answers are there.
   But the dongle answers in order: a fact that is not known when SentSince(b)
   commands have followed the request has them queued behind it. *)
SentSince(b) == IF b \in 0 .. 25 THEN (b + 1) \div 2
                ELSE IF b \in 26 .. 37 THEN (b - 1) \div 2 ELSE 17
Owed(f, s, k, n) == f \in k \/ \E i \in 1 .. Len(s) : s[i] = f /\ Len(s) - i >= n
AskedAt(f) == CASE f = "bdaddr" -> 5 [] f = "bufsize" -> 7 [] f = "features" -> 9
Catching == \A f \in Facts : substate >= AskedAt(f) /\ ~Working
                               => Owed(f, asked, known, SentSince(btinit))
Started == /\ substate < 9 => btinit = 0
           /\ substate \in 0 .. 10 \cup {28, LastSubstate}
           /\ btinit = -1 <=> substate \in {28, LastSubstate}
(* What the start-up sends after the last question. *)
StartUpCommands == 18
Learnt == CmdSlots <= StartUpCommands /\ Working => known = Facts
StartInv == Catching /\ Started /\ Learnt

(* ACL packets: what is outstanding of a link is counted in the dongle's total. *)
Outstanding == conn[Ds4].sent + conn[Ps4].sent
AclInv == /\ \A p \in Peers : conn[p].sent \in Nat
          /\ aclSent \in Nat /\ Outstanding <= aclSent /\ aclSent <= TotalAcl

(* The ring buffers: a slot in use holds the newest packet that was ever put in
   it, which has not been sent yet. *)
Slot == 0 .. QueueSize - 1
NotIn(s, v) == \A k \in 1 .. Len(s) : s[k] # v
Newest(r, n, s) ==
  \A i \in Slot : r[i] # 0 => /\ r[i] <= n /\ r[i] > n - QueueSize
                              /\ (r[i] - 1) % QueueSize = i /\ NotIn(s, r[i])
Known(s, n) == \A k \in 1 .. Len(s) : s[k] <= n
RingShape == /\ ring \in [Queues -> [Slot -> Nat]] /\ sent \in [Queues -> Seq(Nat)]
             /\ pushed \in [Queues -> Nat] /\ popped \in [Queues -> Nat]
RingInv == /\ RingShape
           /\ \A q \in Queues : /\ popped[q] <= pushed[q]
                                /\ Newest(ring[q], pushed[q], sent[q])
                                /\ Known(sent[q], pushed[q])

(* The rest of the types. *)
CreditInv == \A c \in Chans : chan[c].credit \in 0 .. 1
RestInv == /\ tx \in BOOLEAN /\ decline \in BOOLEAN /\ leaving \subseteq Peers
           /\ dangling \in BOOLEAN
           /\ sigq \in Seq(Peers \X {"refusal", "other"}) /\ Len(sigq) <= NrPending
----------------------------------------------------------------------------
(* Commands. *)

(* Once the stack works it sends one command at a time, and only with room. *)
OneCommand == /\ Working /\ cmds > 0 /\ SendCommand("other")
              /\ UNCHANGED <<known, substate, btinit>>
CommandMove == \/ (CanSendCommand /\ InitRun) \/ CommandAnswer \/ Nop \/ OneCommand
               \/ UNCHANGED cmdVars

LEMMA CommandMoves == ASSUME [Next]_vars PROVE CommandMove
<1> USE DEF CommandMove
<1>1. CASE StartUp \/ Answer \/ SpuriousStatus
  BY <1>1 DEF StartUp, InitRun, Answer, SpuriousStatus
<1>2. CASE Run
  BY <1>2 DEF Run, HciRun, OneCommand, CanSendCommand
<1>3. CASE Respond \/ OutDone \/ UNCHANGED vars
  BY <1>3 DEF Respond, Reply, OutDone, vars, radioVars
<1>4. ASSUME NEW c \in Chans, ChannelRun(c) \/ ChannelCreate(c) \/ RtxTimeout(c) PROVE CommandMove
  BY <1>4 DEF ChannelRun, ChannelCreate, RtxTimeout, CallPeer, OneCommand, CanSendCommand
<1>5. CASE Connect
  BY <1>5 DEF Connect, CallPeer, OneCommand, CanSendCommand, cmdVars
<1>6. ASSUME NEW q \in Queues, Reroute(q) PROVE CommandMove
  BY <1>6 DEF Reroute
<1>7. ASSUME NEW p \in Peers, IdleTimeout(p) PROVE CommandMove
  BY <1>7 DEF IdleTimeout, OneCommand, CanSendCommand
<1>8. CASE Delivered
  BY <1>8 DEF Delivered
<1>9. QED
  BY <1>1, <1>2, <1>3, <1>4, <1>5, <1>6, <1>7, <1>8
     DEF Next, Loop, Dongle, Peer, Timers, ConnectionRequest, StrangerRequest, OtherRequest,
         SigOnly, ChannelRequest, ConfigureRequest, DisconnectionRequest, ConnectionResponse,
         ConfigureResponse, Receive, ConnectionComplete, EncryptionChange, FeaturesComplete,
         LinkKeyRequest, DisconnectionComplete, NumberOfCompletedPackets, Outcome

LEMMA SentCommand ==
  ASSUME CommandInv, cmds > 0, NEW k \in Kinds, SendCommand(k)
  PROVE  /\ cmds' \in 0 .. 1 /\ asked' \in Seq(Kinds) /\ Len(asked') <= CmdSlots /\ Room'
         /\ asked' = Append(asked, k) /\ Len(asked') = Len(asked) + 1
BY CommandAssumption DEF CommandInv, Room, SendCommand

LEMMA Announces ==
  ASSUME NEW n \in Nat, n <= CmdSlots
  PROVE  Announced(n) \in 0 .. 1 /\ (Announced(n) > 0 => n < CmdSlots)
BY DEF Announced

LEMMA AdvancedStates ==
  ASSUME NEW k, substate \in 0 .. LastSubstate, btinit \in -1 .. 38
  PROVE  /\ Advanced(k) \in 0 .. LastSubstate /\ BtAdvanced(k) \in -1 .. 38
         /\ BtAdvanced(k) # btinit => btinit > 0
         /\ Advanced(k) = LastSubstate <=> Working
         /\ substate \in 1 .. 8 => Advanced(k) \in substate .. substate + 1 /\ Advanced(k) # 9
         /\ substate = 0 => Advanced(k) = 0
         /\ Advanced(k) \in substate .. substate + 1
         /\ substate >= 28 => Advanced(k) = substate
BY DEF Advanced, BtAdvanced, Working, LastSubstate

LEMMA CommandStep == CommandInv /\ [Next]_vars => CommandInv'
<1> SUFFICES ASSUME CommandInv, [Next]_vars PROVE CommandInv'
  OBVIOUS
<1>1. CASE CommandAnswer
  <2>1. /\ asked # <<>> /\ asked' = Tail(asked) /\ cmds' = Announced(Len(Tail(asked)))
        /\ known' = known \cup ({Head(asked)} \cap Facts)
        /\ substate' = Advanced(Head(asked)) /\ btinit' = BtAdvanced(Head(asked))
    BY <1>1 DEF CommandAnswer, Answered
  <2>2. /\ Tail(asked) \in Seq(Kinds) /\ Len(Tail(asked)) \in Nat
        /\ Len(Tail(asked)) <= CmdSlots
    BY <2>1, CommandAssumption DEF CommandInv
  <2>3. known' \subseteq Facts
    BY <2>1 DEF CommandInv
  <2>4. QED
    BY <2>1, <2>2, <2>3, Announces, AdvancedStates DEF CommandInv, Room
<1>2. CASE Nop
  <2>1. /\ asked' = asked /\ cmds' = Announced(Len(asked)) /\ known' = known
        /\ substate' = Advanced("nop") /\ btinit' = BtAdvanced("nop")
    BY <1>2 DEF Nop
  <2>2. Len(asked) \in Nat /\ Len(asked) <= CmdSlots
    BY DEF CommandInv
  <2>3. QED
    BY <2>1, <2>2, Announces, AdvancedStates DEF CommandInv, Room
<1>3. CASE OneCommand
  <2>1. cmds > 0 /\ SendCommand("other") /\ UNCHANGED <<known, substate, btinit>>
    BY <1>3 DEF OneCommand
  <2>2. "other" \in Kinds
    BY DEF Kinds
  <2>3. QED
    BY <2>1, <2>2, SentCommand DEF CommandInv
<1>4. CASE CanSendCommand /\ InitRun
  <2>1. cmds > 0 /\ known' = known
    BY <1>4 DEF CanSendCommand, InitRun
  <2>2. ASSUME NEW k \in Kinds, SendCommand(k), substate' \in 0 .. LastSubstate,
               btinit' \in -1 .. 38
        PROVE  CommandInv'
    BY <2>1, <2>2, SentCommand DEF CommandInv
  <2>3. ASSUME NEW k \in Kinds, NEW from, NEW to \in 0 .. LastSubstate, Step(k, from, to)
        PROVE  CommandInv'
    BY <2>2, <2>3 DEF Step, CommandInv
  <2>4. CASE Custom
    <3>1. CASE SendCommand("other") /\ substate' = 9 /\ btinit' = btinit + 1 /\ CustomSends
      BY <2>2, <3>1 DEF CustomSends, CommandInv, Kinds, LastSubstate
    <3>2. CASE /\ UNCHANGED <<cmds, asked>> /\ btinit % 2 = 0 /\ btinit \div 2 <= 18
               /\ btinit' = CustomSkip(btinit) /\ UNCHANGED substate
      BY <2>1, <3>2 DEF CustomSkip, CommandInv, Room
    <3>3. CASE UNCHANGED <<cmds, asked>> /\ btinit' = -1 /\ substate' = 28
      BY <2>1, <3>3 DEF CommandInv, Room, LastSubstate
    <3>4. QED
      BY <2>4, <3>1, <3>2, <3>3 DEF Custom
  <2>5. QED
    BY <1>4, <2>3, <2>4 DEF InitRun, Kinds, Facts, LastSubstate
<1>5. CASE UNCHANGED cmdVars
  BY <1>5 DEF cmdVars, CommandInv, Room
<1>6. QED
  BY <1>1, <1>2, <1>3, <1>4, <1>5, CommandMoves DEF CommandMove
----------------------------------------------------------------------------
(* The start-up. *)

(* The queue of answers: a request moves up, or has become a known fact. *)
LEMMA OwedAnswered ==
  ASSUME NEW f \in Facts, NEW s \in Seq(Kinds), s # <<>>, NEW k, NEW n \in Int, Owed(f, s, k, n)
  PROVE  Owed(f, Tail(s), k \cup ({Head(s)} \cap Facts), n)
<1>1. CASE f \in k
  BY <1>1 DEF Owed
<1>2. ASSUME NEW i \in 1 .. Len(s), s[i] = f, Len(s) - i >= n
      PROVE  Owed(f, Tail(s), k \cup ({Head(s)} \cap Facts), n)
  <2>1. CASE i = 1
    BY <1>2, <2>1 DEF Owed
  <2>2. CASE i # 1
    <3>1. i - 1 \in 1 .. Len(Tail(s)) /\ Tail(s)[i - 1] = f /\ Len(Tail(s)) - (i - 1) >= n
      BY <1>2, <2>2
    <3>2. QED
      BY <3>1 DEF Owed
  <2>3. QED
    BY <2>1, <2>2
<1>3. QED
  BY <1>1, <1>2 DEF Owed

LEMMA OwedSent ==
  ASSUME NEW f \in Facts, NEW s \in Seq(Kinds), NEW j \in Kinds, NEW k, NEW n \in Int,
         Owed(f, s, k, n)
  PROVE  Owed(f, Append(s, j), k, n + 1)
<1>1. CASE f \in k
  BY <1>1 DEF Owed
<1>2. ASSUME NEW i \in 1 .. Len(s), s[i] = f, Len(s) - i >= n
      PROVE  Owed(f, Append(s, j), k, n + 1)
  <2>1. i \in 1 .. Len(Append(s, j)) /\ Append(s, j)[i] = f /\ Len(Append(s, j)) - i >= n + 1
    BY <1>2
  <2>2. QED
    BY <2>1 DEF Owed
<1>3. QED
  BY <1>1, <1>2 DEF Owed

LEMMA OwedNew ==
  ASSUME NEW f \in Facts, NEW s \in Seq(Kinds), NEW k
  PROVE  Owed(f, Append(s, f), k, 0)
<1>1. /\ Len(s) + 1 \in 1 .. Len(Append(s, f)) /\ Append(s, f)[Len(s) + 1] = f
      /\ Len(Append(s, f)) - (Len(s) + 1) >= 0
  BY DEF Kinds
<1>2. QED
  BY <1>1 DEF Owed

LEMMA OwedLess ==
  ASSUME NEW f, NEW s, s \in Seq(Kinds), NEW k, NEW m \in Int, NEW n \in Int, m <= n, Owed(f, s, k, n)
  PROVE  Owed(f, s, k, m)
<1>1. CASE f \in k
  BY <1>1 DEF Owed
<1>2. ASSUME NEW i \in 1 .. Len(s), s[i] = f, Len(s) - i >= n PROVE Owed(f, s, k, m)
  <2>1. Len(s) - i >= m
    BY <1>2
  <2>2. QED
    BY <1>2, <2>1 DEF Owed
<1>3. QED
  BY <1>1, <1>2 DEF Owed

LEMMA SentSinceSteps ==
  /\ \A b \in -1 .. 38 : SentSince(b) \in Int
  /\ SentSince(0) = 0 /\ SentSince(-1) = 17
  /\ \A b \in 1 .. 38 : b % 2 = 1 => SentSince(b + 1) <= SentSince(b)
  /\ \A b \in 0 .. 38 : b % 2 = 0 /\ b \div 2 \in 0 .. 17
                          => SentSince(b + 1) <= SentSince(b) + 1
  /\ \A b \in {24, 36} : SentSince(b + 2) <= SentSince(b)
  /\ \A b \in 0 .. 38 : b \div 2 > 18 => SentSince(b) = 17
BY DEF SentSince

LEMMA FactsAsked ==
  /\ \A f \in Facts : AskedAt(f) \in {5, 7, 9} /\ f \in Kinds
  /\ AskedAt("bdaddr") = 5 /\ AskedAt("bufsize") = 7 /\ AskedAt("features") = 9
BY DEF AskedAt, Facts, Kinds

(* An answer or a status event: a wait may end, and no fact is lost sight of. *)
LEMMA CatchingAnswered ==
  ASSUME CommandInv, StartInv, NEW k,
         substate' = Advanced(k), btinit' = BtAdvanced(k),
         \/ /\ asked # <<>> /\ asked' = Tail(asked)
            /\ known' = known \cup ({Head(asked)} \cap Facts)
         \/ asked' = asked /\ known' = known
  PROVE  StartInv'
<1>1. substate \in 0 .. LastSubstate /\ btinit \in -1 .. 38 /\ asked \in Seq(Kinds)
      /\ known \subseteq Facts
  BY DEF CommandInv
<1>2. known' \subseteq Facts /\ known \subseteq known'
  BY <1>1
<1>3. SentSince(btinit') <= SentSince(btinit)
  <2>1. CASE btinit' = btinit
    <3>1. SentSince(btinit) \in Int
      BY <1>1, SentSinceSteps
    <3>2. QED
      BY <2>1, <3>1
  <2>2. CASE btinit \in 1 .. 38 /\ btinit % 2 = 1 /\ btinit' = btinit + 1
    BY <2>2, SentSinceSteps
  <2>3. QED
    BY <1>1, <2>1, <2>2 DEF BtAdvanced
<1>4. Catching'
  <2> SUFFICES ASSUME NEW f \in Facts, substate' >= AskedAt(f), ~Working'
               PROVE  Owed(f, asked', known', SentSince(btinit'))
    BY DEF Catching
  <2>1. substate >= AskedAt(f) /\ ~Working
    BY <1>1, AdvancedStates, FactsAsked DEF Working, Advanced, LastSubstate
  <2>2. Owed(f, asked, known, SentSince(btinit)) /\ SentSince(btinit) \in Int
    <3>1. Owed(f, asked, known, SentSince(btinit))
      BY <2>1 DEF StartInv, Catching
    <3>2. QED
      BY <1>1, <3>1, SentSinceSteps
  <2>3. Owed(f, asked', known', SentSince(btinit))
    BY <1>1, <2>2, OwedAnswered
  <2>4. asked' \in Seq(Kinds) /\ btinit' \in -1 .. 38
    BY <1>1, AdvancedStates
  <2>5. SentSince(btinit') \in Int
    BY <2>4, SentSinceSteps
  <2>6. QED
    BY <1>3, <2>2, <2>3, <2>4, <2>5, OwedLess
<1>5. Started'
  BY <1>1, AdvancedStates DEF StartInv, Started, Advanced, BtAdvanced, Working, LastSubstate
<1>6. Learnt'
  BY <1>1, <1>2, AdvancedStates DEF StartInv, Learnt, Working
<1>7. QED
  BY <1>4, <1>5, <1>6 DEF StartInv

(* What is asked before the stack works: each fact first, then the others. *)
LEMMA StartInvStep == CommandInv /\ StartInv /\ [Next]_vars => StartInv'
<1> SUFFICES ASSUME CommandInv, StartInv, [Next]_vars PROVE StartInv'
  OBVIOUS
<1>1. CASE CommandAnswer
  BY <1>1, CatchingAnswered DEF CommandAnswer, Answered
<1>2. CASE Nop
  BY <1>2, CatchingAnswered DEF Nop
<1>3. CASE OneCommand
  BY <1>3 DEF OneCommand, StartInv, Catching, Started, Learnt, Working
<1>4. CASE UNCHANGED cmdVars
  BY <1>4 DEF cmdVars, StartInv, Catching, Started, Learnt, Working
<1>5. CASE CanSendCommand /\ InitRun
  <2>1. cmds > 0 /\ known' = known
    BY <1>5 DEF CanSendCommand, InitRun
  <2>2. /\ substate \in 0 .. LastSubstate /\ btinit \in -1 .. 38 /\ asked \in Seq(Kinds)
        /\ known \subseteq Facts /\ Len(asked) < CmdSlots /\ CmdSlots \in Nat
    BY <2>1, CommandAssumption DEF CommandInv, Room
  <2>3. SentSince(btinit) \in Int
    BY <2>2, SentSinceSteps
  <2>4. CASE Step("reset", {0}, 1)
    BY <2>1, <2>4, FactsAsked DEF Step, StartInv, Catching, Started, Learnt, Working, LastSubstate
  <2>5. ASSUME NEW g \in Facts, NEW from, Step(g, from, AskedAt(g)),
               \A s \in from : s < AskedAt(g) /\ s \in 0 .. 8,
               \A f \in Facts, s \in from : AskedAt(f) <= AskedAt(g) /\ f # g => AskedAt(f) <= s
        PROVE  StartInv'
    <3>1. /\ asked' = Append(asked, g) /\ btinit' = btinit
          /\ substate' = AskedAt(g) /\ substate \in from
      BY <2>5 DEF Step, SendCommand
    <3>2. btinit = 0 /\ substate \in 0 .. 8 /\ substate' <= 9 /\ substate' \in Int
      BY <2>5, <3>1, FactsAsked DEF StartInv, Started
    <3>3. Catching'
      <4> SUFFICES ASSUME NEW f \in Facts, substate' >= AskedAt(f)
                   PROVE  Owed(f, asked', known', SentSince(btinit'))
        BY DEF Catching
      <4>1. CASE f = g
        BY <2>1, <2>2, <3>1, <3>2, <4>1, OwedNew, SentSinceSteps
      <4>2. CASE f # g
        <5>1. substate >= AskedAt(f)
          BY <2>5, <3>1, <4>2, FactsAsked
        <5>2. ~Working
          BY <3>2 DEF Working, LastSubstate
        <5>3. Owed(f, asked, known, 0)
          BY <3>2, <5>1, <5>2, SentSinceSteps DEF StartInv, Catching
        <5>4. Owed(f, asked', known', 1) /\ asked' \in Seq(Kinds)
          BY <2>1, <2>2, <3>1, <5>3, OwedSent, FactsAsked
        <5>5. Owed(f, asked', known', 0)
          BY <5>4, OwedLess
        <5>6. QED
          BY <3>1, <3>2, <5>5, SentSinceSteps
      <4>3. QED
        BY <4>1, <4>2
    <3>4. Started' /\ Learnt'
      BY <3>1, <3>2, FactsAsked DEF Started, Learnt, Working, LastSubstate
    <3>5. QED
      BY <3>3, <3>4 DEF StartInv
  <2>6. CASE Step("bdaddr", {2, 4}, 5)
    <3>1. Step("bdaddr", {2, 4}, AskedAt("bdaddr")) /\ "bdaddr" \in Facts
      BY <2>6, FactsAsked DEF Facts
    <3>2. \A f \in Facts : AskedAt(f) <= AskedAt("bdaddr") => f = "bdaddr"
      BY FactsAsked DEF Facts
    <3>3. QED
      BY <2>5, <3>1, <3>2, FactsAsked
  <2>7. CASE Step("bufsize", {6}, 7)
    <3>1. Step("bufsize", {6}, AskedAt("bufsize")) /\ "bufsize" \in Facts
      BY <2>7, FactsAsked DEF Facts
    <3>2. \A f \in Facts : AskedAt(f) <= AskedAt("bufsize") /\ f # "bufsize" => AskedAt(f) <= 6
      BY FactsAsked DEF Facts
    <3>3. QED
      BY <2>5, <3>1, <3>2, FactsAsked
  <2>8. CASE Step("features", {8}, 9)
    <3>1. Step("features", {8}, AskedAt("features")) /\ "features" \in Facts
      BY <2>8, FactsAsked DEF Facts
    <3>2. \A f \in Facts : f # "features" => AskedAt(f) <= 8
      BY FactsAsked DEF Facts
    <3>3. QED
      BY <2>5, <3>1, <3>2, FactsAsked
  <2>9. CASE Custom
    <3>1. substate = 10 /\ ~Working /\ btinit # -1
      BY <2>9 DEF Custom, Working, LastSubstate, StartInv, Started
    <3>2. \A f \in Facts : Owed(f, asked, known, SentSince(btinit))
      BY <3>1, FactsAsked DEF StartInv, Catching
    <3>3. CASE /\ btinit % 2 = 0 /\ CustomSends /\ btinit' = btinit + 1 /\ substate' = 9
               /\ SendCommand("other")
      <4>1. asked' = Append(asked, "other") /\ "other" \in Kinds
        BY <3>3 DEF SendCommand, Kinds
      <4>2. SentSince(btinit') <= SentSince(btinit) + 1 /\ btinit' \in -1 .. 38
        <5>1. btinit \in 0 .. 35 /\ btinit \div 2 \in 0 .. 17
          BY <2>2, <3>1, <3>3 DEF CustomSends
        <5>2. QED
          BY <3>3, <5>1, SentSinceSteps
      <4>3. SentSince(btinit') \in Int
        BY <4>2, SentSinceSteps
      <4>4. asked' \in Seq(Kinds)
        BY <2>2, <4>1
      <4>5. \A f \in Facts : Owed(f, asked', known', SentSince(btinit) + 1)
        BY <2>1, <2>2, <2>3, <3>2, <4>1, OwedSent
      <4>6. \A f \in Facts : Owed(f, asked', known', SentSince(btinit'))
        BY <2>3, <4>2, <4>3, <4>4, <4>5, OwedLess
      <4>7. QED
        BY <2>2, <3>1, <3>3, <4>6 DEF StartInv, Catching, Started, Learnt, Working, LastSubstate
    <3>4. CASE /\ btinit % 2 = 0 /\ ~CustomSends /\ btinit \div 2 <= 18
               /\ btinit' = CustomSkip(btinit) /\ UNCHANGED <<substate, cmds, asked>>
      <4>1. btinit = 24 \/ btinit = 36
        BY <2>2, <3>1, <3>4 DEF CustomSends
      <4>2. SentSince(btinit') <= SentSince(btinit) /\ btinit' \in -1 .. 38 /\ btinit' # -1
        BY <3>4, <4>1, SentSinceSteps DEF CustomSkip
      <4>3. SentSince(btinit') \in Int
        BY <4>2, SentSinceSteps
      <4>4. \A f \in Facts : Owed(f, asked', known', SentSince(btinit'))
        BY <2>1, <2>2, <2>3, <3>2, <3>4, <4>2, <4>3, OwedLess
      <4>5. QED
        BY <3>1, <3>4, <4>2, <4>4 DEF StartInv, Catching, Started, Learnt, Working, LastSubstate
    <3>5. CASE btinit \div 2 > 18 /\ btinit' = -1 /\ substate' = 28 /\ UNCHANGED <<cmds, asked>>
      <4>1. SentSince(btinit') = SentSince(btinit)
        <5>1. btinit \in 0 .. 38
          BY <2>2, <3>5
        <5>2. SentSince(btinit) = 17 /\ SentSince(btinit') = 17
          BY <3>5, <5>1, SentSinceSteps
        <5>3. QED
          BY <5>2
      <4>2. \A f \in Facts : Owed(f, asked', known', SentSince(btinit'))
        BY <2>1, <3>2, <3>5, <4>1
      <4>3. QED
        BY <3>5, <4>2 DEF StartInv, Catching, Started, Learnt, Working, LastSubstate
    <3>6. QED
      BY <2>9, <3>3, <3>4, <3>5 DEF Custom
  <2>10. CASE Step("scan", {28}, LastSubstate)
    <3>1. /\ substate = 28 /\ substate' = LastSubstate /\ btinit' = btinit /\ ~Working
          /\ asked' = Append(asked, "scan")
      BY <2>10 DEF Step, SendCommand, Working, LastSubstate
    <3>2. ASSUME NEW f \in Facts, CmdSlots <= StartUpCommands PROVE f \in known
      <4>1. Owed(f, asked, known, SentSince(btinit))
        BY <3>1, FactsAsked DEF StartInv, Catching
      <4>2. SentSince(btinit) = 17
        BY <3>1, SentSinceSteps DEF StartInv, Started, LastSubstate
      <4>3. QED
        BY <2>2, <2>3, <3>2, <4>1, <4>2 DEF Owed, StartUpCommands
    <3>3. Learnt'
      BY <2>1, <2>2, <3>2 DEF Learnt
    <3>4. Catching' /\ Started'
      BY <3>1 DEF StartInv, Catching, Started, Working, LastSubstate
    <3>5. QED
      BY <3>3, <3>4 DEF StartInv
  <2>11. QED
    BY <1>5, <2>4, <2>6, <2>7, <2>8, <2>9, <2>10 DEF InitRun
<1>6. QED
  BY <1>1, <1>2, <1>3, <1>4, <1>5, CommandMoves DEF CommandMove

LEMMA CommandsInit == Init => CommandInv /\ StartInv
<1> SUFFICES ASSUME Init PROVE CommandInv /\ StartInv
  OBVIOUS
<1>1. CommandInv
  BY CommandAssumption DEF Init, CommandInit, CommandInv, Room, LastSubstate
<1>2. StartInv
  BY FactsAsked DEF Init, CommandInit, StartInv, Catching, Started, Learnt, Working, LastSubstate
<1>3. QED
  BY <1>1, <1>2

(* ReadyMeansKnown: a stack that works knows its address, the dongle's buffers
   and its features, whatever status events for no command end the waits of the
   start-up early.  The dongle must not be able to queue more commands than the
   start-up sends after its last question: with 19, and without Secure Simple
   Pairing, enough status events bring the stack to work knowing nothing. *)
THEOREM KnownWhenReady ==
  ASSUME CmdSlots <= StartUpCommands
  PROVE  Spec => []ReadyMeansKnown
<1>1. CommandInv /\ StartInv => ReadyMeansKnown
  BY DEF StartInv, Learnt, ReadyMeansKnown
<1>2. QED
  BY <1>1, CommandsInit, CommandStep, StartInvStep, PTL DEF Spec
----------------------------------------------------------------------------
(* The ring buffers. *)

LEMMA SmallMultiple ==
  ASSUME NEW e \in Int, NEW x \in Int, x = QueueSize * e, -QueueSize < x, x < QueueSize
  PROVE  e = 0
<1>1. QueueSize \in Nat \ {0}
  BY BridgeAssumption
<1>2. e >= 1 => QueueSize * e >= QueueSize
  BY <1>1
<1>3. e <= -1 => QueueSize * e <= -QueueSize
  BY <1>1
<1>4. QED
  BY <1>1, <1>2, <1>3

LEMMA SlotAgain ==
  ASSUME NEW n \in Int
  PROVE  (n - QueueSize) % QueueSize = n % QueueSize /\ n % QueueSize \in Slot
<1> DEFINE a == n \div QueueSize
           b == (n - QueueSize) \div QueueSize
           r == n % QueueSize
           s == (n - QueueSize) % QueueSize
<1>1. QueueSize \in Nat \ {0}
  BY BridgeAssumption
<1>2. /\ a \in Int /\ b \in Int /\ r \in 0 .. QueueSize - 1 /\ s \in 0 .. QueueSize - 1
      /\ n = QueueSize * a + r /\ n - QueueSize = QueueSize * b + s
  BY <1>1
<1>3. r \in Slot
  BY <1>2 DEF Slot
<1> HIDE DEF a, b, r, s
<1>4. s - r = QueueSize * (a - b - 1)
  BY <1>1, <1>2
<1>5. a - b - 1 = 0
  BY <1>1, <1>2, <1>4, SmallMultiple
<1>6. s = r
  BY <1>1, <1>2, <1>4, <1>5
<1>7. QED
  BY <1>3, <1>6 DEF r, s

(* A push takes the slot of the oldest packet that could still be there. *)
LEMMA PushedNewest ==
  ASSUME NEW r \in [Slot -> Nat], NEW n \in Nat, NEW s \in Seq(Nat), Newest(r, n, s), Known(s, n)
  PROVE  LET x == [r EXCEPT ![n % QueueSize] = n + 1]
         IN x \in [Slot -> Nat] /\ Newest(x, n + 1, s) /\ Known(s, n + 1)
<1> DEFINE j == n % QueueSize
           x == [r EXCEPT ![j] = n + 1]
<1>1. j \in Slot /\ (n - QueueSize) % QueueSize = j /\ QueueSize \in Nat \ {0}
  BY SlotAgain, BridgeAssumption
<1>2. x \in [Slot -> Nat] /\ x[j] = n + 1 /\ \A i \in Slot \ {j} : x[i] = r[i]
  BY <1>1
<1>3. (x[j] - 1) % QueueSize = j
  BY <1>2
<1> HIDE DEF j, x
<1>4. Known(s, n + 1) /\ NotIn(s, n + 1)
  BY DEF Known, NotIn
<1>5. ASSUME NEW i \in Slot \ {j}, x[i] # 0
      PROVE  /\ x[i] <= n + 1 /\ x[i] > n + 1 - QueueSize
             /\ (x[i] - 1) % QueueSize = i /\ NotIn(s, x[i])
  <2>1. r[i] <= n /\ r[i] > n - QueueSize /\ (r[i] - 1) % QueueSize = i /\ NotIn(s, r[i])
    BY <1>2, <1>5 DEF Newest
  <2>2. r[i] - 1 # n - QueueSize /\ r[i] \in Nat
    BY <1>1, <2>1
  <2>3. QED
    BY <1>1, <1>2, <2>1, <2>2
<1>6. Newest(x, n + 1, s)
  <2>1. ASSUME NEW i \in Slot, x[i] # 0
        PROVE  /\ x[i] <= n + 1 /\ x[i] > n + 1 - QueueSize
               /\ (x[i] - 1) % QueueSize = i /\ NotIn(s, x[i])
    <3>1. CASE i = j
      BY <1>1, <1>2, <1>3, <1>4, <3>1
    <3>2. CASE i # j
      BY <1>5, <2>1, <3>2
    <3>3. QED
      BY <3>1, <3>2
  <2>2. QED
    BY <1>1, <1>2, <2>1 DEF Newest
<1>7. QED
  BY <1>2, <1>4, <1>6 DEF j, x

(* A pop empties its slot; what it held is in no other. *)
LEMMA PoppedNewest ==
  ASSUME NEW r \in [Slot -> Nat], NEW n \in Nat, NEW s \in Seq(Nat), NEW j \in Slot,
         Newest(r, n, s), Known(s, n)
  PROVE  LET x == [r EXCEPT ![j] = 0]
             t == Append(s, r[j])
         IN /\ x \in [Slot -> Nat] /\ Newest(x, n, s)
            /\ r[j] # 0 => t \in Seq(Nat) /\ Newest(x, n, t) /\ Known(t, n)
<1> DEFINE x == [r EXCEPT ![j] = 0]
           t == Append(s, r[j])
<1>1. x \in [Slot -> Nat] /\ x[j] = 0 /\ \A i \in Slot \ {j} : x[i] = r[i]
  OBVIOUS
<1>2. Newest(x, n, s)
  BY <1>1 DEF Newest
<1>3. ASSUME r[j] # 0 PROVE t \in Seq(Nat) /\ Newest(x, n, t) /\ Known(t, n)
  <2>1. /\ t \in Seq(Nat) /\ Len(t) = Len(s) + 1
        /\ \A k \in 1 .. Len(t) : t[k] = IF k = Len(t) THEN r[j] ELSE s[k]
    OBVIOUS
  <2>2. r[j] <= n /\ (r[j] - 1) % QueueSize = j
    BY <1>3 DEF Newest
  <2>3. Known(t, n)
    BY <2>1, <2>2 DEF Known
  <2>4. \A i \in Slot \ {j} : r[i] # 0 => r[i] # r[j]
    BY <2>2 DEF Newest
  <2> HIDE DEF x, t
  <2>5. ASSUME NEW i \in Slot, x[i] # 0 PROVE NotIn(t, x[i])
    <3>1. i # j /\ x[i] = r[i] /\ NotIn(s, r[i]) /\ r[i] # r[j]
      BY <1>1, <2>4, <2>5 DEF Newest
    <3>2. Len(s) \in Nat
      OBVIOUS
    <3>3. QED
      BY <2>1, <3>1, <3>2 DEF NotIn
  <2>6. QED
    BY <1>2, <2>1, <2>3, <2>5 DEF Newest
<1>4. QED
  BY <1>1, <1>2, <1>3

(* What an action does to the ring buffers. *)
Forward(q) == /\ Count(q) # 0 /\ Pop(q)
              /\ \/ UNCHANGED sent
                 \/ Front(q) # 0 /\ sent' = [sent EXCEPT ![q] = Append(@, Front(q))]
RingMove == (\E q \in Queues : Push(q) \/ Forward(q)) \/ UNCHANGED ringVars

LEMMA RingMoves == ASSUME [Next]_vars PROVE RingMove
<1>1. ASSUME NEW q \in Queues, Receive(q) PROVE RingMove
  BY <1>1 DEF Receive, RingMove
<1>2. ASSUME NEW q \in Queues, Reroute(q) PROVE RingMove
  <2>1. Forward(q)
    BY <1>2 DEF Reroute, Forward
  <2>2. QED
    BY <2>1 DEF RingMove
<1>3. CASE UNCHANGED ringVars
  BY <1>3 DEF RingMove
<1>4. CASE Loop
  BY <1>3, <1>4 DEF Loop, StartUp, Above, Run, Respond, ChannelRun, ChannelCreate
<1>5. CASE Dongle
  BY <1>3, <1>5 DEF Dongle, Answer, Above, OutDone, ConnectionComplete, EncryptionChange,
     FeaturesComplete, LinkKeyRequest, DisconnectionComplete, NumberOfCompletedPackets
<1>6. CASE Peer
  BY <1>1, <1>3, <1>6 DEF Peer, ConnectionRequest, StrangerRequest, OtherRequest, SigOnly,
     ChannelRequest, ChannelOnly, ConfigureRequest, DisconnectionRequest, ConnectionResponse,
     ConfigureResponse
<1>7. CASE Timers \/ SpuriousStatus \/ Connect
  BY <1>3, <1>7 DEF Timers, IdleTimeout, RtxTimeout, ChannelOnly, SpuriousStatus, Above, Connect
<1>8. CASE UNCHANGED vars
  BY <1>3, <1>8 DEF vars
<1>9. QED
  BY <1>2, <1>4, <1>5, <1>6, <1>7, <1>8 DEF Next

LEMMA RingInit == Init => RingInv
<1> SUFFICES ASSUME Init PROVE RingInv
  OBVIOUS
<1>1. RingShape
  BY DEF Init, RingShape, Slot
<1>2. ASSUME NEW q \in Queues
      PROVE  popped[q] <= pushed[q] /\ Newest(ring[q], pushed[q], sent[q]) /\ Known(sent[q], pushed[q])
  BY DEF Init, Newest, Known, Slot
<1>3. QED
  BY <1>1, <1>2 DEF RingInv

(* Only the queue that is used changes. *)
LEMMA OneQueue ==
  ASSUME RingInv, NEW q \in Queues, NEW r \in [Slot -> Nat], NEW s \in Seq(Nat),
         NEW n \in Nat, NEW m \in Nat,
         ring' = [ring EXCEPT ![q] = r], sent' = [sent EXCEPT ![q] = s],
         pushed' = [pushed EXCEPT ![q] = n], popped' = [popped EXCEPT ![q] = m],
         m <= n, Newest(r, n, s), Known(s, n)
  PROVE  RingInv'
<1>1. RingShape'
  BY DEF RingInv, RingShape
<1>2. ASSUME NEW u \in Queues
      PROVE  /\ popped'[u] <= pushed'[u] /\ Newest(ring'[u], pushed'[u], sent'[u])
             /\ Known(sent'[u], pushed'[u])
  <2>1. CASE u = q
    BY <2>1 DEF RingInv, RingShape
  <2>2. CASE u # q
    BY <2>2 DEF RingInv, RingShape
  <2>3. QED
    BY <2>1, <2>2
<1>3. QED
  BY <1>1, <1>2 DEF RingInv, Newest, Known, NotIn

LEMMA CountZero == 0 % CountMod = 0
BY BridgeAssumption

LEMMA RingStep == RingInv /\ [Next]_vars => RingInv'
<1> SUFFICES ASSUME RingInv, [Next]_vars PROVE RingInv'
  OBVIOUS
<1>1. ASSUME NEW q \in Queues
      PROVE  /\ ring[q] \in [Slot -> Nat] /\ sent[q] \in Seq(Nat)
             /\ pushed[q] \in Nat /\ popped[q] \in Nat /\ popped[q] <= pushed[q]
             /\ Newest(ring[q], pushed[q], sent[q]) /\ Known(sent[q], pushed[q])
  BY DEF RingInv, RingShape
<1>2. ASSUME NEW q \in Queues, Push(q) PROVE RingInv'
  <2> DEFINE r == [ring[q] EXCEPT ![pushed[q] % QueueSize] = pushed[q] + 1]
  <2>1. /\ r \in [Slot -> Nat] /\ Newest(r, pushed[q] + 1, sent[q])
        /\ Known(sent[q], pushed[q] + 1)
    BY <1>1, PushedNewest
  <2>2. /\ ring' = [ring EXCEPT ![q] = r] /\ pushed' = [pushed EXCEPT ![q] = pushed[q] + 1]
        /\ sent' = [sent EXCEPT ![q] = sent[q]] /\ popped' = [popped EXCEPT ![q] = popped[q]]
    BY <1>2 DEF Push, RingInv, RingShape
  <2> HIDE DEF r
  <2>3. popped[q] <= pushed[q] + 1 /\ pushed[q] + 1 \in Nat
    BY <1>1
  <2>4. QED
    BY <1>1, <2>1, <2>2, <2>3, OneQueue
<1>3. ASSUME NEW q \in Queues, Forward(q) PROVE RingInv'
  <2> DEFINE j == popped[q] % QueueSize
             r == [ring[q] EXCEPT ![j] = 0]
  <2>1. j \in Slot
    BY <1>1, SlotAgain
  <2>2. pushed[q] # popped[q]
    BY <1>1, <1>3, CountZero DEF Forward, Count
  <2>3. popped[q] + 1 <= pushed[q] /\ popped[q] + 1 \in Nat
    BY <1>1, <2>2
  <2>4. /\ ring' = [ring EXCEPT ![q] = r] /\ pushed' = [pushed EXCEPT ![q] = pushed[q]]
        /\ popped' = [popped EXCEPT ![q] = popped[q] + 1]
    BY <1>3 DEF Forward, Pop, Popped, RingInv, RingShape
  <2>5. /\ r \in [Slot -> Nat] /\ Newest(r, pushed[q], sent[q])
        /\ ring[q][j] # 0 => /\ Append(sent[q], ring[q][j]) \in Seq(Nat)
                             /\ Newest(r, pushed[q], Append(sent[q], ring[q][j]))
                             /\ Known(Append(sent[q], ring[q][j]), pushed[q])
    BY <1>1, <2>1, PoppedNewest
  <2>6. \/ sent' = [sent EXCEPT ![q] = sent[q]]
        \/ ring[q][j] # 0 /\ sent' = [sent EXCEPT ![q] = Append(sent[q], ring[q][j])]
    BY <1>3 DEF Forward, Front, RingInv, RingShape
  <2> HIDE DEF j, r
  <2>7. CASE sent' = [sent EXCEPT ![q] = sent[q]]
    BY <1>1, <2>3, <2>4, <2>5, <2>7, OneQueue
  <2>8. CASE ring[q][j] # 0 /\ sent' = [sent EXCEPT ![q] = Append(sent[q], ring[q][j])]
    <3> DEFINE t == Append(sent[q], ring[q][j])
    <3>1. t \in Seq(Nat) /\ Newest(r, pushed[q], t) /\ Known(t, pushed[q])
      BY <2>5, <2>8
    <3>2. sent' = [sent EXCEPT ![q] = t]
      BY <2>8
    <3> HIDE DEF t
    <3>3. QED
      BY <1>1, <2>3, <2>4, <2>5, <3>1, <3>2, OneQueue
  <2>9. QED
    BY <2>6, <2>7, <2>8
<1>4. CASE UNCHANGED ringVars
  BY <1>4 DEF ringVars, RingInv, RingShape, Newest, Known, NotIn
<1>5. QED
  BY <1>2, <1>3, <1>4, RingMoves DEF RingMove

(* Fresh: whatever is sent on was not sent before and is among the newest
   packets the queue has room for, also when packets came so fast that they
   overran those before them: for every size of the queues. *)
THEOREM NothingStale == Spec => Fresh
<1>1. ASSUME RingInv, [Next]_vars
      PROVE  [\A q \in Queues : sent'[q] # sent[q] =>
                LET n == sent'[q][Len(sent'[q])]
                IN /\ n > pushed[q] - QueueSize
                   /\ \A i \in 1 .. Len(sent[q]) : sent[q][i] # n]_vars
  <2> SUFFICES ASSUME NEW q \in Queues, sent'[q] # sent[q]
               PROVE  LET n == sent'[q][Len(sent'[q])]
                      IN n > pushed[q] - QueueSize /\ \A i \in 1 .. Len(sent[q]) : sent[q][i] # n
    OBVIOUS
  <2>1. Forward(q) /\ Front(q) # 0 /\ sent' = [sent EXCEPT ![q] = Append(@, Front(q))]
    <3>1. PICK u \in Queues : Forward(u)
      BY <1>1, RingMoves DEF RingMove, ringVars, Push
    <3>2. Front(u) # 0 /\ sent' = [sent EXCEPT ![u] = Append(@, Front(u))]
      BY <3>1 DEF Forward
    <3>3. u = q
      BY <1>1, <3>2 DEF RingInv, RingShape
    <3>4. QED
      BY <3>1, <3>2, <3>3
  <2>2. /\ ring[q] \in [Slot -> Nat] /\ sent[q] \in Seq(Nat) /\ pushed[q] \in Nat
        /\ popped[q] \in Nat /\ Newest(ring[q], pushed[q], sent[q])
    BY <1>1 DEF RingInv, RingShape
  <2>3. Front(q) \in Nat /\ Front(q) > pushed[q] - QueueSize /\ NotIn(sent[q], Front(q))
    <3>1. popped[q] % QueueSize \in Slot
      BY <2>2, SlotAgain
    <3>2. QED
      BY <2>1, <2>2, <3>1 DEF Front, Newest
  <2>4. sent'[q] = Append(sent[q], Front(q))
    BY <1>1, <2>1 DEF RingInv, RingShape
  <2>5. sent'[q][Len(sent'[q])] = Front(q)
    BY <2>2, <2>3, <2>4
  <2>6. QED
    BY <2>3, <2>5 DEF NotIn
<1>2. QED
  BY <1>1, RingInit, RingStep, PTL DEF Spec, Fresh
----------------------------------------------------------------------------
(* The rest of the types: one look at each action. *)
LEMMA RestStep == RestInv /\ [Next]_vars => RestInv'
<1> SUFFICES ASSUME RestInv, [Next]_vars PROVE RestInv'
  OBVIOUS
<1> DEFINE Flags == tx \in BOOLEAN /\ decline \in BOOLEAN /\ leaving \subseteq Peers
                    /\ dangling \in BOOLEAN
           Queue == sigq \in Seq(Peers \X {"refusal", "other"}) /\ Len(sigq) <= NrPending
<1>1. Flags /\ Queue
  BY DEF RestInv
<1>2. ASSUME NEW r \in Peers \X {"refusal", "other"}, sigq' = Registered(r) PROVE Queue'
  BY <1>1, <1>2, L2capAssumption DEF Registered
<1>3. sigq # <<>> => /\ Tail(sigq) \in Seq(Peers \X {"refusal", "other"})
                     /\ Len(Tail(sigq)) <= NrPending
  BY <1>1, L2capAssumption
<1>4. Flags' /\ Queue' => RestInv'
  BY DEF RestInv
<1>5. CASE UNCHANGED <<tx, decline, leaving, dangling, sigq>>
  BY <1>5 DEF RestInv
<1>6. CASE StartUp \/ Answer \/ SpuriousStatus \/ UNCHANGED vars
  <2>1. UNCHANGED <<tx, decline, leaving, dangling, sigq>>
    BY <1>6 DEF StartUp, InitRun, Step, Custom, SendCommand, Answer, CommandAnswer, SpuriousStatus,
       Nop, Above, linkVars, chanVars, txVars, vars, radioVars
  <2>2. QED
    BY <1>5, <2>1
<1>7. CASE Run
  BY <1>1, <1>4, <1>7 DEF Run, HciRun, SendCommand, chanVars
<1>8. CASE Respond
  BY <1>1, <1>3, <1>4, <1>8 DEF Respond, Reply, SendAcl, txVars
<1>9. ASSUME NEW c \in Chans, ChannelRun(c) PROVE RestInv'
  BY <1>1, <1>4, <1>9 DEF ChannelRun, SendAcl, txVars
<1>10. ASSUME NEW c \in Chans, ChannelCreate(c) PROVE RestInv'
  BY <1>5, <1>10 DEF ChannelCreate, CallPeer, SendCommand
<1>11. CASE Connect
  BY <1>1, <1>3, <1>4, <1>11 DEF Connect, CallPeer, SendCommand, SendAcl, txVars
<1>12. ASSUME NEW q \in Queues, Reroute(q) PROVE RestInv'
  BY <1>1, <1>4, <1>12 DEF Reroute, SendAcl, txVars
<1>13. CASE OutDone \/ StrangerRequest
  BY <1>1, <1>4, <1>13 DEF OutDone, StrangerRequest, Delivered, txVars, linkVars, chanVars
<1>14. ASSUME NEW p \in Peers, IdleTimeout(p) PROVE RestInv'
  BY <1>1, <1>4, <1>14 DEF IdleTimeout, SendCommand, chanVars
<1>15. ASSUME NEW p \in Peers, DisconnectionComplete(p) PROVE RestInv'
  BY <1>1, <1>4, <1>15 DEF DisconnectionComplete, LinkGone, Outcome, Delivered, txVars, ClosesArmed
<1>16. ASSUME NEW p \in Peers, NEW ok \in BOOLEAN,
              ConnectionComplete(p, ok) \/ EncryptionChange(p, ok)
       PROVE  RestInv'
  BY <1>5, <1>16 DEF ConnectionComplete, LinkOpened, LinkFailed, EncryptionChange, Encryption,
     Outcome, Delivered, txVars
<1>17. ASSUME NEW p \in Peers,
              FeaturesComplete(p) \/ LinkKeyRequest(p) \/ NumberOfCompletedPackets(p)
       PROVE  RestInv'
  BY <1>5, <1>17 DEF FeaturesComplete, FeaturesReceived, LinkKeyRequest, Encryption, chanVars,
     NumberOfCompletedPackets, PacketCompleted, Outcome, Delivered, txVars
<1>18. CASE ConnectionRequest
  BY <1>5, <1>18 DEF ConnectionRequest, LinkRequested, Delivered, txVars, chanVars
<1>19. ASSUME NEW p \in Peers, NEW kind \in {"refusal", "other"}, OtherRequest(p, kind)
       PROVE  RestInv'
  BY <1>1, <1>2, <1>4, <1>19 DEF OtherRequest, SigOnly, Delivered, txVars, linkVars
<1>20. ASSUME NEW c \in Chans, ChannelRequest(c) PROVE RestInv'
  <2>1. CASE SigOnly(<<Ds4, "refusal">>)
    BY <1>1, <1>2, <1>4, <1>20, <2>1, TwoPeers DEF SigOnly, Delivered, txVars, linkVars
  <2>2. CASE ChannelOnly
    BY <1>5, <1>20, <2>2 DEF ChannelRequest, ChannelOnly, Delivered, txVars, linkVars
  <2>3. QED
    BY <1>20, <2>1, <2>2 DEF ChannelRequest
<1>21. ASSUME NEW c \in Chans, ConfigureRequest(c) \/ DisconnectionRequest(c) \/ RtxTimeout(c)
       PROVE  RestInv'
  BY <1>5, <1>21 DEF ConfigureRequest, DisconnectionRequest, RtxTimeout, ChannelOnly, Delivered,
     txVars, linkVars
<1>22. ASSUME NEW c \in Chans, NEW ok \in BOOLEAN,
              ConnectionResponse(c, ok) \/ ConfigureResponse(c, ok)
       PROVE  RestInv'
  BY <1>5, <1>22 DEF ConnectionResponse, ConfigureResponse, ChannelOnly, Delivered, txVars, linkVars
<1>23. ASSUME NEW q \in Queues, Receive(q) PROVE RestInv'
  BY <1>5, <1>23 DEF Receive, Delivered, txVars, linkVars, chanVars
<1>24. QED
  BY <1>6, <1>7, <1>8, <1>9, <1>10, <1>11, <1>12, <1>13, <1>14, <1>15, <1>16, <1>17, <1>18, <1>19,
     <1>20, <1>21, <1>22, <1>23 DEF Next, Loop, Dongle, Peer, Timers
----------------------------------------------------------------------------
(* ACL packets. *)
AclMove ==
  \/ aclSent' = aclSent /\ \A p \in Peers : conn'[p].sent \in {conn[p].sent, 0}
  \/ /\ aclSent # TotalAcl /\ aclSent' = aclSent + 1
     /\ \E p \in Peers : /\ conn'[p].sent = conn[p].sent + 1
                         /\ \A r \in Peers \ {p} : conn'[r].sent = conn[r].sent
  \/ /\ aclSent' = aclSent - 1
     /\ \E p \in Peers : /\ conn[p].sent > 0 /\ conn'[p].sent = conn[p].sent - 1
                         /\ \A r \in Peers \ {p} : conn'[r].sent = conn[r].sent

LEMMA AclSent ==
  ASSUME NEW p \in Peers, NEW x \in [Peers -> Links], \A r \in Peers : x[r].sent = conn[r].sent,
         AclSlots, SendAcl(p, x)
  PROVE  AclMove
<1>1. CASE x[p].st = "open"
  <2>1. conn' = [x EXCEPT ![p].sent = @ + 1] /\ aclSent' = aclSent + 1
    BY <1>1 DEF SendAcl
  <2>2. conn'[p].sent = conn[p].sent + 1 /\ \A r \in Peers \ {p} : conn'[r].sent = conn[r].sent
    BY <2>1 DEF Links
  <2>3. QED
    BY <2>1, <2>2 DEF AclMove, AclSlots
<1>2. CASE x[p].st # "open"
  BY <1>2 DEF SendAcl, AclMove
<1>3. QED
  BY <1>1, <1>2

LEMMA ReplySent ==
  ASSUME ConnShape, RestInv, sigq # <<>>, AclSlots,
         SendAcl(Head(sigq)[1], Blocked(Head(sigq)[1], Head(sigq)[2]))
  PROVE  AclMove
<1> DEFINE p == Head(sigq)[1]
           y == Blocked(p, Head(sigq)[2])
<1>1. p \in Peers
  BY DEF RestInv
<1>2. y \in [Peers -> Links] /\ \A r \in Peers : y[r].sent = conn[r].sent
  BY DEF Blocked, ConnShape, Links
<1>3. SendAcl(p, y)
  OBVIOUS
<1> HIDE DEF p, y
<1>4. QED
  BY <1>1, <1>2, <1>3, AclSent

LEMMA CallSent ==
  ASSUME ConnShape, NEW c \in Chans, CallPeer(c), aclSent' = aclSent PROVE AclMove
<1>1. conn' = [conn EXCEPT ![c[1]] = [NoConn EXCEPT !.st = "creating"]]
  BY DEF CallPeer
<1>2. \A r \in Peers : conn'[r].sent \in {conn[r].sent, 0}
  BY <1>1 DEF ConnShape, NoConn
<1>3. QED
  BY <1>2 DEF AclMove

LEMMA AclMoves == ASSUME BridgeInv, RestInv, [Next]_vars PROVE AclMove
<1>1. ConnShape
  BY DEF BridgeInv, Shapes
<1>2. CASE UNCHANGED <<conn, aclSent>>
  BY <1>2 DEF AclMove
<1>3. ASSUME aclSent' = aclSent, \A p \in Peers : conn'[p].sent \in {conn[p].sent, 0} PROVE AclMove
  BY <1>3 DEF AclMove
<1>4. CASE StartUp \/ Answer \/ SpuriousStatus \/ OutDone \/ StrangerRequest \/ UNCHANGED vars
  BY <1>2, <1>4 DEF StartUp, Answer, SpuriousStatus, OutDone, StrangerRequest, Above, linkVars,
     vars, radioVars
<1>5. CASE Run
  <2>1. aclSent' = aclSent
    BY <1>5 DEF Run, HciRun
  <2>2. ASSUME NEW p \in Peers, NEW u \in Tasks, conn' = [conn EXCEPT ![p] = Done(@, u)]
        PROVE  \A r \in Peers : conn'[r].sent = conn[r].sent
    <3>1. u \in {"accept", "key", "features", "disconnect", "encrypt"}
      BY DEF Tasks, Order
    <3>2. conn[p] \in Links
      BY <1>1 DEF ConnShape
    <3>3. Done(conn[p], u).sent = conn[p].sent
      BY <3>1, <3>2 DEF Done, Links
    <3>4. QED
      BY <1>1, <2>2, <3>3 DEF ConnShape
  <2>3. QED
    BY <1>3, <1>5, <2>1, <2>2 DEF Run, HciRun
<1>6. CASE Respond
  BY <1>1, <1>6, ReplySent DEF Respond, Reply, CanSendAcl
<1>7. ASSUME NEW c \in Chans, ChannelRun(c) PROVE AclMove
  <2> DEFINE x == Served(chan[c])
             y == ConnAfter(c, x)
  <2>1. y \in [Peers -> Links] /\ \A r \in Peers : y[r].sent = conn[r].sent
    BY <1>1 DEF ConnAfter, SecondSecured, ConnShape, Links
  <2>2. SendAcl(c[1], y) /\ AclSlots /\ c[1] \in Peers
    BY <1>7, TwoPeers DEF ChannelRun, CanSendAcl
  <2> HIDE DEF y
  <2>3. QED
    BY <2>1, <2>2, AclSent
<1>8. ASSUME NEW c \in Chans, ChannelCreate(c) PROVE AclMove
  BY <1>1, <1>8, CallSent DEF ChannelCreate
<1>9. CASE Connect
  <2>1. CASE CallPeer(Ps4Ctrl) /\ aclSent' = aclSent
    BY <1>1, <2>1, CallSent, TwoPeers
  <2>2. CASE /\ sigq # <<>> /\ AclSlots
             /\ SendAcl(Head(sigq)[1], Blocked(Head(sigq)[1], Head(sigq)[2]))
    BY <1>1, <2>2, ReplySent
  <2>3. QED
    BY <1>2, <1>9, <2>1, <2>2 DEF Connect
<1>10. ASSUME NEW q \in Queues, Reroute(q) PROVE AclMove
  <2>1. Dest[q] \in Chans
    BY BridgeAssumption DEF Queues, Dest, Chans, Ps4Ctrl, Ps4Intr
  <2>2. CASE SendAcl(Dest[q][1], conn) /\ AclSlots
    BY <1>1, <2>1, <2>2, AclSent, TwoPeers DEF ConnShape
  <2>3. QED
    BY <1>2, <1>10, <2>2 DEF Reroute, CanSendAcl
<1>11. ASSUME NEW p \in Peers, NumberOfCompletedPackets(p) PROVE AclMove
  <2>1. /\ conn' = [conn EXCEPT ![p].sent = @ - 1] /\ aclSent' = aclSent - 1 /\ conn[p].sent > 0
    BY <1>11 DEF NumberOfCompletedPackets, PacketCompleted, Returned
  <2>2. conn'[p].sent = conn[p].sent - 1 /\ \A r \in Peers \ {p} : conn'[r].sent = conn[r].sent
    BY <1>1, <2>1 DEF ConnShape, Links
  <2>3. QED
    BY <2>1, <2>2 DEF AclMove
<1>12. ASSUME NEW p \in Peers, NEW ok \in BOOLEAN,
              ConnectionComplete(p, ok) \/ EncryptionChange(p, ok)
       PROVE  AclMove
  <2>1. aclSent' = aclSent
    BY <1>12 DEF ConnectionComplete, EncryptionChange, LinkOpened, LinkFailed, Encryption
  <2>2. \A r \in Peers : conn'[r].sent \in {conn[r].sent, 0}
    BY <1>1, <1>12 DEF ConnectionComplete, EncryptionChange, LinkOpened, LinkFailed, Encryption,
       NoConn, ConnShape, Links
  <2>3. QED
    BY <1>3, <2>1, <2>2
<1>13. ASSUME NEW p \in Peers,
              FeaturesComplete(p) \/ LinkKeyRequest(p) \/ DisconnectionComplete(p)
       PROVE  AclMove
  <2>1. aclSent' = aclSent
    BY <1>13 DEF FeaturesComplete, FeaturesReceived, LinkKeyRequest, Encryption,
       DisconnectionComplete, LinkGone
  <2>2. \A r \in Peers : conn'[r].sent \in {conn[r].sent, 0}
    BY <1>1, <1>13 DEF FeaturesComplete, FeaturesReceived, LinkKeyRequest, Encryption,
       DisconnectionComplete, LinkGone, NoConn, ConnShape, Links
  <2>3. QED
    BY <1>3, <2>1, <2>2
<1>14. CASE ConnectionRequest
  <2>1. aclSent' = aclSent /\ conn' = [conn EXCEPT ![Ds4] = RequestedConn(Ds4)]
    BY <1>14, TwoPeers DEF ConnectionRequest, LinkRequested
  <2>2. \A r \in Peers : conn'[r].sent \in {conn[r].sent, 0}
    BY <1>1, <2>1 DEF RequestedConn, NoConn, ConnShape
  <2>3. QED
    BY <1>3, <2>1, <2>2
<1>15. ASSUME NEW c \in Chans, NEW ok \in BOOLEAN, ConfigureResponse(c, ok) PROVE AclMove
  <2>1. aclSent' = aclSent /\ conn' = ConnAfter(c, Configured(chan[c], ok))
    BY <1>15 DEF ConfigureResponse
  <2>2. \A r \in Peers : conn'[r].sent = conn[r].sent
    BY <1>1, <2>1 DEF ConnAfter, SecondSecured, ConnShape, Links
  <2>3. QED
    BY <1>3, <2>1, <2>2
<1>16. ASSUME NEW c \in Chans, NEW ok \in BOOLEAN,
              \/ ChannelRequest(c) \/ ConfigureRequest(c) \/ DisconnectionRequest(c)
              \/ ConnectionResponse(c, ok) \/ RtxTimeout(c)
       PROVE  AclMove
  BY <1>2, <1>16 DEF ChannelRequest, SigOnly, ConfigureRequest, DisconnectionRequest,
     ConnectionResponse, RtxTimeout, ChannelOnly, linkVars
<1>17. ASSUME NEW p \in Peers, NEW kind, OtherRequest(p, kind) \/ IdleTimeout(p) PROVE AclMove
  BY <1>2, <1>17 DEF OtherRequest, SigOnly, IdleTimeout, linkVars
<1>18. ASSUME NEW q \in Queues, Receive(q) PROVE AclMove
  BY <1>2, <1>18 DEF Receive, linkVars
<1>19. QED
  BY <1>4, <1>5, <1>6, <1>7, <1>8, <1>9, <1>10, <1>11, <1>12, <1>13, <1>14, <1>15, <1>16, <1>17,
     <1>18 DEF Next, Loop, Dongle, Peer, Timers

LEMMA AclStep == BridgeInv /\ RestInv /\ AclInv /\ [Next]_vars => AclInv'
<1> SUFFICES ASSUME BridgeInv, RestInv, AclInv, [Next]_vars PROVE AclInv'
  OBVIOUS
<1>1. AclMove
  BY AclMoves
<1>2. /\ Peers = {Ds4, Ps4} /\ Ds4 # Ps4 /\ TotalAcl \in Nat
      /\ conn[Ds4].sent \in Nat /\ conn[Ps4].sent \in Nat /\ aclSent \in Nat
      /\ conn[Ds4].sent + conn[Ps4].sent <= aclSent /\ aclSent <= TotalAcl
  BY TwoPeers, LinkAssumption DEF AclInv, Outstanding
<1>3. /\ conn'[Ds4].sent \in Nat /\ conn'[Ps4].sent \in Nat /\ aclSent' \in Nat
      /\ conn'[Ds4].sent + conn'[Ps4].sent <= aclSent' /\ aclSent' <= TotalAcl
  <2> DEFINE a == conn[Ds4].sent
             b == conn[Ps4].sent
             u == conn'[Ds4].sent
             v == conn'[Ps4].sent
  <2>1. \/ aclSent' = aclSent /\ u \in {a, 0} /\ v \in {b, 0}
        \/ /\ aclSent # TotalAcl /\ aclSent' = aclSent + 1
           /\ (u = a + 1 /\ v = b) \/ (u = a /\ v = b + 1)
        \/ /\ aclSent' = aclSent - 1
           /\ (a > 0 /\ u = a - 1 /\ v = b) \/ (b > 0 /\ u = a /\ v = b - 1)
    <3>1. Ds4 \in Peers /\ Ps4 \in Peers /\ Ps4 \in Peers \ {Ds4} /\ Ds4 \in Peers \ {Ps4}
      BY <1>2
    <3>2. CASE aclSent' = aclSent /\ \A p \in Peers : conn'[p].sent \in {conn[p].sent, 0}
      BY <3>1, <3>2
    <3>3. ASSUME NEW p \in Peers, \A r \in Peers \ {p} : conn'[r].sent = conn[r].sent
          PROVE  (p = Ds4 /\ v = b) \/ (p = Ps4 /\ u = a)
      BY <1>2, <3>1, <3>3
    <3>4. QED
      BY <1>1, <3>2, <3>3 DEF AclMove
  <2>2. a \in Nat /\ b \in Nat /\ a + b <= aclSent
    BY <1>2
  <2> HIDE DEF a, b, u, v
  <2>3. u \in Nat /\ v \in Nat /\ aclSent' \in Nat /\ u + v <= aclSent' /\ aclSent' <= TotalAcl
    BY <1>2, <2>1, <2>2
  <2>4. QED
    BY <2>3 DEF u, v
<1>4. QED
  BY <1>2, <1>3 DEF AclInv, Outstanding

(* SumSent goes through the peers in an order of its own. *)
LEMMA SumOfTwo == AclInv => SumSent = Outstanding
<1> SUFFICES ASSUME AclInv PROVE SumSent = Outstanding
  OBVIOUS
<1> DEFINE Round(T) == [Q \in SUBSET Peers |->
                          IF Q = {} THEN 0
                          ELSE LET p == CHOOSE p \in Q : TRUE IN conn[p].sent + T[Q \ {p}]]
           Of(Q, p) == IF p \in Q THEN conn[p].sent ELSE 0
           W == [Q \in SUBSET Peers |-> Of(Q, Ds4) + Of(Q, Ps4)]
           S == CHOOSE T : T = Round(T)
<1>1. /\ Peers = {Ds4, Ps4} /\ Ds4 # Ps4 /\ conn[Ds4].sent \in Nat /\ conn[Ps4].sent \in Nat
  BY TwoPeers DEF AclInv
<1>2. ASSUME NEW Q \in SUBSET Peers PROVE Round(W)[Q] = W[Q]
  <2>1. CASE Q = {}
    BY <2>1
  <2>2. CASE Q # {}
    <3> DEFINE p == CHOOSE p \in Q : TRUE
    <3>1. p \in Q /\ p \in Peers /\ Q \ {p} \in SUBSET Peers
      BY <2>2
    <3>2. Round(W)[Q] = conn[p].sent + W[Q \ {p}]
      BY <2>2
    <3> HIDE DEF p, W
    <3>3. W[Q \ {p}] = Of(Q \ {p}, Ds4) + Of(Q \ {p}, Ps4)
      BY <3>1 DEF W
    <3>4. W[Q] = Of(Q, Ds4) + Of(Q, Ps4)
      BY DEF W
    <3>5. CASE p = Ds4
      BY <1>1, <3>1, <3>2, <3>3, <3>4, <3>5
    <3>6. CASE p = Ps4
      BY <1>1, <3>1, <3>2, <3>3, <3>4, <3>6
    <3>7. QED
      BY <1>1, <3>1, <3>5, <3>6
  <2>3. QED
    BY <2>1, <2>2
<1>3. W = Round(W)
  BY <1>2
<1>4. S = Round(S)
  BY <1>3
<1> HIDE DEF S, W
<1>5. ASSUME NEW Q \in SUBSET Peers, Q # {}
      PROVE  \E p \in Q : S[Q] = conn[p].sent + S[Q \ {p}]
  BY <1>4, <1>5
<1>6. S[{}] = 0
  BY <1>4
<1>7. ASSUME NEW r \in Peers PROVE S[{r}] = conn[r].sent
  <2>1. S[{r}] = conn[r].sent + S[{r} \ {r}]
    BY <1>5
  <2>2. {r} \ {r} = {} /\ conn[r].sent \in Nat
    BY <1>1
  <2>3. QED
    BY <1>6, <2>1, <2>2
<1>8. PICK p \in Peers : S[Peers] = conn[p].sent + S[Peers \ {p}]
  BY <1>1, <1>5
<1>9. S[Peers] = Outstanding
  <2>1. CASE p = Ds4
    <3>1. Peers \ {p} = {Ps4}
      BY <1>1, <2>1
    <3>2. QED
      BY <1>1, <1>7, <1>8, <2>1, <3>1 DEF Outstanding
  <2>2. CASE p = Ps4
    <3>1. Peers \ {p} = {Ds4}
      BY <1>1, <2>2
    <3>2. S[Peers] = conn[Ps4].sent + conn[Ds4].sent
      BY <1>1, <1>7, <1>8, <2>2, <3>1
    <3>3. QED
      BY <1>1, <3>2 DEF Outstanding
  <2>3. QED
    BY <1>1, <2>1, <2>2
<1>10. SumSent = S[Peers]
  BY DEF SumSent, S
<1>11. QED
  BY <1>9, <1>10

LEMMA FlowInit == Init => AclInv /\ RestInv /\ CreditInv
<1> SUFFICES ASSUME Init PROVE AclInv /\ RestInv /\ CreditInv
  OBVIOUS
<1>1. AclInv
  BY TwoPeers, LinkAssumption DEF Init, LinkInit, NoConn, AclInv, Outstanding
<1>2. RestInv
  <2>1. /\ tx = FALSE /\ decline = FALSE /\ leaving = {} /\ dangling = FALSE /\ sigq = <<>>
    BY DEF Init, CommandInit, LinkInit, L2capInit
  <2>2. NrPending \in Nat
    BY L2capAssumption
  <2>3. sigq \in Seq(Peers \X {"refusal", "other"}) /\ Len(sigq) <= NrPending
    BY <2>1, <2>2
  <2>4. QED
    BY <2>1, <2>3 DEF RestInv
<1>3. CreditInv
  BY DEF Init, L2capInit, NoChan, CreditInv
<1>4. QED
  BY <1>1, <1>2, <1>3

(* NoOverrun: the dongle is never sent more packets than it has buffers, and
   none of those its links have outstanding is missing from the count: for
   every number of buffers and every order of links, packets and faults. *)
THEOREM BuffersCounted == Spec => []NoOverrun
<1>1. AclInv => NoOverrun
  BY SumOfTwo DEF AclInv, NoOverrun
<1>2. QED
  BY <1>1, FlowInit, BridgeInit, BridgeStep, RestStep, AclStep, PTL DEF Spec
----------------------------------------------------------------------------
(* Credit is handed out to channels that have none, and used by those that
   have. *)
LEMMA HandedOut ==
  ASSUME NEW x \in [Chans -> Channels], \A c \in Chans : x[c].credit \in 0 .. 1, NEW y, NEW n,
         chan' = HandOut(x, y, n)
  PROVE  CreditInv'
<1>1. ASSUME NEW c \in Chans PROVE chan'[c].credit \in 0 .. 1
  <2>1. x[c] \in Channels /\ x[c].credit \in 0 .. 1
    OBVIOUS
  <2>2. chan'[c] \in {x[c], [x[c] EXCEPT !.credit = 1]}
    BY DEF HandOut
  <2>3. QED
    BY <2>1, <2>2 DEF Channels
<1>2. QED
  BY <1>1 DEF CreditInv

LEMMA NewCredit ==
  /\ NoChan.credit = 0 /\ InConfig.credit = 0 /\ OpenChan.credit = 1
  /\ \A s : InState(s).credit = 0
BY DEF NoChan, InState, InConfig, OpenChan

LEMMA ServedCredit ==
  ASSUME NEW x \in Channels, x.credit \in 0 .. 1,
         x.st \in {"willRequest", "willAccept", "willDiscRsp", "config"}
  PROVE  Served(x).credit \in 0 .. 1
BY DEF Served, NoChan, InState, InConfig, Channels

LEMMA SettledCredit ==
  ASSUME ChanShape, CreditInv, NEW c \in Chans, NEW x, x.credit \in 0 .. 1, Settled(c, x)
  PROVE  CreditInv'
<1>1. CASE ReadyForOpen(x)
  <2> DEFINE y == [chan EXCEPT ![c] = OpenChan]
  <2>1. \A d \in Chans : y[d].credit \in 0 .. 1
    BY NewCredit DEF CreditInv, ChanShape
  <2>2. DOMAIN y = Chans
    BY DEF ChanShape
  <2>3. chan' = WithSecond(c, y)
    BY <1>1 DEF Settled
  <2> HIDE DEF y
  <2>4. QED
    BY <2>1, <2>2, <2>3, NewCredit DEF WithSecond, CreditInv
<1>2. CASE ~ReadyForOpen(x)
  BY <1>2 DEF Settled, CreditInv, ChanShape
<1>3. QED
  BY <1>1, <1>2

LEMMA CreditStep == BridgeInv /\ CreditInv /\ [Next]_vars => CreditInv'
<1> SUFFICES ASSUME BridgeInv, CreditInv, [Next]_vars PROVE CreditInv'
  OBVIOUS
<1>1. ChanShape
  BY DEF BridgeInv, Shapes
<1>2. CASE chan' = chan
  BY <1>2 DEF CreditInv
<1>3. ASSUME NEW c \in Chans, NEW x, x.credit \in 0 .. 1, chan' = [chan EXCEPT ![c] = x]
      PROVE  CreditInv'
  BY <1>1, <1>3 DEF CreditInv, ChanShape
<1>4. CASE StartUp \/ Answer \/ SpuriousStatus \/ Run \/ Respond \/ UNCHANGED vars
  BY <1>2, <1>4 DEF StartUp, Answer, SpuriousStatus, Above, Run, Respond, Reply, chanVars, vars,
     radioVars
<1>5. CASE OutDone \/ StrangerRequest \/ ConnectionRequest
  BY <1>2, <1>5 DEF OutDone, StrangerRequest, ConnectionRequest, chanVars
<1>6. ASSUME NEW c \in Chans, ChannelRun(c) PROVE CreditInv'
  <2>1. chan[c] \in Channels /\ chan[c].credit \in 0 .. 1
    BY <1>1 DEF ChanShape, CreditInv
  <2>2. chan[c].st \in {"willRequest", "willAccept", "willDiscRsp", "config"}
    BY <1>6 DEF ChannelRun, HasPacket
  <2> DEFINE x == Served(chan[c])
  <2>3. x.credit \in 0 .. 1
    BY <2>1, <2>2, ServedCredit
  <2>4. chan' = [chan EXCEPT ![c] = x] \/ Settled(c, x)
    BY <1>6 DEF ChannelRun
  <2> HIDE DEF x
  <2>5. QED
    BY <1>1, <1>3, <2>3, <2>4, SettledCredit
<1>7. ASSUME NEW c \in Chans, ChannelCreate(c) PROVE CreditInv'
  <2>1. /\ chan' = [chan EXCEPT ![c] = InState("waitComplete")]
        /\ InState("waitComplete").credit \in 0 .. 1
    BY <1>7, NewCredit DEF ChannelCreate, CallPeer
  <2>2. QED
    BY <1>3, <2>1
<1>8. CASE Connect
  BY <1>3, <1>8, NewCredit, TwoPeers DEF Connect, CallPeer
<1>9. ASSUME NEW q \in Queues, Reroute(q) PROVE CreditInv'
  <2> DEFINE c == Dest[q]
             x == [chan EXCEPT ![c].credit = @ - 1]
  <2>1. CASE chan' = HandOut(x, conn', aclSent') /\ chan[c].credit > 0
    <3>1. x \in [Chans -> Channels] /\ \A d \in Chans : x[d].credit \in 0 .. 1
      <4> HIDE DEF c
      <4>1. ASSUME NEW d \in Chans PROVE x[d] \in Channels /\ x[d].credit \in 0 .. 1
        <5>1. chan[d] \in Channels /\ chan[d].credit \in 0 .. 1
          BY <1>1 DEF ChanShape, CreditInv
        <5>2. x[d] = IF d = c THEN [chan[d] EXCEPT !.credit = @ - 1] ELSE chan[d]
          BY <1>1 DEF ChanShape
        <5>3. QED
          BY <2>1, <5>1, <5>2 DEF Channels
      <4>2. QED
        BY <1>1, <4>1 DEF ChanShape
    <3>2. chan' = HandOut(x, conn', aclSent')
      BY <2>1
    <3> HIDE DEF x
    <3>3. QED
      BY <3>1, <3>2, HandedOut
  <2>2. QED
    BY <1>2, <1>9, <2>1 DEF Reroute
<1>10. ASSUME NEW p \in Peers, NumberOfCompletedPackets(p) PROVE CreditInv'
  BY <1>1, <1>10, HandedOut DEF NumberOfCompletedPackets, ChanShape, CreditInv
<1>11. ASSUME NEW p \in Peers, NEW ok \in BOOLEAN, ConnectionComplete(p, ok) PROVE CreditInv'
  BY <1>11, NewCredit DEF ConnectionComplete, LinkUp, LinkDown, CreditInv
<1>12. ASSUME NEW p \in Peers, NEW ok \in BOOLEAN, EncryptionChange(p, ok) PROVE CreditInv'
  BY <1>12, NewCredit DEF EncryptionChange, Secured, CreditInv
<1>13. ASSUME NEW p \in Peers, FeaturesComplete(p) PROVE CreditInv'
  BY <1>2, <1>3, <1>13, NewCredit DEF FeaturesComplete
<1>14. ASSUME NEW p \in Peers, LinkKeyRequest(p) \/ IdleTimeout(p) PROVE CreditInv'
  BY <1>2, <1>14 DEF LinkKeyRequest, IdleTimeout, chanVars
<1>15. ASSUME NEW p \in Peers, DisconnectionComplete(p) PROVE CreditInv'
  BY <1>15, NewCredit DEF DisconnectionComplete, Closed, CreditInv
<1>16. ASSUME NEW p \in Peers, NEW kind, OtherRequest(p, kind) PROVE CreditInv'
  BY <1>2, <1>16 DEF OtherRequest, SigOnly
<1>17. ASSUME NEW c \in Chans, ChannelRequest(c) PROVE CreditInv'
  BY <1>2, <1>3, <1>17, NewCredit DEF ChannelRequest, SigOnly
<1>18. ASSUME NEW c \in Chans, ConfigureRequest(c) \/ DisconnectionRequest(c) PROVE CreditInv'
  <2>1. \A d \in Chans : chan'[d].credit = chan[d].credit
    BY <1>1, <1>18 DEF ConfigureRequest, DisconnectionRequest, ChanShape, Channels
  <2>2. QED
    BY <2>1 DEF CreditInv
<1>19. ASSUME NEW c \in Chans, NEW ok \in BOOLEAN, ConnectionResponse(c, ok) PROVE CreditInv'
  <2> DEFINE x == IF ok THEN InConfig ELSE NoChan
  <2>1. chan' = [chan EXCEPT ![c] = x] /\ x.credit \in 0 .. 1
    BY <1>19, NewCredit DEF ConnectionResponse
  <2> HIDE DEF x
  <2>2. QED
    BY <1>3, <2>1
<1>20. ASSUME NEW c \in Chans, NEW ok \in BOOLEAN, ConfigureResponse(c, ok) PROVE CreditInv'
  <2> DEFINE x == Configured(chan[c], ok)
  <2>1. x.credit \in 0 .. 1
    BY <1>1 DEF Configured, ChanShape, Channels, CreditInv
  <2>2. Settled(c, x)
    BY <1>20 DEF ConfigureResponse
  <2> HIDE DEF x
  <2>3. QED
    BY <1>1, <2>1, <2>2, SettledCredit
<1>21. ASSUME NEW c \in Chans, RtxTimeout(c) PROVE CreditInv'
  <2>1. chan' = [chan EXCEPT ![c] = NoChan] /\ NoChan.credit \in 0 .. 1
    BY <1>21, NewCredit DEF RtxTimeout
  <2>2. QED
    BY <1>3, <2>1
<1>22. ASSUME NEW q \in Queues, Receive(q) PROVE CreditInv'
  BY <1>2, <1>22 DEF Receive, chanVars
<1>23. QED
  BY <1>4, <1>5, <1>6, <1>7, <1>8, <1>9, <1>10, <1>11, <1>12, <1>13, <1>14, <1>15, <1>16, <1>17,
     <1>18, <1>19, <1>20, <1>21, <1>22 DEF Next, Loop, Dongle, Peer, Timers
----------------------------------------------------------------------------
(* The types, put together from the invariants of the parts. *)
LEMMA LinksTyped ==
  ASSUME ConnShape, AclInv, decline \in BOOLEAN, leaving \subseteq Peers PROVE LinkTypeOK
<1>1. ASSUME NEW p \in Peers
      PROVE  conn[p] \in [st : {"none", "requested", "accepted", "creating", "open"},
                          features : {"no", "wanted", "asked", "known"},
                          enc : {"off", "wanted", "asked", "keyAsked", "keyed", "on"},
                          block : BOOLEAN, sent : 0 .. TotalAcl]
  <2>1. conn[p] \in Links
    BY DEF ConnShape
  <2>2. conn[p].sent \in 0 .. TotalAcl
    BY TwoPeers, LinkAssumption DEF AclInv, Outstanding
  <2>3. QED
    BY <2>1, <2>2 DEF Links
<1>2. aclSent \in Int
  BY DEF AclInv
<1>3. QED
  BY <1>1, <1>2 DEF LinkTypeOK, ConnShape

LEMMA ChannelsTyped ==
  ASSUME ChanShape, CreditInv, RestInv PROVE L2capTypeOK
<1>1. ASSUME NEW c \in Chans
      PROVE  chan[c] \in [st : ChanStates, req : {"none", "send", "sent", "done"},
                          rsp : {"none", "send", "sent"}, credit : 0 .. 1]
  BY DEF ChanShape, CreditInv, Channels
<1>2. chan \in [Chans -> [st : ChanStates, req : {"none", "send", "sent", "done"},
                          rsp : {"none", "send", "sent"}, credit : 0 .. 1]]
  BY <1>1 DEF ChanShape
<1>3. QED
  BY <1>2 DEF L2capTypeOK, ChanStates, RestInv

(* TypeOK: every variable keeps its type, the queue of answers, the signalling
   queue, the credits and the counters of the links their bounds. *)
THEOREM BridgeTypeCorrect == Spec => []TypeOK
<1>1. CommandInv /\ BridgeInv /\ AclInv /\ RestInv /\ CreditInv /\ RingInv => TypeOK
  <2> SUFFICES ASSUME CommandInv, BridgeInv, AclInv, RestInv, CreditInv, RingInv PROVE TypeOK
    OBVIOUS
  <2>1. CommandTypeOK
    BY DEF CommandInv, RestInv, CommandTypeOK
  <2>2. LinkTypeOK /\ L2capTypeOK
    BY LinksTyped, ChannelsTyped DEF BridgeInv, Shapes, RestInv
  <2>3. handle \in [Peers -> BOOLEAN] /\ cid \in [Chans -> BOOLEAN] /\ pending \in BOOLEAN
    BY DEF BridgeInv, Shapes, EmuShape
  <2>4. /\ ring \in [Queues -> [0 .. QueueSize - 1 -> Nat]]
        /\ \A q \in Queues : pushed[q] \in Nat /\ popped[q] \in 0 .. pushed[q]
    BY DEF RingInv, RingShape, Slot
  <2>5. QED
    BY <2>1, <2>2, <2>3, <2>4 DEF TypeOK
<1>2. QED
  BY <1>1, CommandsInit, CommandStep, BridgeInit, BridgeStep, FlowInit, AclStep, RestStep,
     CreditStep, RingInit, RingStep, PTL DEF Spec
=============================================================================
