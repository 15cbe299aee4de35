--------------------------- MODULE SV2WorkProofs ---------------------------
(* Theorems about SV2Work, for any channels, goroutines and bounds: see the      *)
(* README for the argument.                                                    *)
EXTENDS SV2Work, SequenceTheorems, FiniteSetTheorems, TLAPS

Shape(s) == DOMAIN s = {"pc", "job", "todo", "fresh", "ch", "coinb"}

\* Whoever has a channel in hand, or channels left to go to, has them of the session.
ShapeInv ==
  /\ DOMAIN send = Senders /\ \A t \in Senders : Shape(send[t])
  /\ prevOf \in Seq(Nat) /\ Len(prevOf) # 0
  /\ channels \subseteq Channels
  /\ \A t \in Senders : /\ send[t].pc \notin {"idle", "start"} => send[t].ch \in channels
                        /\ send[t].todo \subseteq channels

-----------------------------------------------------------------------------
(* What the helpers do to the sender *)

\* Everything but t's own entry is kept, and that has its fields.
Alone(t) ==
  /\ DOMAIN send' = Senders /\ \A u \in Senders : Shape(send'[u])
  /\ \A u \in Senders \ {t} : send'[u] = send[u]

Stops(t) == send'[t].pc = "idle" /\ send'[t].todo = {}

GoesTo(t, job, todo, pc) ==
  \E c \in todo : /\ send'[t].pc = pc /\ send'[t].job = job /\ send'[t].fresh = FALSE
                  /\ send'[t].ch = c /\ send'[t].todo = todo \ {c}

\* t moves on to pc with the same job and the same channels before it.
Moves(t, pc) ==
  /\ send'[t].pc = pc /\ send'[t].job = send[t].job /\ send'[t].ch = send[t].ch /\ send'[t].todo = send[t].todo

LEMMA StopEffect ==
  ASSUME ShapeInv, NEW t \in Senders, send' = [send EXCEPT ![t] = IdleSend]
  PROVE  Alone(t) /\ Stops(t)
BY DEF ShapeInv, Alone, Stops, IdleSend, Shape

LEMMA NextChannelEffect ==
  ASSUME ShapeInv, NEW t \in Senders, NEW job, NEW todo, NEW pc, NextChannel(t, job, todo, pc)
  PROVE  Alone(t) /\ ((todo = {} /\ Stops(t)) \/ GoesTo(t, job, todo, pc))
<1>1. CASE todo = {}
  BY <1>1, StopEffect DEF NextChannel
<1>2. CASE todo # {}
  <2>1. PICK c \in todo :
          send' = [send EXCEPT ![t] = [IdleSend EXCEPT !.pc = pc, !.job = job, !.ch = c, !.todo = todo \ {c}]]
    BY <1>2 DEF NextChannel
  <2>2. Alone(t)
    BY <2>1 DEF ShapeInv, Alone, IdleSend, Shape
  <2>3. /\ send'[t].pc = pc /\ send'[t].job = job /\ send'[t].fresh = FALSE
        /\ send'[t].ch = c /\ send'[t].todo = todo \ {c}
    BY <2>1 DEF ShapeInv, IdleSend
  <2> QED
    BY <2>2, <2>3 DEF GoesTo
<1> QED
  BY <1>1, <1>2

\* What follows the last message to a channel.
After(t) == IF t = "keeper" THEN "job" ELSE "prepare"

Passes(t) ==
  \/ Stops(t) /\ (t = "reader" \/ send[t].todo = {})
  \/ t # "reader" /\ GoesTo(t, send[t].job, send[t].todo, After(t))

LEMMA SentToEffect ==
  ASSUME ShapeInv, NEW t \in Senders, SentTo(t)
  PROVE  Alone(t) /\ Passes(t)
<1>1. CASE t = "reader"
  BY <1>1, StopEffect DEF SentTo, Passes
<1>2. CASE t # "reader"
  <2>1. NextChannel(t, send[t].job, send[t].todo, After(t))
    BY <1>2 DEF SentTo, After
  <2> QED
    BY <1>2, <2>1, NextChannelEffect DEF Passes
<1> QED
  BY <1>1, <1>2

LEMMA StartPushEffect ==
  ASSUME ShapeInv, NEW j, NEW g, StartPush(j, g)
  PROVE  \E p \in Pushers : /\ Idle(p) /\ Alone(p)
                            /\ send'[p].pc = "start" /\ send'[p].job = j /\ send'[p].todo = send[p].todo
<1>1. PICK p \in Pushers : Idle(p) /\ send' = [send EXCEPT ![p] = [@ EXCEPT !.pc = "start", !.job = j]]
  BY DEF StartPush
<1>2. p \in Senders
  BY DEF Senders
<1>3. Alone(p)
  BY <1>1, <1>2 DEF ShapeInv, Alone, Shape
<1>4. send'[p].pc = "start" /\ send'[p].job = j /\ send'[p].todo = send[p].todo
  BY <1>1, <1>2 DEF ShapeInv, Shape
<1> QED
  BY <1>1, <1>3, <1>4

LEMMA StepEffect ==
  ASSUME ShapeInv, NEW t \in Senders, NEW pc, NEW x,
         \/ send' = [send EXCEPT ![t].pc = pc]
         \/ send' = [send EXCEPT ![t].pc = pc, ![t].coinb = x]
  PROVE  Alone(t) /\ Moves(t, pc)
<1>1. Alone(t)
  BY DEF ShapeInv, Alone, Shape
<1>2. Moves(t, pc)
  BY DEF ShapeInv, Moves, Shape
<1> QED
  BY <1>1, <1>2

LEMMA ActivateEffect ==
  ASSUME ShapeInv, NEW t \in Senders, NEW c, NEW j, ActivatePrevHash(t, c, j)
  PROVE  /\ Alone(t) /\ send'[t].pc = "job" /\ send'[t].job = j
         /\ send'[t].ch = send[t].ch /\ send'[t].todo = send[t].todo
<1>1. PICK x : send' = [send EXCEPT ![t].pc = "job", ![t].job = j, ![t].fresh = x]
  BY DEF ActivatePrevHash
<1>2. Alone(t)
  BY <1>1 DEF ShapeInv, Alone, Shape
<1>3. /\ send'[t].pc = "job" /\ send'[t].job = j
      /\ send'[t].ch = send[t].ch /\ send'[t].todo = send[t].todo
  BY <1>1 DEF ShapeInv, Shape
<1> QED
  BY <1>2, <1>3

LEMMA NamesDistinct == /\ Pushers \subseteq Senders /\ "reader" \in Senders /\ "keeper" \in Senders
                       /\ "reader" \notin Pushers /\ "keeper" \notin Pushers
BY SV2Assumption DEF Senders

\* What each sender's step does to its entry.
LEMMA SendEffect ==
  ASSUME ShapeInv, NEW t \in Senders, Send(t)
  PROVE  /\ Alone(t) /\ UNCHANGED <<channels, prevOf>>
         /\ \/ UpdateTemplate(t) /\ ((channels = {} /\ Stops(t)) \/ GoesTo(t, send[t].job, channels, "prepare"))
            \/ Prepare(t) /\ send[t].pc = "prepare" /\ Moves(t, "job")
            \/ SendJob(t) /\ send[t].pc = "job" /\ Moves(t, "wire")
            \/ WriteJob(t) /\ send[t].pc = "wire" /\ (Moves(t, "prevhash") \/ Passes(t))
            \/ SendPrevHash(t) /\ send[t].pc = "prevhash" /\ Passes(t)
<1>1. CASE UpdateTemplate(t)
  BY <1>1, NextChannelEffect DEF UpdateTemplate, feedVars, serverVars
<1>2. CASE Prepare(t)
  <2>1. ActivatePrevHash(t, send[t].ch, send[t].job) /\ send[t].pc = "prepare" /\ UNCHANGED <<channels, prevOf>>
    BY <1>2 DEF Prepare, At, feedVars, serverVars, sessionVars
  <2> QED
    BY <1>2, <2>1, ActivateEffect DEF Moves
<1>3. CASE SendJob(t)
  <2>1. /\ send' = [send EXCEPT ![t].pc = "wire", ![t].coinb = Coinbase(send[t].ch, send[t].job)]
        /\ send[t].pc = "job" /\ UNCHANGED <<channels, prevOf>>
    BY <1>3 DEF SendJob, At, feedVars, serverVars
  <2> QED
    BY <1>3, <2>1, StepEffect
<1>4. CASE WriteJob(t)
  <2>1. /\ send' = [send EXCEPT ![t].pc = "prevhash"] \/ SentTo(t)
        /\ send[t].pc = "wire" /\ UNCHANGED <<channels, prevOf>>
    BY <1>4 DEF WriteJob, Go, At, feedVars, serverVars
  <2> QED
    BY <1>4, <2>1, StepEffect, SentToEffect
<1>5. CASE SendPrevHash(t)
  <2>1. SentTo(t) /\ send[t].pc = "prevhash" /\ UNCHANGED <<channels, prevOf>>
    BY <1>5 DEF SendPrevHash, At, feedVars, serverVars
  <2> QED
    BY <1>5, <2>1, SentToEffect
<1> QED
  BY <1>1, <1>2, <1>3, <1>4, <1>5 DEF Send

-----------------------------------------------------------------------------
(* The entries keep their fields and channels *)

LEMMA InitShape == Init => ShapeInv
BY DEF Init, IdleSend, Shape, ShapeInv

\* t's entry alone changed, and it is still on channels of the session.
LEMMA ShapeKept ==
  ASSUME ShapeInv, NEW t \in Senders, Alone(t), prevOf' = prevOf,
         channels \subseteq channels', channels' \subseteq Channels,
         send'[t].pc \notin {"idle", "start"} => send'[t].ch \in channels',
         send'[t].todo \subseteq channels'
  PROVE  ShapeInv'
BY DEF ShapeInv, Alone

LEMMA NextShape == ShapeInv /\ [Next]_vars => ShapeInv'
<1> SUFFICES ASSUME ShapeInv, [Next]_vars PROVE ShapeInv'
  OBVIOUS
<1>1. CASE UNCHANGED <<prevOf, channels, send>>
  BY <1>1 DEF ShapeInv
<1>2. ASSUME NEW g \in Feeders, NewTemplate(g) PROVE ShapeInv'
  <2>1. UNCHANGED <<channels, send>> /\ \E prev : prevOf' = Append(prevOf, prev) /\ prev \in {Last(prevOf), Last(prevOf) + 1}
    BY <1>2 DEF NewTemplate, sessionVars
  <2>2. Last(prevOf) \in Nat
    BY DEF ShapeInv, Last
  <2>3. prevOf' \in Seq(Nat) /\ Len(prevOf') # 0
    BY <2>1, <2>2 DEF ShapeInv
  <2> QED
    BY <2>1, <2>3 DEF ShapeInv
<1>3. ASSUME NEW j, NEW g, StartPush(j, g), UNCHANGED <<prevOf, channels>> PROVE ShapeInv'
  <2>1. PICK p \in Pushers : Alone(p) /\ send'[p].pc = "start" /\ send'[p].todo = send[p].todo
    BY <1>3, StartPushEffect
  <2> QED
    BY <1>3, <2>1, NamesDistinct, ShapeKept DEF ShapeInv
<1>4. ASSUME NEW c \in Channels, OpenChannel(c) PROVE ShapeInv'
  <2>1. channels' = channels \cup {c} /\ prevOf' = prevOf /\ NextChannel("reader", None, {c}, "coinbase")
    BY <1>4 DEF OpenChannel, feedVars
  <2>2. Alone("reader") /\ GoesTo("reader", None, {c}, "coinbase")
    BY <2>1, NextChannelEffect, NamesDistinct
  <2>3. send'["reader"].ch = c /\ send'["reader"].todo = {}
    BY <2>2 DEF GoesTo
  <2> QED
    BY <2>1, <2>2, <2>3, NamesDistinct, ShapeKept DEF ShapeInv
<1>5. CASE Keepalive
  <2> DEFINE refreshed == {c \in channels : <<lastJobID, c>> \in DOMAIN templates}
  <2>1. NextChannel("keeper", lastJobID, refreshed, "job") /\ UNCHANGED <<prevOf, channels>>
    BY <1>5 DEF Keepalive, feedVars, sessionVars
  <2>2. Alone("keeper") /\ (Stops("keeper") \/ GoesTo("keeper", lastJobID, refreshed, "job"))
    BY <2>1, NextChannelEffect, NamesDistinct
  <2>3. send'["keeper"].pc # "idle" => send'["keeper"].ch \in channels
    BY <2>2 DEF GoesTo, Stops
  <2>4. send'["keeper"].todo \subseteq channels
    BY <2>2 DEF GoesTo, Stops
  <2> QED
    BY <2>1, <2>2, <2>3, <2>4, NamesDistinct, ShapeKept DEF ShapeInv
<1>6. CASE FirstTemplate
  <2>1. UNCHANGED <<prevOf, channels>> /\ send["reader"].pc = "latest"
    BY <1>6 DEF FirstTemplate, At, feedVars, sessionVars
  <2>2. \/ Alone("reader") /\ Stops("reader")
        \/ Alone("reader") /\ send'["reader"].ch = send["reader"].ch /\ send'["reader"].todo = send["reader"].todo
    BY <1>6, NamesDistinct, StopEffect, ActivateEffect DEF FirstTemplate
  <2> QED
    BY <2>1, <2>2, NamesDistinct, ShapeKept DEF ShapeInv, Stops
<1>7. CASE Close
  BY <1>7 DEF Close, ShapeInv, Shape, IdleSend, feedVars
<1>9. CASE BuildCoinbase
  <2>1. UNCHANGED <<prevOf, channels>> /\ send["reader"].pc = "coinbase" /\ send' = [send EXCEPT !["reader"].pc = "latest"]
    BY <1>9 DEF BuildCoinbase, At, Go, feedVars, sessionVars
  <2>2. Alone("reader") /\ Moves("reader", "latest")
    BY <2>1, NamesDistinct, StepEffect
  <2>3. send'["reader"].ch \in channels /\ send'["reader"].todo \subseteq channels /\ channels \subseteq Channels
    BY <2>1, <2>2, NamesDistinct DEF ShapeInv, Moves
  <2> QED
    BY <2>1, <2>2, <2>3, NamesDistinct, ShapeKept
<1>8. ASSUME NEW t \in Senders, Send(t) PROVE ShapeInv'
  <2>1. Alone(t) /\ UNCHANGED <<channels, prevOf>>
    BY <1>8, SendEffect
  <2>2. send[t].todo \subseteq channels /\ channels \subseteq Channels
    BY DEF ShapeInv
  <2>3. CASE Stops(t)
    BY <2>1, <2>2, <2>3, ShapeKept DEF Stops
  <2>4. ASSUME NEW j, NEW pc, NEW todo \in {channels, send[t].todo}, GoesTo(t, j, todo, pc) PROVE ShapeInv'
    <3>1. send'[t].ch \in channels /\ send'[t].todo \subseteq channels
      BY <2>2, <2>4 DEF GoesTo
    <3> QED
      BY <2>1, <2>2, <3>1, ShapeKept
  <2>5. ASSUME NEW pc, Moves(t, pc), send[t].pc \notin {"idle", "start"} PROVE ShapeInv'
    <3>1. send[t].ch \in channels
      BY <2>5 DEF ShapeInv
    <3> QED
      BY <2>1, <2>2, <2>5, <3>1, ShapeKept DEF Moves
  <2>6. Passes(t) => ShapeInv'
    BY <2>3, <2>4 DEF Passes
  <2> QED
    BY <1>8, <2>3, <2>4, <2>5, <2>6, SendEffect
<1> QED
  BY <1>1, <1>2, <1>3, <1>4, <1>5, <1>6, <1>7, <1>8, <1>9
  DEF Next, Prime, Cache, Broadcast, HandleConn, Greet, vars, feedVars, sessionVars

-----------------------------------------------------------------------------
(* Whom a template pays *)

Payer(c) == IF c \in Payable THEN c ELSE Pool

\* Whether the channel of a worker that can be paid has its own coinbase.
Built(c) == c \in Payable => ownCoinbase[c].src # 0

\* A channel's own coinbase pays its worker and, once built, is kept; every sender has it
\* built, or finds it built, before it sends.
PayInv ==
  /\ DOMAIN ownCoinbase = Channels
  /\ \A c \in Channels \ Payable : ownCoinbase[c].src = 0
  /\ \A c \in Payable : ownCoinbase[c].src # 0 => ownCoinbase[c].pays = c
  /\ \A t \in Senders : send[t].pc \in {"latest", "job", "wire", "prevhash"} => Built(send[t].ch)
  /\ send["keeper"].pc # "prepare" /\ \A c \in send["keeper"].todo : Built(c)
  /\ \A k \in DOMAIN templates : Built(k[2]) /\ templates[k].pays = Payer(k[2])

LEMMA RefreshBuilds ==
  ASSUME ShapeInv, PayInv, NEW c \in Channels, RefreshCoinbase(c)
  PROVE  /\ DOMAIN ownCoinbase' = Channels
         /\ \A d \in Channels \ Payable : ownCoinbase'[d].src = 0
         /\ \A d \in Payable : ownCoinbase'[d].src # 0 => ownCoinbase'[d].pays = d
         /\ Built(c)' /\ \A d : Built(d) => Built(d)'
<1>1. LatestSrc # 0
  BY DEF ShapeInv, LatestSrc
<1>2. CASE c \in Payable
  <2>1. ownCoinbase' = [ownCoinbase EXCEPT ![c] = [pays |-> c, src |-> LatestSrc]]
    BY <1>2 DEF RefreshCoinbase
  <2>2. ownCoinbase'[c].src # 0 /\ ownCoinbase'[c].pays = c
    BY <1>1, <2>1 DEF PayInv
  <2>3. DOMAIN ownCoinbase' = Channels /\ \A d \in Channels \ {c} : ownCoinbase'[d] = ownCoinbase[d]
    BY <2>1 DEF PayInv
  <2>4. \A d : Built(d) => Built(d)'
    BY <2>2, <2>3, SV2Assumption DEF Built
  <2> QED
    BY <1>2, <2>2, <2>3, <2>4, SV2Assumption DEF PayInv, Built
<1>3. CASE c \notin Payable
  BY <1>3 DEF RefreshCoinbase, PayInv, Built
<1> QED
  BY <1>2, <1>3

\* t's entry alone changed, and the coinbases are as built as they were.
LEMMA PayKept ==
  ASSUME PayInv, NEW t \in Senders, Alone(t), UNCHANGED templates,
         DOMAIN ownCoinbase' = Channels,
         \A d \in Channels \ Payable : ownCoinbase'[d].src = 0,
         \A d \in Payable : ownCoinbase'[d].src # 0 => ownCoinbase'[d].pays = d,
         \A d : Built(d) => Built(d)',
         send'[t].pc \in {"latest", "job", "wire", "prevhash"} => Built(send[t].ch)',
         t = "keeper" => send'[t].pc # "prepare" /\ \A c \in send'[t].todo : Built(c)'
  PROVE  PayInv'
<1>1. \A u \in Senders : send'[u].pc \in {"latest", "job", "wire", "prevhash"} => Built(send[u].ch)'
  BY DEF PayInv, Alone
<1>2. send'["keeper"].pc # "prepare" /\ \A c \in send'["keeper"].todo : Built(c)'
  BY NamesDistinct DEF PayInv, Alone
<1>3. \A k \in DOMAIN templates' : Built(k[2])' /\ templates'[k].pays = Payer(k[2])
  BY DEF PayInv
<1> QED
  BY <1>1, <1>2, <1>3 DEF PayInv

\* The same, and the coinbases are untouched.
LEMMA PayStays ==
  ASSUME PayInv, NEW t \in Senders, Alone(t), UNCHANGED <<templates, ownCoinbase>>,
         send'[t].pc \in {"latest", "job", "wire", "prevhash"} => Built(send'[t].ch),
         t = "keeper" => send'[t].pc # "prepare" /\ \A c \in send'[t].todo : Built(c)
  PROVE  PayInv'
<1>1. \A d : Built(d)' <=> Built(d)
  BY DEF Built
<1>2. /\ DOMAIN ownCoinbase' = Channels /\ \A d \in Channels \ Payable : ownCoinbase'[d].src = 0
      /\ \A d \in Payable : ownCoinbase'[d].src # 0 => ownCoinbase'[d].pays = d
  BY DEF PayInv
<1> QED
  BY <1>1, <1>2, PayKept

LEMMA NextPay == ShapeInv /\ PayInv /\ [Next]_vars => PayInv'
<1> SUFFICES ASSUME ShapeInv, PayInv, [Next]_vars PROVE PayInv'
  OBVIOUS
<1>1. CASE UNCHANGED <<ownCoinbase, send, templates>>
  BY <1>1 DEF PayInv, Built
<1>2. ASSUME NEW j, NEW g, StartPush(j, g), UNCHANGED <<ownCoinbase, templates>> PROVE PayInv'
  <2>1. PICK p \in Pushers : Alone(p) /\ send'[p].pc = "start"
    BY <1>2, StartPushEffect
  <2> QED
    BY <1>2, <2>1, NamesDistinct, PayStays
<1>3. ASSUME NEW c \in Channels, OpenChannel(c) PROVE PayInv'
  <2>1. UNCHANGED <<ownCoinbase, templates>> /\ NextChannel("reader", None, {c}, "coinbase")
    BY <1>3 DEF OpenChannel, channelVars
  <2>2. Alone("reader") /\ send'["reader"].pc = "coinbase"
    BY <2>1, NextChannelEffect, NamesDistinct DEF GoesTo
  <2> QED
    BY <2>1, <2>2, NamesDistinct, PayStays
<1>4. CASE BuildCoinbase
  <2> DEFINE c == send["reader"].ch
  <2>1. /\ RefreshCoinbase(c) /\ UNCHANGED templates
        /\ send["reader"].pc = "coinbase" /\ send' = [send EXCEPT !["reader"].pc = "latest"]
    BY <1>4 DEF BuildCoinbase, At, Go, sessionVars
  <2>2. Alone("reader") /\ Moves("reader", "latest")
    BY <2>1, NamesDistinct, StepEffect
  <2>3. c \in Channels
    BY <2>1, NamesDistinct DEF ShapeInv
  <2>4. Built(send["reader"].ch)'
    BY <2>1, <2>2, <2>3, RefreshBuilds DEF Moves
  <2> HIDE DEF c
  <2> QED
    BY <2>1, <2>2, <2>3, <2>4, NamesDistinct, RefreshBuilds, PayKept
<1>5. CASE FirstTemplate
  <2>1. UNCHANGED <<ownCoinbase, templates>> /\ send["reader"].pc = "latest"
    BY <1>5 DEF FirstTemplate, At, sessionVars
  <2>2. \/ Alone("reader") /\ Stops("reader")
        \/ Alone("reader") /\ send'["reader"].ch = send["reader"].ch
    BY <1>5, NamesDistinct, StopEffect, ActivateEffect DEF FirstTemplate
  <2> QED
    BY <2>1, <2>2, NamesDistinct, PayStays DEF PayInv, Stops
<1>6. CASE Keepalive
  <2> DEFINE refreshed == {c \in channels : <<lastJobID, c>> \in DOMAIN templates}
  <2>1. /\ UNCHANGED <<ownCoinbase, templates>> /\ refreshed # {}
        /\ NextChannel("keeper", lastJobID, refreshed, "job")
    BY <1>6 DEF Keepalive, sessionVars, channelVars
  <2>2. Alone("keeper") /\ GoesTo("keeper", lastJobID, refreshed, "job")
    BY <2>1, NextChannelEffect, NamesDistinct
  <2>3. \A c \in refreshed : Built(c)
    BY DEF PayInv
  <2>4. send'["keeper"].pc = "job" /\ send'["keeper"].ch \in refreshed /\ send'["keeper"].todo \subseteq refreshed
    BY <2>2 DEF GoesTo
  <2> QED
    BY <2>1, <2>2, <2>3, <2>4, NamesDistinct, PayStays
<1>7. CASE Close
  <2>1. ownCoinbase' = For(NoCoinbase) /\ templates' = <<>> /\ \A t \in Senders : send'[t] = IdleSend
    BY <1>7 DEF Close
  <2>2. \A t \in Senders : send'[t].pc = "idle" /\ send'[t].todo = {}
    BY <2>1 DEF IdleSend
  <2>3. DOMAIN ownCoinbase' = Channels /\ \A c \in Channels : ownCoinbase'[c].src = 0
    BY <2>1 DEF For, NoCoinbase
  <2> QED
    BY <2>1, <2>2, <2>3, NamesDistinct, SV2Assumption DEF PayInv
<1>8. ASSUME NEW t \in Senders, Send(t) PROVE PayInv'
  <2> DEFINE c == send[t].ch
             j == send[t].job
  <2>1. Alone(t)
    BY <1>8, SendEffect
  <2>2. CASE UpdateTemplate(t)
    <3>1. UNCHANGED ownCoinbase /\ t # "keeper" /\ NextChannel(t, j, channels, "prepare")
      BY <2>2, NamesDistinct DEF UpdateTemplate, channelVars
    <3>2. send'[t].pc \in {"idle", "prepare"}
      BY <3>1, NextChannelEffect DEF Stops, GoesTo
    <3>3. \E K \in SUBSET DOMAIN templates : templates' = [k \in K |-> templates[k]]
      BY <2>2 DEF UpdateTemplate, ForgetOldest
    <3> QED
      BY <2>1, <3>1, <3>2, <3>3, NamesDistinct DEF PayInv, Built, Alone
  <2>3. CASE Prepare(t)
    <3>1. t # "keeper" /\ send[t].pc = "prepare" /\ RefreshCoinbase(c) /\ UNCHANGED templates
      BY <2>3, NamesDistinct DEF Prepare, At, sessionVars
    <3>2. Moves(t, "job")
      BY <2>3, ActivateEffect DEF Prepare, Moves
    <3>3. c \in Channels
      BY <3>1 DEF ShapeInv
    <3>4. Built(send[t].ch)'
      BY <3>1, <3>2, <3>3, RefreshBuilds DEF Moves
    <3> HIDE DEF c
    <3> QED
      BY <2>1, <3>1, <3>3, <3>4, RefreshBuilds, PayKept
  <2>4. CASE SendJob(t)
    <3>1. /\ send[t].pc = "job" /\ send' = [send EXCEPT ![t].pc = "wire", ![t].coinb = Coinbase(c, j)]
          /\ UNCHANGED ownCoinbase /\ KeepTemplate(c, j, Coinbase(c, j))
      BY <2>4 DEF SendJob, At
    <3>2. Moves(t, "wire")
      BY <3>1, StepEffect
    <3>3. c \in Channels /\ Built(c)
      BY <3>1 DEF ShapeInv, PayInv
    <3>4. Coinbase(c, j).pays = Payer(c)
      <4>1. CASE c \in Payable
        BY <3>3, <4>1 DEF Coinbase, Payer, PayInv, Built
      <4>2. CASE c \notin Payable
        BY <3>3, <4>2 DEF Coinbase, Payer, PayInv
      <4> QED
        BY <4>1, <4>2
    <3>5. ASSUME NEW k \in DOMAIN templates' PROVE Built(k[2]) /\ templates'[k].pays = Payer(k[2])
      <4>1. k = <<j, c>> \/ k \in DOMAIN templates
        BY <3>1, <3>5 DEF KeepTemplate
      <4>2. CASE k = <<j, c>>
        BY <3>1, <3>3, <3>4, <3>5, <4>2 DEF KeepTemplate
      <4>3. CASE k # <<j, c>>
        <5>1. templates'[k] = templates[k]
          BY <3>1, <3>5, <4>3 DEF KeepTemplate
        <5> QED
          BY <4>1, <4>3, <5>1 DEF PayInv
      <4> QED
        BY <4>2, <4>3
    <3>6. \A d : Built(d)' <=> Built(d)
      BY <3>1 DEF Built
    <3>7. send'[t].pc = "wire" /\ send'[t].ch = c /\ send'[t].todo = send[t].todo
      BY <3>2 DEF Moves
    <3>8. \A u \in Senders : send'[u].pc \in {"latest", "job", "wire", "prevhash"} => Built(send'[u].ch)
      BY <2>1, <3>3, <3>7 DEF PayInv, Alone
    <3>9. send'["keeper"].pc # "prepare" /\ send'["keeper"].todo = send["keeper"].todo
      BY <2>1, <3>7, NamesDistinct DEF PayInv, Alone
    <3> QED
      BY <3>1, <3>5, <3>6, <3>8, <3>9 DEF PayInv
  <2>5. CASE WriteJob(t) \/ SendPrevHash(t)
    <3>1. UNCHANGED <<ownCoinbase, templates>> /\ send[t].pc \in {"wire", "prevhash"}
      BY <2>5 DEF WriteJob, SendPrevHash, At, channelVars
    <3>2. Moves(t, "prevhash") \/ Passes(t)
      BY <1>8, <2>5, SendEffect DEF UpdateTemplate, Prepare, SendJob, WriteJob, SendPrevHash, At
    <3>3. CASE Moves(t, "prevhash")
      <4>1. send'[t].pc = "prevhash" /\ Built(send'[t].ch) /\ send'[t].todo = send[t].todo
        BY <3>1, <3>3 DEF Moves, PayInv
      <4> QED
        BY <2>1, <3>1, <4>1, PayStays DEF PayInv
    <3>4. CASE Stops(t)
      BY <2>1, <3>1, <3>4, PayStays DEF Stops
    <3>5. CASE t # "reader" /\ GoesTo(t, send[t].job, send[t].todo, After(t))
      <4>1. CASE t = "keeper"
        <5>1. send'[t].pc = "job" /\ send'[t].ch \in send[t].todo /\ send'[t].todo \subseteq send[t].todo
          BY <3>5, <4>1 DEF GoesTo, After
        <5>2. \A d \in send[t].todo : Built(d)
          BY <4>1 DEF PayInv
        <5> QED
          BY <2>1, <3>1, <4>1, <5>1, <5>2, PayStays
      <4>2. CASE t # "keeper"
        <5>1. send'[t].pc = "prepare"
          BY <3>5, <4>2 DEF GoesTo, After
        <5> QED
          BY <2>1, <3>1, <4>2, <5>1, PayStays
      <4> QED
        BY <4>1, <4>2
    <3> QED
      BY <3>2, <3>3, <3>4, <3>5 DEF Passes
  <2> QED
    BY <1>8, <2>2, <2>3, <2>4, <2>5 DEF Send
<1> QED
  BY <1>1, <1>2, <1>3, <1>4, <1>5, <1>6, <1>7, <1>8
  DEF Next, NewTemplate, Prime, Cache, Broadcast, HandleConn, Greet, vars, sessionVars, channelVars

\* A share is judged by a coinbase that pays the channel's own worker, whichever senders
\* prepare, number and forget templates at the same time.
THEOREM PaysCorrect == Spec => []PaysItsWorker
<1>1. Init => ShapeInv /\ PayInv
  <2> SUFFICES ASSUME Init PROVE PayInv
    BY InitShape
  <2>1. \A t \in Senders : send[t].pc = "idle" /\ send[t].todo = {}
    BY DEF Init, IdleSend
  <2>2. DOMAIN ownCoinbase = Channels /\ \A c \in Channels : ownCoinbase[c].src = 0
    BY DEF Init, For, NoCoinbase
  <2>3. templates = <<>>
    BY DEF Init
  <2> QED
    BY <2>1, <2>2, <2>3, NamesDistinct, SV2Assumption DEF PayInv
<1>2. PayInv => PaysItsWorker
  BY DEF PayInv, Payer, PaysItsWorker
<1> QED
  BY <1>1, <1>2, NextShape, NextPay, PTL DEF Spec

-----------------------------------------------------------------------------
(* The newest template *)

\* t will still send the newest template to c.
Owes(t, c) ==
  \/ send[t].pc = "start" /\ send[t].job = latestTemplate
  \/ send[t].pc \in {"coinbase", "latest"} /\ send[t].ch = c
  \/ /\ send[t].pc \in {"prepare", "job", "wire", "prevhash"} /\ send[t].job = latestTemplate
     /\ \/ send[t].pc # "prevhash" /\ send[t].ch = c
        \/ t # "reader" /\ c \in send[t].todo

\* The newest template is cached, and its broadcast has not gone through the sessions.
CastDue == \E g \in Feeders : cast[g] = latestTemplate

Reached(c) == latestTemplate \in sent[c] \/ CastDue \/ \E t \in Senders : Owes(t, c)

\* There is no channel before the greeting, and none misses the newest template.
ReachInv ==
  /\ DOMAIN sent = Channels /\ DOMAIN cast = Feeders
  /\ channels # {} => listed = "greeted"
  /\ latestTemplate # None => \A c \in channels : Reached(c)

\* t's step serves every channel it owed the newest template, or still owes it.
LEMMA ReachKept ==
  ASSUME ReachInv, NEW t \in Senders, Alone(t), UNCHANGED <<cast, latestTemplate, channels, listed>>,
         DOMAIN sent' = Channels, \A c \in channels : sent[c] \subseteq sent'[c],
         \A c \in channels : latestTemplate # None /\ Owes(t, c) => Owes(t, c)' \/ latestTemplate \in sent'[c]
  PROVE  ReachInv'
<1>1. ASSUME NEW c \in channels, latestTemplate # None PROVE Reached(c)'
  <2>1. CASE latestTemplate \in sent[c]
    BY <1>1, <2>1 DEF Reached
  <2>4. CASE CastDue
    BY <1>1, <2>4 DEF Reached, CastDue
  <2>2. CASE latestTemplate \notin sent[c] /\ ~CastDue
    <3>1. PICK u \in Senders : Owes(u, c)
      BY <1>1, <2>2 DEF ReachInv, Reached
    <3>2. CASE u = t
      BY <1>1, <3>1, <3>2 DEF Reached
    <3>3. CASE u # t
      <4>1. send'[u] = send[u]
        BY <3>3 DEF Alone
      <4> QED
        BY <1>1, <3>1, <4>1 DEF Reached, Owes
    <3> QED
      BY <3>2, <3>3
  <2> QED
    BY <2>1, <2>2, <2>4
<1> QED
  BY <1>1 DEF ReachInv

LEMMA NextReach == ShapeInv /\ ReachInv /\ [Next]_vars => ReachInv'
<1> SUFFICES ASSUME ShapeInv, ReachInv, [Next]_vars PROVE ReachInv'
  OBVIOUS
<1>1. CASE UNCHANGED <<cast, latestTemplate, channels, listed, sent, send>>
  BY <1>1 DEF ReachInv, Reached, Owes, CastDue
<1>9. ASSUME NEW g \in Feeders, Cache(g) PROVE ReachInv'
  <2>1. UNCHANGED <<channels, listed, sent>> /\ latestTemplate' = feed[g] /\ cast' = [cast EXCEPT ![g] = feed[g]]
    BY <1>9 DEF Cache, sessionVars, minerVars
  <2>2. CastDue' /\ DOMAIN cast' = Feeders
    BY <2>1 DEF CastDue, ReachInv
  <2> QED
    BY <2>1, <2>2 DEF ReachInv, Reached
<1>2. ASSUME NEW g \in Feeders, Broadcast(g) PROVE ReachInv'
  <2>1. UNCHANGED <<channels, listed, sent, latestTemplate>> /\ cast' = [cast EXCEPT ![g] = None] /\ cast[g] # None
    BY <1>2 DEF Broadcast, serverVars, sessionVars, minerVars
  <2>2. CASE listed \in {"listed", "greeted"}
    <3>1. PICK p \in Pushers : /\ Idle(p) /\ Alone(p)
                               /\ send'[p].pc = "start" /\ send'[p].job = cast[g]
      BY <1>2, <2>2, StartPushEffect DEF Broadcast
    <3>2. p \in Senders
      BY NamesDistinct
    <3>3. CASE cast[g] = latestTemplate
      <4>1. \A c \in channels : Owes(p, c)'
        BY <2>1, <3>1, <3>3 DEF Owes
      <4> QED
        BY <2>1, <3>2, <4>1 DEF ReachInv, Reached
    <3>4. CASE cast[g] # latestTemplate
      <4>1. CastDue => CastDue'
        BY <2>1, <3>4 DEF CastDue, ReachInv
      <4>2. \A u \in Senders, c \in channels : Owes(u, c) => Owes(u, c)'
        BY <2>1, <3>1 DEF Owes, Idle, Alone
      <4> QED
        BY <2>1, <4>1, <4>2 DEF ReachInv, Reached
    <3> QED
      BY <3>3, <3>4
  <2>3. CASE listed \notin {"listed", "greeted"}
    BY <2>1, <2>3 DEF ReachInv
  <2> QED
    BY <2>2, <2>3
<1>3. CASE HandleConn \/ Greet
  BY <1>3 DEF HandleConn, Greet, ReachInv, feedVars, sessionVars, minerVars
<1>4. ASSUME NEW c \in Channels, OpenChannel(c) PROVE ReachInv'
  <2>1. /\ channels' = channels \cup {c} /\ listed = "greeted" /\ Idle("reader")
        /\ UNCHANGED <<cast, listed, latestTemplate, sent>> /\ NextChannel("reader", None, {c}, "coinbase")
    BY <1>4 DEF OpenChannel, feedVars, serverVars, minerVars
  <2>2. Alone("reader") /\ GoesTo("reader", None, {c}, "coinbase")
    BY <2>1, NextChannelEffect, NamesDistinct
  <2>3. Reached(c)'
    BY <2>2, NamesDistinct DEF GoesTo, Reached, Owes
  <2>4. ASSUME NEW d \in channels, latestTemplate # None PROVE Reached(d)'
    <3>1. CASE latestTemplate \in sent[d]
      BY <2>1, <3>1 DEF Reached
    <3>3. CASE CastDue
      BY <2>1, <3>3 DEF Reached, CastDue
    <3>2. CASE latestTemplate \notin sent[d] /\ ~CastDue
      <4>1. PICK u \in Senders : Owes(u, d)
        BY <2>4, <3>2 DEF ReachInv, Reached
      <4>2. u # "reader"
        BY <2>1, <4>1 DEF Owes, Idle
      <4>3. send'[u] = send[u]
        BY <2>2, <4>2 DEF Alone
      <4> QED
        BY <2>1, <4>1, <4>3 DEF Reached, Owes
    <3> QED
      BY <3>1, <3>2, <3>3
  <2> QED
    BY <2>1, <2>3, <2>4 DEF ReachInv
<1>5. CASE Keepalive
  <2>1. /\ UNCHANGED <<cast, channels, listed, latestTemplate, sent>> /\ Idle("keeper")
        /\ \E todo : NextChannel("keeper", lastJobID, todo, "job")
    BY <1>5 DEF Keepalive, feedVars, serverVars, sessionVars, minerVars
  <2>2. Alone("keeper")
    BY <2>1, NextChannelEffect, NamesDistinct
  <2>3. \A c \in channels : ~Owes("keeper", c)
    BY <2>1 DEF Owes, Idle
  <2> QED
    BY <2>1, <2>2, <2>3, NamesDistinct, ReachKept DEF ReachInv
<1>6. CASE FirstTemplate
  <2>1. UNCHANGED <<cast, channels, listed, latestTemplate, sent>> /\ send["reader"].pc = "latest"
    BY <1>6 DEF FirstTemplate, At, feedVars, serverVars, sessionVars, minerVars
  <2>2. CASE latestTemplate = None
    BY <2>1, <2>2 DEF ReachInv
  <2>3. CASE latestTemplate # None
    <3>1. Alone("reader") /\ send'["reader"].pc = "job" /\ send'["reader"].job = latestTemplate
          /\ send'["reader"].ch = send["reader"].ch
      BY <1>6, <2>3, ActivateEffect, NamesDistinct DEF FirstTemplate
    <3>2. \A c \in channels : Owes("reader", c) => Owes("reader", c)'
      BY <2>1, <3>1 DEF Owes
    <3> QED
      BY <2>1, <3>1, <3>2, NamesDistinct, ReachKept DEF ReachInv
  <2> QED
    BY <2>2, <2>3
<1>10. CASE BuildCoinbase
  <2>1. /\ UNCHANGED <<cast, channels, listed, latestTemplate, sent>>
        /\ send["reader"].pc = "coinbase" /\ send' = [send EXCEPT !["reader"].pc = "latest"]
    BY <1>10 DEF BuildCoinbase, At, Go, feedVars, serverVars, sessionVars, minerVars
  <2>2. Alone("reader") /\ Moves("reader", "latest")
    BY <2>1, NamesDistinct, StepEffect
  <2>3. \A c \in channels : Owes("reader", c) => Owes("reader", c)'
    BY <2>1, <2>2 DEF Owes, Moves
  <2> QED
    BY <2>1, <2>2, <2>3, NamesDistinct, ReachKept DEF ReachInv
<1>7. CASE Close
  BY <1>7 DEF Close, For, ReachInv, feedVars
<1>8. ASSUME NEW t \in Senders, Send(t) PROVE ReachInv'
  <2>1. Alone(t) /\ UNCHANGED <<cast, channels, listed, latestTemplate>>
    BY <1>8, SendEffect DEF Send, UpdateTemplate, Prepare, SendJob, WriteJob, SendPrevHash, feedVars, serverVars
  <2>2. DOMAIN sent' = Channels /\ \A c \in channels : sent[c] \subseteq sent'[c]
    BY <1>8 DEF Send, UpdateTemplate, Prepare, SendJob, WriteJob, SendPrevHash, minerVars, ReachInv, ShapeInv
  <2> SUFFICES ASSUME NEW c \in channels, Owes(t, c) PROVE Owes(t, c)' \/ latestTemplate \in sent'[c]
    BY <2>1, <2>2, ReachKept
  \* Passing on, the channel done with apart.
  <2>3. ASSUME Passes(t), c \in send[t].todo, t # "reader", send[t].job = latestTemplate PROVE Owes(t, c)'
    <3>1. GoesTo(t, send[t].job, send[t].todo, After(t)) /\ After(t) \in {"job", "prepare"}
      BY <2>3 DEF Passes, Stops, After
    <3>2. send'[t].pc = After(t) /\ send'[t].job = latestTemplate /\ (send'[t].ch = c \/ c \in send'[t].todo)
      BY <2>3, <3>1 DEF GoesTo
    <3> QED
      BY <2>1, <2>3, <3>1, <3>2 DEF Owes
  <2>4. CASE UpdateTemplate(t)
    <3>1. send[t].pc = "start" /\ t # "reader" /\ send[t].job = latestTemplate
      BY <2>4, NamesDistinct DEF UpdateTemplate, At, Owes
    <3>2. GoesTo(t, send[t].job, channels, "prepare")
      BY <2>4, <1>8, <3>1, SendEffect DEF Prepare, SendJob, WriteJob, SendPrevHash, At
    <3>3. send'[t].pc = "prepare" /\ send'[t].job = latestTemplate /\ (send'[t].ch = c \/ c \in send'[t].todo)
      BY <3>1, <3>2 DEF GoesTo
    <3> QED
      BY <2>1, <3>1, <3>3 DEF Owes
  <2>5. CASE (send[t].pc = "prepare" /\ Moves(t, "job")) \/ (send[t].pc = "job" /\ Moves(t, "wire"))
    BY <2>1, <2>5 DEF Owes, Moves
  <2>6. CASE WriteJob(t) /\ send[t].pc = "wire" /\ (Moves(t, "prevhash") \/ Passes(t))
    <3>1. sent' = [sent EXCEPT ![send[t].ch] = @ \cup {send[t].job}] /\ send[t].job = latestTemplate
      BY <2>6 DEF WriteJob, Owes
    <3>2. CASE send[t].ch = c
      BY <3>1, <3>2 DEF ReachInv, ShapeInv
    <3>3. CASE send[t].ch # c
      <4>1. t # "reader" /\ c \in send[t].todo
        BY <2>6, <3>3 DEF Owes
      <4>2. Moves(t, "prevhash") => Owes(t, c)'
        BY <2>1, <3>1, <4>1 DEF Owes, Moves
      <4> QED
        BY <2>3, <2>6, <3>1, <4>1, <4>2
    <3> QED
      BY <3>2, <3>3
  <2>7. CASE send[t].pc = "prevhash" /\ Passes(t)
    <3>1. t # "reader" /\ c \in send[t].todo /\ send[t].job = latestTemplate
      BY <2>7 DEF Owes
    <3> QED
      BY <2>3, <2>7, <3>1
  <2> QED
    BY <1>8, <2>4, <2>5, <2>6, <2>7, SendEffect
<1> QED
  BY <1>1, <1>2, <1>3, <1>4, <1>5, <1>6, <1>7, <1>8, <1>9, <1>10
  DEF Next, NewTemplate, Prime, vars, feedVars, serverVars, sessionVars, minerVars

\* No channel misses the newest template, whenever it opens and however many senders are
\* under way.
THEOREM NewestCorrect == Spec => []NewestReachesAll
<1>1. Init => ShapeInv /\ ReachInv
  BY InitShape DEF Init, For, ReachInv
<1>2. ReachInv => NewestReachesAll
  BY DEF ReachInv, Reached, CastDue, Owes, NewestReachesAll, Quiet, Free, Idle
<1> QED
  BY <1>1, <1>2, NextShape, NextReach, PTL DEF Spec

-----------------------------------------------------------------------------
(* One sender at a time *)

Busy(t) == send[t].pc \in {"start", "prepare", "job", "wire", "prevhash"}
InHand(t) == send[t].pc \in {"job", "wire", "prevhash"}

\* Jobs are numbered as they are given, and whoever has one to send has such a number.
JobInv ==
  /\ issued \in Seq(Nat) /\ \A j \in 1..Len(issued) : issued[j] \in 1..Len(prevOf)
  /\ latestTemplate \in 0..Len(issued) /\ lastJobID \in 0..Len(issued)
  /\ \A g \in Feeders : feed[g] \in 0..Len(issued) /\ cast[g] \in 0..Len(issued)
  /\ \A t \in Senders : /\ Busy(t) => send[t].job \in 1..Len(issued)
                        /\ Idle(t) => send[t].todo = {}
  /\ \A k \in DOMAIN templates : k[1] \in 1..Len(issued)
  /\ DOMAIN feed = Feeders /\ DOMAIN cast = Feeders /\ DOMAIN miner = Channels /\ DOMAIN activePrevHash = Channels
  /\ \A c \in Channels : DOMAIN miner[c] = {"prev", "job", "coinb"}

\* The miner of channel c works on the newest template and is judged by its coinbase.
Settled(c) ==
  /\ miner[c].job = latestTemplate /\ miner[c].prev = PrevHash(latestTemplate)
  /\ <<latestTemplate, c>> \in DOMAIN templates /\ miner[c].coinb = templates[<<latestTemplate, c>>]
  /\ currentJob[c] = latestTemplate

Casting == \E g \in Feeders : cast[g] # None

\* With t or a broadcast alone at work, if anybody is: what is sent and broadcast is the
\* newest template, a channel it is not owed has it, and channel and miner have the same
\* prev-hash but for the message that is about to change the miner's.
SerialBy(t) ==
  /\ listed \notin {"listed", "greeted"} => Idle(t)
  /\ latestTemplate = None => lastJobID = None /\ \A c \in Channels : miner[c].job = None
  /\ Casting => Idle(t)
  /\ \A g \in Feeders : cast[g] \in {None, latestTemplate}
  /\ listed = "greeted" /\ send[t].pc # "start" /\ ~Casting => lastJobID = latestTemplate
  /\ Busy(t) => send[t].job = latestTemplate
  /\ latestTemplate # None /\ ~Casting =>
       \A c \in channels : Settled(c) \/ Owes(t, c) \/ (InHand(t) /\ send[t].ch = c)
  /\ \A c \in Channels : activePrevHash[c] = miner[c].prev \/ (InHand(t) /\ send[t].fresh /\ send[t].ch = c)
  /\ InHand(t) =>
       /\ activePrevHash[send[t].ch] = PrevHash(send[t].job)
       /\ send[t].fresh \/ miner[send[t].ch].prev = PrevHash(send[t].job)
  /\ send[t].pc \in {"wire", "prevhash"} =>
       /\ currentJob[send[t].ch] = send[t].job
       /\ LET k == <<send[t].job, send[t].ch>> IN k \in DOMAIN templates /\ templates[k] = send[t].coinb
  /\ t = "keeper" => \A d \in send[t].todo :
       latestTemplate # None /\ activePrevHash[d] = PrevHash(latestTemplate) /\ miner[d].prev = PrevHash(latestTemplate)

OthersIdle(t) == \A u \in Senders \ {t} : Idle(u)

SerialInv == ~overlapped => \E t \in Senders : OthersIdle(t) /\ SerialBy(t)

\* Numbering a template leaves the numbers given before it, and their prev-hashes.
LEMMA NumbersKept ==
  ASSUME ShapeInv, JobInv, NEW g \in Feeders, NewTemplate(g) \/ Prime(g)
  PROVE  /\ issued' \in Seq(Nat) /\ \A j \in 1..Len(issued') : issued'[j] \in 1..Len(prevOf')
         /\ Len(issued') = Len(issued) + 1 /\ feed' = [feed EXCEPT ![g] = Len(issued')]
         /\ \A j \in 1..Len(issued) : PrevHash(j)' = PrevHash(j)
<1>1. CASE NewTemplate(g)
  <2>1. PICK prev \in {Last(prevOf), Last(prevOf) + 1} : prevOf' = Append(prevOf, prev)
    BY <1>1 DEF NewTemplate
  <2>2. issued' = Append(issued, Len(prevOf')) /\ feed' = [feed EXCEPT ![g] = Len(issued')]
    BY <1>1 DEF NewTemplate
  <2>3. prevOf \in Seq(Nat) /\ prev \in Nat /\ Len(prevOf) # 0
    BY DEF ShapeInv, Last
  <2>4. Len(prevOf') = Len(prevOf) + 1 /\ \A i \in 1..Len(prevOf) : prevOf'[i] = prevOf[i]
    BY <2>1, <2>3
  <2>5. issued \in Seq(Nat) /\ Len(prevOf') \in Nat
    BY <2>3, <2>4 DEF JobInv
  <2>6. /\ issued' \in Seq(Nat) /\ Len(issued') = Len(issued) + 1
        /\ issued'[Len(issued')] = Len(prevOf') /\ \A j \in 1..Len(issued) : issued'[j] = issued[j]
    BY <2>2, <2>5
  <2>7. \A j \in 1..Len(issued) : issued[j] \in 1..Len(prevOf)
    BY DEF JobInv
  <2>8. ASSUME NEW j \in 1..Len(issued') PROVE issued'[j] \in 1..Len(prevOf')
    <3>1. Len(issued) \in Nat /\ Len(prevOf) \in Nat
      BY <2>3, <2>5
    <3>2. CASE j = Len(issued')
      BY <2>4, <2>6, <3>1, <3>2
    <3>3. CASE j # Len(issued')
      <4>1. j \in 1..Len(issued)
        BY <2>6, <2>8, <3>1, <3>3
      <4>2. issued'[j] = issued[j] /\ issued[j] \in 1..Len(prevOf)
        BY <2>6, <2>7, <4>1
      <4> QED
        BY <2>4, <3>1, <4>2
    <3> QED
      BY <3>2, <3>3
  <2>9. \A j \in 1..Len(issued) : PrevHash(j)' = PrevHash(j)
    BY <2>4, <2>6, <2>7 DEF PrevHash
  <2> QED
    BY <2>2, <2>6, <2>8, <2>9
<1>2. CASE Prime(g)
  <2>1. issued' = Append(issued, Len(prevOf)) /\ feed' = [feed EXCEPT ![g] = Len(issued')] /\ prevOf' = prevOf
    BY <1>2 DEF Prime, LatestSrc
  <2>2. issued \in Seq(Nat) /\ Len(prevOf) \in Nat /\ Len(prevOf) # 0
    BY DEF ShapeInv, JobInv
  <2>3. /\ issued' \in Seq(Nat) /\ Len(issued') = Len(issued) + 1
        /\ issued'[Len(issued')] = Len(prevOf) /\ \A j \in 1..Len(issued) : issued'[j] = issued[j]
    BY <2>1, <2>2
  <2>4. \A j \in 1..Len(issued) : issued[j] \in 1..Len(prevOf)
    BY DEF JobInv
  <2>5. ASSUME NEW j \in 1..Len(issued') PROVE issued'[j] \in 1..Len(prevOf')
    <3>1. j = Len(issued') \/ j \in 1..Len(issued)
      BY <2>2, <2>3
    <3> QED
      BY <2>1, <2>2, <2>3, <2>4, <3>1
  <2>6. \A j \in 1..Len(issued) : PrevHash(j)' = PrevHash(j)
    BY <2>1, <2>3 DEF PrevHash
  <2> QED
    BY <2>1, <2>3, <2>5, <2>6
<1> QED
  BY <1>1, <1>2

\* t's entry alone changed, and what it has to send has a number that was given.
LEMMA JobsKept ==
  ASSUME JobInv, NEW t \in Senders, Alone(t), UNCHANGED <<prevOf, issued>>,
         send'[t].pc \in {"start", "prepare", "job", "wire", "prevhash"} => send'[t].job \in 1..Len(issued),
         send'[t].pc = "idle" => send'[t].todo = {},
         latestTemplate' \in 0..Len(issued), lastJobID' \in 0..Len(issued),
         DOMAIN feed' = Feeders, \A g \in Feeders : feed'[g] \in 0..Len(issued),
         DOMAIN cast' = Feeders, \A g \in Feeders : cast'[g] \in 0..Len(issued),
         \A k \in DOMAIN templates' : k[1] \in 1..Len(issued),
         DOMAIN miner' = Channels, DOMAIN activePrevHash' = Channels,
         \A c \in Channels : DOMAIN miner'[c] = {"prev", "job", "coinb"}
  PROVE  JobInv'
<1>1. \A u \in Senders : /\ Busy(u)' => send'[u].job \in 1..Len(issued)
                         /\ Idle(u)' => send'[u].todo = {}
  BY DEF JobInv, Busy, Idle, Alone
<1> QED
  BY <1>1 DEF JobInv

LEMMA NextJobs == ShapeInv /\ JobInv /\ [Next]_vars => JobInv'
<1> SUFFICES ASSUME ShapeInv, JobInv, [Next]_vars PROVE JobInv'
  OBVIOUS
<1>n. Len(issued) \in Nat
  BY DEF JobInv
<1>1. CASE UNCHANGED vars
  BY <1>1 DEF vars, feedVars, serverVars, sessionVars, channelVars, minerVars, JobInv, Busy, Idle
<1>2. ASSUME NEW g \in Feeders, NewTemplate(g) \/ Prime(g) PROVE JobInv'
  <2>1. UNCHANGED <<cast, latestTemplate, lastJobID, templates, send, miner, activePrevHash>>
    BY <1>2 DEF NewTemplate, Prime, sessionVars, channelVars, minerVars
  <2>2. /\ issued' \in Seq(Nat) /\ \A j \in 1..Len(issued') : issued'[j] \in 1..Len(prevOf')
        /\ Len(issued') = Len(issued) + 1 /\ feed' = [feed EXCEPT ![g] = Len(issued')]
    BY <1>2, NumbersKept
  <2>3. DOMAIN feed' = Feeders /\ \A h \in Feeders : feed'[h] \in 0..Len(issued')
    BY <1>n, <2>2, SMTT(20) DEF JobInv
  <2>4. 1..Len(issued) \subseteq 1..Len(issued') /\ 0..Len(issued) \subseteq 0..Len(issued')
    BY <1>n, <2>2
  <2> QED
    BY <2>1, <2>2, <2>3, <2>4 DEF JobInv, Busy, Idle
<1>3. ASSUME NEW j \in 1..Len(issued), NEW g, StartPush(j, g),
             DOMAIN cast' = Feeders, \A h \in Feeders : cast'[h] \in 0..Len(issued),
             UNCHANGED <<prevOf, issued, feed, latestTemplate, lastJobID, templates, miner, activePrevHash>>
      PROVE  JobInv'
  <2>1. PICK p \in Pushers : /\ Idle(p) /\ Alone(p)
                             /\ send'[p].pc = "start" /\ send'[p].job = j /\ send'[p].todo = send[p].todo
    BY <1>3, StartPushEffect
  <2> QED
    BY <1>3, <2>1, NamesDistinct, JobsKept DEF JobInv
<1>11. ASSUME NEW g \in Feeders, Cache(g) PROVE JobInv'
  <2>1. /\ feed[g] \in 0..Len(issued) /\ latestTemplate' = feed[g]
        /\ feed' = [feed EXCEPT ![g] = None] /\ cast' = [cast EXCEPT ![g] = feed[g]]
        /\ UNCHANGED <<prevOf, issued, lastJobID, templates, send, miner, activePrevHash>>
    BY <1>11 DEF Cache, JobInv, sessionVars, channelVars, minerVars
  <2>2. /\ DOMAIN feed' = Feeders /\ \A h \in Feeders : feed'[h] \in 0..Len(issued)
        /\ DOMAIN cast' = Feeders /\ \A h \in Feeders : cast'[h] \in 0..Len(issued)
    BY <1>n, <2>1 DEF JobInv, None
  <2> QED
    BY <2>1, <2>2 DEF JobInv, Busy, Idle
<1>4. ASSUME NEW g \in Feeders, Broadcast(g) PROVE JobInv'
  <2>1. /\ cast[g] \in 1..Len(issued) /\ cast' = [cast EXCEPT ![g] = None]
        /\ UNCHANGED <<prevOf, issued, feed, latestTemplate, lastJobID, templates, miner, activePrevHash>>
    BY <1>4, <1>n DEF Broadcast, JobInv, None, serverVars, sessionVars, channelVars, minerVars
  <2>2. DOMAIN cast' = Feeders /\ \A h \in Feeders : cast'[h] \in 0..Len(issued)
    BY <1>n, <2>1 DEF JobInv, None
  <2>4. CASE StartPush(cast[g], g)
    BY <1>3, <2>1, <2>2, <2>4
  <2>5. CASE UNCHANGED send
    BY <2>1, <2>2, <2>5 DEF JobInv, Busy, Idle
  <2> QED
    BY <1>4, <2>4, <2>5 DEF Broadcast
<1>5. CASE HandleConn \/ Greet
  <2>1. UNCHANGED <<prevOf, issued, feed, cast, latestTemplate, lastJobID, templates, miner, activePrevHash>>
    BY <1>5 DEF HandleConn, Greet, feedVars, sessionVars, channelVars, minerVars
  <2>2. CASE StartPush(latestTemplate, None) /\ latestTemplate # None
    <3>1. latestTemplate \in 1..Len(issued)
      BY <1>n, <2>2 DEF JobInv, None
    <3> QED
      BY <1>3, <2>1, <2>2, <3>1 DEF JobInv
  <2>3. CASE UNCHANGED send
    BY <2>1, <2>3 DEF JobInv, Busy, Idle
  <2> QED
    BY <1>5, <2>2, <2>3 DEF HandleConn, Greet
<1>12. CASE BuildCoinbase
  <2>1. /\ UNCHANGED <<prevOf, issued, feed, cast, latestTemplate, lastJobID, templates, miner, activePrevHash>>
        /\ send["reader"].pc = "coinbase" /\ send' = [send EXCEPT !["reader"].pc = "latest"]
    BY <1>12 DEF BuildCoinbase, At, Go, feedVars, serverVars, sessionVars, minerVars
  <2>2. Alone("reader") /\ send'["reader"].pc = "latest"
    BY <2>1, NamesDistinct, StepEffect DEF Moves
  <2> QED
    BY <2>1, <2>2, NamesDistinct, JobsKept DEF JobInv
<1>6. ASSUME NEW c \in Channels, OpenChannel(c) PROVE JobInv'
  <2>1. /\ NextChannel("reader", None, {c}, "coinbase")
        /\ UNCHANGED <<prevOf, issued, feed, cast, latestTemplate, lastJobID, templates, miner, activePrevHash>>
    BY <1>6 DEF OpenChannel, feedVars, serverVars, channelVars, minerVars
  <2>2. Alone("reader") /\ GoesTo("reader", None, {c}, "coinbase")
    BY <2>1, NextChannelEffect, NamesDistinct
  <2>3. send'["reader"].pc = "coinbase"
    BY <2>2 DEF GoesTo
  <2> QED
    BY <2>1, <2>2, <2>3, NamesDistinct, JobsKept DEF JobInv
<1>7. CASE Keepalive
  <2> DEFINE refreshed == {c \in channels : <<lastJobID, c>> \in DOMAIN templates}
  <2>1. /\ NextChannel("keeper", lastJobID, refreshed, "job") /\ refreshed # {}
        /\ UNCHANGED <<prevOf, issued, feed, cast, latestTemplate, lastJobID, templates, miner, activePrevHash>>
    BY <1>7 DEF Keepalive, feedVars, serverVars, sessionVars, channelVars, minerVars
  <2>2. Alone("keeper") /\ GoesTo("keeper", lastJobID, refreshed, "job")
    BY <2>1, NextChannelEffect, NamesDistinct
  <2>3. lastJobID \in 1..Len(issued)
    BY <2>1 DEF JobInv
  <2>4. send'["keeper"].pc = "job" /\ send'["keeper"].job = lastJobID
    BY <2>2 DEF GoesTo
  <2> QED
    BY <2>1, <2>2, <2>3, <2>4, NamesDistinct, JobsKept DEF JobInv
<1>8. CASE FirstTemplate
  <2>1. /\ UNCHANGED <<prevOf, issued, feed, cast, latestTemplate, lastJobID, templates, miner>>
        /\ send["reader"].pc = "latest"
    BY <1>8 DEF FirstTemplate, At, feedVars, serverVars, sessionVars, minerVars
  <2>2. CASE latestTemplate = None
    <3>1. Alone("reader") /\ Stops("reader") /\ UNCHANGED activePrevHash
      BY <1>8, <2>2, StopEffect, NamesDistinct DEF FirstTemplate
    <3> QED
      BY <2>1, <3>1, NamesDistinct, JobsKept DEF JobInv, Stops
  <2>3. CASE latestTemplate # None
    <3>1. ActivatePrevHash("reader", send["reader"].ch, latestTemplate)
      BY <1>8, <2>3 DEF FirstTemplate
    <3>2. /\ Alone("reader") /\ send'["reader"].pc = "job" /\ send'["reader"].job = latestTemplate
      BY <3>1, ActivateEffect, NamesDistinct
    <3>3. DOMAIN activePrevHash' = Channels
      BY <3>1 DEF ActivatePrevHash, JobInv
    <3>4. latestTemplate \in 1..Len(issued)
      BY <1>n, <2>3 DEF JobInv, None
    <3> QED
      BY <2>1, <3>2, <3>3, <3>4, NamesDistinct, JobsKept DEF JobInv
  <2> QED
    BY <2>2, <2>3
<1>9. CASE Close
  <2>1. /\ UNCHANGED <<prevOf, issued, feed, cast, latestTemplate>> /\ lastJobID' = None /\ templates' = <<>>
        /\ miner' = For(NotMining) /\ activePrevHash' = For(None) /\ send' = [t \in Senders |-> IdleSend]
    BY <1>9 DEF Close, feedVars
  <2> QED
    BY <1>n, <2>1 DEF JobInv, Busy, Idle, IdleSend, For, NotMining, None
<1>10. ASSUME NEW t \in Senders, Send(t) PROVE JobInv'
  <2> DEFINE c == send[t].ch
             j == send[t].job
  <2>1. Alone(t) /\ UNCHANGED <<prevOf, issued, feed, cast, latestTemplate>>
    BY <1>10, SendEffect DEF Send, UpdateTemplate, Prepare, SendJob, WriteJob, SendPrevHash, feedVars, serverVars
  <2>2. j \in 1..Len(issued) /\ j \in 0..Len(issued)
    BY <1>10, <1>n DEF Send, UpdateTemplate, Prepare, SendJob, WriteJob, SendPrevHash, At, Busy, JobInv
  \* What t goes on with.
  <2>3. /\ send'[t].pc \in {"start", "prepare", "job", "wire", "prevhash"} => send'[t].job \in 1..Len(issued)
        /\ send'[t].pc = "idle" => send'[t].todo = {}
    <3>1. CASE Stops(t)
      BY <3>1 DEF Stops
    <3>2. ASSUME NEW todo, NEW pc \in {"prepare", "job"}, GoesTo(t, j, todo, pc)
          PROVE  send'[t].job = j /\ send'[t].pc # "idle"
      BY <3>2 DEF GoesTo
    <3>3. ASSUME NEW pc \in {"job", "wire", "prevhash"}, Moves(t, pc)
          PROVE  send'[t].job = j /\ send'[t].pc # "idle"
      BY <3>3 DEF Moves
    <3>4. Passes(t) => Stops(t) \/ (send'[t].job = j /\ send'[t].pc # "idle")
      BY <3>2 DEF Passes, After
    <3> QED
      BY <1>10, <2>2, <3>1, <3>2, <3>3, <3>4, SendEffect
  <2>4. lastJobID' \in 0..Len(issued)
    <3>1. lastJobID' \in {lastJobID, j}
      BY <1>10 DEF Send, UpdateTemplate, Prepare, SendJob, WriteJob, SendPrevHash, SentTo, sessionVars
    <3> QED
      BY <2>2, <3>1 DEF JobInv
  <2>5. \A k \in DOMAIN templates' : k[1] \in 1..Len(issued)
    <3>1. CASE UpdateTemplate(t)
      <4>1. DOMAIN templates' \subseteq DOMAIN templates
        BY <3>1 DEF UpdateTemplate, ForgetOldest
      <4> QED
        BY <4>1 DEF JobInv
    <3>2. CASE SendJob(t)
      <4>1. DOMAIN templates' = DOMAIN templates \cup {<<j, c>>}
        BY <3>2 DEF SendJob, KeepTemplate
      <4> QED
        BY <2>2, <4>1 DEF JobInv
    <3>3. CASE UNCHANGED templates
      BY <3>3 DEF JobInv
    <3> QED
      BY <1>10, <3>1, <3>2, <3>3 DEF Send, Prepare, WriteJob, SendPrevHash, sessionVars
  <2>6. DOMAIN miner' = Channels /\ \A d \in Channels : DOMAIN miner'[d] = {"prev", "job", "coinb"}
    <3>1. CASE WriteJob(t)
      <4>1. \/ miner' = [miner EXCEPT ![c].job = j, ![c].coinb = send[t].coinb]
            \/ UNCHANGED miner
        BY <3>1 DEF WriteJob
      <4> QED
        BY <4>1 DEF JobInv
    <3>2. CASE SendPrevHash(t)
      <4>1. miner' = [miner EXCEPT ![c] = [prev |-> PrevHash(j), job |-> j, coinb |-> send[t].coinb]]
        BY <3>2 DEF SendPrevHash
      <4> QED
        BY <4>1 DEF JobInv
    <3>3. CASE UNCHANGED miner
      BY <3>3 DEF JobInv
    <3> QED
      BY <1>10, <3>1, <3>2, <3>3 DEF Send, UpdateTemplate, Prepare, SendJob, minerVars
  <2>7. DOMAIN activePrevHash' = Channels
    BY <1>10 DEF Send, UpdateTemplate, Prepare, SendJob, WriteJob, SendPrevHash, ActivatePrevHash, channelVars, JobInv
  <2> QED
    BY <2>1, <2>2, <2>3, <2>4, <2>5, <2>6, <2>7, JobsKept DEF JobInv
<1> QED
  BY <1>1, <1>2, <1>4, <1>5, <1>6, <1>7, <1>8, <1>9, <1>10, <1>11, <1>12 DEF Next

-----------------------------------------------------------------------------
(* The sender at work alone *)

\* Whoever is at work is the one SerialInv speaks of; when nobody else is, anybody is.
LEMMA Acting ==
  ASSUME JobInv, ~overlapped, SerialInv, NEW t \in Senders, OthersIdle(t) \/ ~Idle(t)
  PROVE  OthersIdle(t) /\ SerialBy(t)
<1>1. PICK u \in Senders : OthersIdle(u) /\ SerialBy(u)
  BY DEF SerialInv
<1>2. CASE u = t
  BY <1>1, <1>2
<1>3. CASE u # t
  <2>1. Idle(t) /\ Idle(u) /\ OthersIdle(t)
    BY <1>1, <1>3 DEF OthersIdle
  <2>2. send[t].todo = {} /\ send[u].todo = {} /\ ~InHand(u) /\ ~Owes(u, u) /\ \A c : ~Owes(u, c)
    BY <2>1 DEF JobInv, Idle, InHand, Owes
  <2>3. SerialBy(t)
    BY <1>1, <2>1, <2>2 DEF SerialBy, Idle, InHand, Busy
  <2> QED
    BY <2>1, <2>3
<1> QED
  BY <1>2, <1>3

\* The next state needs a look at t only.
LEMMA SerialFrom ==
  ASSUME NEW t \in Senders, OthersIdle(t), Alone(t), SerialBy(t)'
  PROVE  SerialInv'
BY DEF OthersIdle, Alone, Idle, SerialInv

\* Nobody sends, and nothing changes but who is listed and what is numbered.
LEMMA SerialStays ==
  ASSUME JobInv, SerialInv, ~overlapped', UNCHANGED <<overlapped, send, cast, latestTemplate, lastJobID, templates, channels, miner, activePrevHash, currentJob>>,
         \A j \in 1..Len(issued) : PrevHash(j)' = PrevHash(j),
         listed' = listed \/ (listed = "new" /\ listed' = "listed")
         \/ (listed = "listed" /\ listed' = "greeted" /\ latestTemplate = None)
  PROVE  SerialInv'
<1>1. PICK t \in Senders : OthersIdle(t) /\ SerialBy(t)
  BY DEF SerialInv
<1>2. OthersIdle(t)'
  BY <1>1 DEF OthersIdle, Idle
<1>3. latestTemplate # None => PrevHash(latestTemplate)' = PrevHash(latestTemplate)
  <2>1. latestTemplate # None => latestTemplate \in 1..Len(issued)
    BY DEF JobInv, None
  <2> QED
    BY <2>1
<1>4. \A c \in channels : latestTemplate # None => (Settled(c)' <=> Settled(c)) /\ (Owes(t, c)' <=> Owes(t, c))
  BY <1>3 DEF Settled, Owes
<1>5. Busy(t) => PrevHash(send[t].job)' = PrevHash(send[t].job)
  BY DEF JobInv
<1>6. (Busy(t)' <=> Busy(t)) /\ (InHand(t)' <=> InHand(t)) /\ (Idle(t)' <=> Idle(t)) /\ (InHand(t) => Busy(t))
  BY DEF Busy, InHand, Idle
<1>7. /\ listed' \notin {"listed", "greeted"} => Idle(t)'
      /\ listed' = "greeted" /\ send'[t].pc # "start" /\ ~Casting' => lastJobID' = latestTemplate'
      /\ Casting' => Idle(t)'
      /\ \A g \in Feeders : cast'[g] \in {None, latestTemplate'}
  BY <1>1, <1>6 DEF SerialBy, Casting
<1>8. latestTemplate' # None /\ ~Casting' =>
        \A c \in channels' : Settled(c)' \/ Owes(t, c)' \/ (InHand(t)' /\ send'[t].ch = c)
  BY <1>1, <1>4, <1>6 DEF SerialBy, Casting
<1>9. InHand(t)' =>
        /\ activePrevHash'[send'[t].ch] = PrevHash(send[t].job)'
        /\ send'[t].fresh \/ miner'[send'[t].ch].prev = PrevHash(send[t].job)'
  BY <1>1, <1>5, <1>6 DEF SerialBy
<1>10. t = "keeper" => \A d \in send'[t].todo :
         latestTemplate' # None /\ activePrevHash'[d] = PrevHash(latestTemplate)' /\ miner'[d].prev = PrevHash(latestTemplate)'
  BY <1>1, <1>3 DEF SerialBy
<1>11. SerialBy(t)'
  BY <1>1, <1>6, <1>7, <1>8, <1>9, <1>10 DEF SerialBy
<1> QED
  BY <1>2, <1>11 DEF SerialInv

\* ActivatePrevHash leaves the channel on the job's prev-hash; a refresh found it there.
LEMMA ActivateSerial ==
  ASSUME ShapeInv, JobInv, NEW t \in Senders, OthersIdle(t), SerialBy(t), t # "keeper",
         send[t].pc \in {"latest", "prepare"}, ActivatePrevHash(t, send[t].ch, latestTemplate), latestTemplate # None,
         UNCHANGED <<cast, listed, issued, prevOf, latestTemplate, lastJobID, templates, channels, miner, currentJob>>
  PROVE  SerialInv'
<1> DEFINE c == send[t].ch
           h == PrevHash(latestTemplate)
<1>1. /\ Alone(t) /\ send'[t].pc = "job" /\ send'[t].job = latestTemplate
      /\ send'[t].ch = c /\ send'[t].todo = send[t].todo
  BY ActivateEffect
<1>2. c \in Channels
  BY DEF ShapeInv
<1>3. activePrevHash' = [activePrevHash EXCEPT ![c] = h]
  BY DEF ActivatePrevHash
<1>4. send'[t].fresh = (activePrevHash[c] # h)
  BY DEF ActivatePrevHash, ShapeInv, Shape
<1>5. activePrevHash'[c] = h /\ \A d \in Channels \ {c} : activePrevHash'[d] = activePrevHash[d]
  BY <1>2, <1>3 DEF JobInv
<1>6. \A d \in Channels : activePrevHash[d] = miner[d].prev
  BY DEF SerialBy, InHand
<1>7. PrevHash(latestTemplate)' = h /\ PrevHash(send[t].job)' = h
  BY <1>1 DEF PrevHash
<1>13. ~Casting /\ ~Casting' /\ \A g \in Feeders : cast'[g] \in {None, latestTemplate'}
  BY DEF SerialBy, Casting, Idle
<1>8. \A d \in channels' : Settled(d)' \/ Owes(t, d)' \/ (InHand(t)' /\ send'[t].ch = d)
  <2>1. \A d \in channels : Settled(d) => Settled(d)'
    BY <1>7 DEF Settled
  <2>2. \A d \in send[t].todo : t # "reader" => Owes(t, d)'
    BY <1>1 DEF Owes
  <2>3. InHand(t)' /\ send'[t].ch = c
    BY <1>1 DEF InHand
  <2>4. \A d \in channels : Settled(d) \/ d = c \/ (d \in send[t].todo /\ t # "reader")
    BY <1>13 DEF SerialBy, Owes, InHand
  <2> QED
    BY <2>1, <2>2, <2>3, <2>4
<1>9. \A d \in Channels : activePrevHash'[d] = miner'[d].prev \/ (InHand(t)' /\ send'[t].fresh /\ send'[t].ch = d)
  <2>1. InHand(t)'
    BY <1>1 DEF InHand
  <2>2. activePrevHash'[c] = miner'[c].prev \/ send'[t].fresh
    BY <1>2, <1>4, <1>5, <1>6
  <2> QED
    BY <1>1, <1>5, <1>6, <2>1, <2>2
<1>10. /\ activePrevHash'[send'[t].ch] = PrevHash(send[t].job)'
       /\ send'[t].fresh \/ miner'[send'[t].ch].prev = PrevHash(send[t].job)'
  BY <1>1, <1>2, <1>4, <1>5, <1>6, <1>7
<1>11. /\ latestTemplate' # None /\ (Busy(t)' => send'[t].job = latestTemplate')
       /\ listed' \in {"listed", "greeted"} /\ lastJobID' = lastJobID /\ (listed' = "greeted" => lastJobID' = latestTemplate')
       /\ send'[t].pc \notin {"wire", "prevhash"}
  BY <1>1, <1>13 DEF SerialBy, Idle
<1>12. SerialBy(t)'
  BY <1>8, <1>9, <1>10, <1>11, <1>13 DEF SerialBy
<1> QED
  BY <1>1, <1>12, SerialFrom

\* A push begins: t owes the newest template to every channel.
LEMMA StartSerial ==
  ASSUME ShapeInv, ReachInv, JobInv, SerialInv, ~overlapped', NEW j, j # None, NEW g, StartPush(j, g),
         latestTemplate = j, listed' \in {"listed", "greeted"}, ~Casting',
         UNCHANGED <<issued, prevOf, latestTemplate, lastJobID, templates, channels, miner, activePrevHash, currentJob>>
  PROVE  SerialInv'
<1>1. PICK p \in Pushers : /\ Idle(p) /\ Begins(p, g)
                           /\ send' = [send EXCEPT ![p] = [@ EXCEPT !.pc = "start", !.job = j]]
  BY DEF StartPush
<1>2. p \in Senders /\ p # "keeper"
  BY NamesDistinct
<1>3. ~overlapped /\ OthersIdle(p)
  BY <1>1 DEF Begins, OthersAtWork, OthersIdle
<1>4. SerialBy(p)
  BY <1>2, <1>3, Acting
<1>5. Alone(p) /\ send'[p].pc = "start" /\ send'[p].job = j
  <2>1. Alone(p)
    BY <1>1, <1>2 DEF ShapeInv, Alone, Shape
  <2> QED
    BY <1>1, <1>2, <2>1 DEF ShapeInv, Shape
<1>6. \A c \in channels : Owes(p, c)'
  BY <1>5 DEF Owes
<1>7. \A c \in Channels : activePrevHash'[c] = miner'[c].prev
  BY <1>1, <1>4 DEF SerialBy, InHand, Idle
<1>9. \A h \in Feeders : cast'[h] \in {None, latestTemplate'}
  BY DEF Casting
<1>8. SerialBy(p)'
  BY <1>2, <1>5, <1>6, <1>7, <1>9 DEF SerialBy, Busy, InHand
<1> QED
  BY <1>2, <1>3, <1>5, <1>8, SerialFrom

\* t is done with its channel c, which has settled, and goes on or stops.
LEMMA PassSerial ==
  ASSUME ShapeInv, JobInv, NEW t \in Senders, NEW c, c = send[t].ch, OthersIdle(t), SerialBy(t), InHand(t), Alone(t), Passes(t),
         latestTemplate # None, Settled(c)', lastJobID' \in {lastJobID, send[t].job},
         \A d \in Channels \ {c} : miner'[d] = miner[d],
         UNCHANGED <<cast, listed, issued, prevOf, latestTemplate, templates, channels, activePrevHash, currentJob>>
  PROVE  SerialInv'
<1> DEFINE h == PrevHash(latestTemplate)
<1>1. c \in channels /\ c \in Channels /\ channels \subseteq Channels
  BY DEF ShapeInv, InHand
<1>2. Busy(t) /\ send[t].job = latestTemplate /\ send[t].pc # "start"
  BY DEF SerialBy, Busy, InHand
<1>3. PrevHash(latestTemplate)' = h
  BY DEF PrevHash
<1>4. activePrevHash[c] = h /\ miner'[c].prev = h
  BY <1>2, <1>3 DEF SerialBy, Settled
<1>5. \A d \in Channels : activePrevHash'[d] = miner'[d].prev
  BY <1>1, <1>4 DEF SerialBy
<1>6. \A d \in channels : Settled(d) => Settled(d)'
  BY <1>1, <1>3 DEF Settled
<1>11. ~Casting /\ ~Casting' /\ \A g \in Feeders : cast'[g] \in {None, latestTemplate'}
  BY DEF SerialBy, Casting, Idle, InHand
<1>7. \A d \in channels : Settled(d)' \/ (t # "reader" /\ d \in send[t].todo)
  BY <1>6, <1>11 DEF SerialBy, Owes, InHand
<1>8. /\ listed' \in {"listed", "greeted"} /\ (listed' = "greeted" => lastJobID' = latestTemplate')
  BY <1>2, <1>11 DEF SerialBy, Idle, InHand
<1>9. CASE Stops(t)
  <2>1. send[t].todo = {} \/ t = "reader"
    BY <1>9 DEF Passes, GoesTo, Stops, After
  <2>2. SerialBy(t)'
    BY <1>5, <1>7, <1>8, <1>9, <1>11, <2>1 DEF SerialBy, Stops, Busy, InHand
  <2> QED
    BY <2>2, SerialFrom
<1>10. CASE t # "reader" /\ GoesTo(t, send[t].job, send[t].todo, After(t))
  <2>1. PICK d \in send[t].todo : /\ send'[t].pc = After(t) /\ send'[t].job = latestTemplate /\ send'[t].fresh = FALSE
                                  /\ send'[t].ch = d /\ send'[t].todo = send[t].todo \ {d}
    BY <1>2, <1>10 DEF GoesTo
  <2>2. \A e \in channels : Settled(e)' \/ Owes(t, e)'
    BY <1>7, <1>10, <2>1 DEF Owes, After
  <2>3. d \in Channels /\ send[t].todo \subseteq Channels
    BY DEF ShapeInv
  <2>4. t = "keeper" => \A e \in send[t].todo : activePrevHash'[e] = h /\ miner'[e].prev = h
    BY <1>4, <1>5, <2>3 DEF SerialBy
  <2>5. PrevHash(send[t].job)' = h
    BY <2>1 DEF PrevHash
  <2>6. InHand(t)' => t = "keeper" /\ send'[t].pc = "job"
    BY <2>1 DEF InHand, After
  <2>7. send'[t].pc \notin {"start", "wire", "prevhash"}
    BY <2>1 DEF After
  <2>8. InHand(t)' =>
          /\ activePrevHash'[send'[t].ch] = PrevHash(send[t].job)'
          /\ send'[t].fresh \/ miner'[send'[t].ch].prev = PrevHash(send[t].job)'
    BY <2>1, <2>4, <2>5, <2>6
  <2>9. t = "keeper" => \A e \in send'[t].todo :
          latestTemplate' # None /\ activePrevHash'[e] = PrevHash(latestTemplate)' /\ miner'[e].prev = PrevHash(latestTemplate)'
    BY <1>3, <2>1, <2>4
  <2>10. SerialBy(t)'
    BY <1>5, <1>8, <1>11, <2>1, <2>2, <2>7, <2>8, <2>9 DEF SerialBy
  <2> QED
    BY <2>10, SerialFrom
<1> QED
  BY <1>9, <1>10 DEF Passes

CurrentInv == DOMAIN currentJob = Channels

LEMMA NextCurrent == CurrentInv /\ [Next]_vars => CurrentInv'
<1> SUFFICES ASSUME CurrentInv, [Next]_vars PROVE CurrentInv'
  OBVIOUS
<1>1. CASE UNCHANGED currentJob
  BY <1>1 DEF CurrentInv
<1>2. ASSUME NEW t \in Senders, SendJob(t) PROVE CurrentInv'
  BY <1>2 DEF SendJob, SetCurrentJob, CurrentInv
<1>3. CASE Close
  BY <1>3 DEF Close, For, CurrentInv
<1> QED
  BY <1>1, <1>2, <1>3
  DEF Next, Send, NewTemplate, Prime, Cache, Broadcast, HandleConn, Greet, OpenChannel, BuildCoinbase, FirstTemplate,
      Keepalive, UpdateTemplate, Prepare, WriteJob, SendPrevHash, vars, channelVars

LEMMA SendSerial ==
  ASSUME ShapeInv, JobInv, CurrentInv, SerialInv, ~overlapped', NEW t \in Senders, Send(t)
  PROVE  SerialInv'
<1> DEFINE c == send[t].ch
           j == send[t].job
<1>1. /\ Alone(t) /\ Busy(t) /\ ~Idle(t) /\ ~overlapped
      /\ UNCHANGED <<cast, issued, prevOf, latestTemplate, listed, channels>>
  <2>1. Alone(t) /\ UNCHANGED <<prevOf, channels>>
    BY SendEffect
  <2>2. UNCHANGED <<cast, issued, latestTemplate, listed, overlapped>>
    BY DEF Send, UpdateTemplate, Prepare, SendJob, WriteJob, SendPrevHash, feedVars, serverVars
  <2>3. send[t].pc \in {"start", "prepare", "job", "wire", "prevhash"}
    BY DEF Send, UpdateTemplate, Prepare, SendJob, WriteJob, SendPrevHash, At
  <2> QED
    BY <2>1, <2>2, <2>3 DEF Busy, Idle
<1>2. OthersIdle(t) /\ SerialBy(t)
  BY <1>1, Acting
<1>3. j = latestTemplate /\ latestTemplate # None
  BY <1>1, <1>2 DEF SerialBy, JobInv, None
<1>4. /\ listed \in {"listed", "greeted"}
      /\ ~Casting /\ ~Casting' /\ \A g \in Feeders : cast'[g] \in {None, latestTemplate'}
  BY <1>1, <1>2 DEF SerialBy, Casting
<1>5. InHand(t) => c \in channels /\ c \in Channels
  BY DEF ShapeInv, InHand
<1>6. CASE UpdateTemplate(t)
  <2>1. /\ t \in Pushers /\ send[t].pc = "start" /\ lastJobID' = latestTemplate
        /\ NextChannel(t, j, channels, "prepare") /\ UNCHANGED <<miner, activePrevHash, currentJob>>
    BY <1>3, <1>6 DEF UpdateTemplate, At, channelVars, minerVars
  <2>2. t # "keeper" /\ t # "reader"
    BY <2>1, NamesDistinct
  <2>3. \A d \in Channels : activePrevHash'[d] = miner'[d].prev
    BY <1>2, <2>1 DEF SerialBy, InHand
  <2>4. (channels = {} /\ Stops(t)) \/ GoesTo(t, j, channels, "prepare")
    BY <2>1, NextChannelEffect
  <2>5. CASE channels = {} /\ Stops(t)
    <3>1. SerialBy(t)'
      BY <1>1, <1>3, <1>4, <2>1, <2>2, <2>3, <2>5 DEF SerialBy, Stops, Busy, InHand, Idle
    <3> QED
      BY <1>1, <1>2, <3>1, SerialFrom
  <2>6. CASE GoesTo(t, j, channels, "prepare")
    <3>1. PICK d \in channels : send'[t].pc = "prepare" /\ send'[t].job = j /\ send'[t].ch = d /\ send'[t].todo = channels \ {d}
      BY <2>6 DEF GoesTo
    <3>2. \A e \in channels : Owes(t, e)'
      BY <1>1, <1>3, <2>2, <3>1 DEF Owes
    <3>3. SerialBy(t)'
      BY <1>1, <1>3, <1>4, <2>1, <2>2, <2>3, <3>1, <3>2 DEF SerialBy, Busy, InHand, Idle
    <3> QED
      BY <1>1, <1>2, <3>3, SerialFrom
  <2> QED
    BY <2>4, <2>5, <2>6
<1>7. CASE Prepare(t)
  <2>1. /\ t \in Pushers /\ send[t].pc = "prepare" /\ ActivatePrevHash(t, c, latestTemplate)
        /\ UNCHANGED <<lastJobID, templates, miner, currentJob>>
    BY <1>3, <1>7 DEF Prepare, At, sessionVars, minerVars
  <2>2. t # "keeper"
    BY <2>1, NamesDistinct
  <2> QED
    BY <1>1, <1>2, <1>3, <2>1, <2>2, ActivateSerial
<1>8. CASE SendJob(t)
  <2> DEFINE coinb == Coinbase(c, j)
  <2>1. /\ send[t].pc = "job" /\ send' = [send EXCEPT ![t].pc = "wire", ![t].coinb = coinb]
        /\ KeepTemplate(c, j, coinb) /\ UNCHANGED <<lastJobID, activePrevHash, miner>>
        /\ currentJob' = [currentJob EXCEPT ![c] = j]
    BY <1>8 DEF SendJob, SetCurrentJob, At, minerVars
  <2>2. Alone(t) /\ Moves(t, "wire") /\ send'[t].coinb = coinb /\ send'[t].fresh = send[t].fresh
    <3>1. Alone(t) /\ Moves(t, "wire")
      BY <2>1, StepEffect
    <3>2. send'[t].coinb = coinb /\ send'[t].fresh = send[t].fresh
      BY <2>1 DEF ShapeInv, Shape
    <3> QED
      BY <3>1, <3>2
  <2>3. c \in channels /\ c \in Channels
    BY <1>5, <2>1 DEF InHand
  <2>4. /\ <<j, c>> \in DOMAIN templates' /\ templates'[<<j, c>>] = coinb
        /\ \A k \in DOMAIN templates : k # <<j, c>> => k \in DOMAIN templates' /\ templates'[k] = templates[k]
    BY <2>1 DEF KeepTemplate
  <2>5. PrevHash(latestTemplate)' = PrevHash(latestTemplate) /\ PrevHash(send[t].job)' = PrevHash(send[t].job)
    BY <1>1, <2>2 DEF PrevHash, Moves
  <2>15. /\ currentJob'[c] = j /\ \A d \in channels : d # c => currentJob'[d] = currentJob[d]
    BY <2>1, <2>3 DEF ShapeInv, CurrentInv
  <2>6. \A d \in channels : d # c /\ Settled(d) => Settled(d)'
    BY <1>1, <2>1, <2>4, <2>5, <2>15 DEF Settled
  <2>7. \A d \in channels : Owes(t, d) => Owes(t, d)'
    BY <1>1, <2>1, <2>2 DEF Owes, Moves
  <2>8. InHand(t) /\ InHand(t)' /\ send'[t].ch = c /\ send'[t].todo = send[t].todo /\ send'[t].job = j /\ send'[t].pc = "wire"
    BY <2>1, <2>2 DEF InHand, Moves
  <2>9. \A d \in channels' : Settled(d)' \/ Owes(t, d)' \/ (InHand(t)' /\ send'[t].ch = d)
    BY <1>1, <1>2, <1>3, <1>4, <2>6, <2>7, <2>8 DEF SerialBy
  <2>10. /\ \A d \in Channels : activePrevHash'[d] = miner'[d].prev \/ (InHand(t)' /\ send'[t].fresh /\ send'[t].ch = d)
         /\ activePrevHash'[send'[t].ch] = PrevHash(send[t].job)'
         /\ send'[t].fresh \/ miner'[send'[t].ch].prev = PrevHash(send[t].job)'
    BY <1>2, <2>1, <2>2, <2>5, <2>8 DEF SerialBy
  <2>11. /\ LET k == <<send'[t].job, send'[t].ch>> IN k \in DOMAIN templates' /\ templates'[k] = send'[t].coinb
         /\ currentJob'[send'[t].ch] = send'[t].job
    BY <2>2, <2>4, <2>8, <2>15
  <2>12. t = "keeper" => \A d \in send'[t].todo :
          latestTemplate' # None /\ activePrevHash'[d] = PrevHash(latestTemplate)' /\ miner'[d].prev = PrevHash(latestTemplate)'
    BY <1>1, <1>2, <2>1, <2>5, <2>8 DEF SerialBy
  <2>13. (listed' = "greeted" => lastJobID' = latestTemplate') /\ Idle(t)' = FALSE
    BY <1>1, <1>2, <1>4, <2>1, <2>8 DEF SerialBy, Idle
  <2>14. SerialBy(t)'
    BY <1>1, <1>3, <1>4, <2>8, <2>9, <2>10, <2>11, <2>12, <2>13 DEF SerialBy
  <2> QED
    BY <1>1, <1>2, <2>14, SerialFrom
<1>9. CASE WriteJob(t) /\ (send[t].fresh \/ t = "reader")
  <2>1. /\ send[t].pc = "wire" /\ send' = [send EXCEPT ![t].pc = "prevhash"]
        /\ UNCHANGED <<lastJobID, templates, activePrevHash, currentJob>>
        /\ miner' = IF send[t].fresh THEN miner ELSE [miner EXCEPT ![c].job = j, ![c].coinb = send[t].coinb]
    BY <1>9 DEF WriteJob, At, Go, channelVars
  <2>2. Alone(t) /\ Moves(t, "prevhash")
    BY <2>1, StepEffect
  <2>3. send'[t].coinb = send[t].coinb /\ send'[t].fresh = send[t].fresh
    BY <2>1 DEF ShapeInv, Shape
  <2>4. InHand(t) /\ InHand(t)' /\ send'[t].ch = c /\ send'[t].todo = send[t].todo /\ send'[t].job = j /\ send'[t].pc = "prevhash"
    BY <2>1, <2>2 DEF InHand, Moves
  <2>5. PrevHash(latestTemplate)' = PrevHash(latestTemplate) /\ PrevHash(send[t].job)' = PrevHash(send[t].job)
    BY <1>1, <2>4 DEF PrevHash
  <2>13. /\ \A d \in Channels : miner'[d].prev = miner[d].prev
         /\ \A d \in Channels \ {c} : miner'[d] = miner[d]
    BY <1>5, <2>1, <2>4 DEF JobInv
  <2>14. c \in channels /\ channels \subseteq Channels
    BY <1>5, <2>4 DEF ShapeInv
  <2>6. \A d \in channels \ {c} : (Settled(d) => Settled(d)') /\ (Owes(t, d) => Owes(t, d)')
    BY <1>1, <1>3, <2>1, <2>4, <2>5, <2>13, <2>14 DEF Settled, Owes
  <2>7. \A d \in channels' : Settled(d)' \/ Owes(t, d)' \/ (InHand(t)' /\ send'[t].ch = d)
    BY <1>1, <1>2, <1>3, <1>4, <2>4, <2>6 DEF SerialBy
  <2>8. /\ \A d \in Channels : activePrevHash'[d] = miner'[d].prev \/ (InHand(t)' /\ send'[t].fresh /\ send'[t].ch = d)
        /\ activePrevHash'[send'[t].ch] = PrevHash(send[t].job)'
        /\ send'[t].fresh \/ miner'[send'[t].ch].prev = PrevHash(send[t].job)'
    BY <1>2, <1>5, <2>1, <2>3, <2>4, <2>5, <2>13 DEF SerialBy
  <2>9. /\ LET k == <<send'[t].job, send'[t].ch>> IN k \in DOMAIN templates' /\ templates'[k] = send'[t].coinb
        /\ currentJob'[send'[t].ch] = send'[t].job
    BY <1>2, <2>1, <2>3, <2>4 DEF SerialBy
  <2>10. t = "keeper" => \A d \in send'[t].todo :
          latestTemplate' # None /\ activePrevHash'[d] = PrevHash(latestTemplate)' /\ miner'[d].prev = PrevHash(latestTemplate)'
    <3>1. send[t].todo \subseteq Channels
      BY DEF ShapeInv
    <3> QED
      BY <1>1, <1>2, <2>1, <2>4, <2>5, <2>13, <3>1 DEF SerialBy
  <2>11. (listed' = "greeted" => lastJobID' = latestTemplate') /\ Idle(t)' = FALSE
    BY <1>1, <1>2, <1>4, <2>1, <2>4 DEF SerialBy, Idle
  <2>12. SerialBy(t)'
    BY <1>1, <1>3, <1>4, <2>4, <2>7, <2>8, <2>9, <2>10, <2>11 DEF SerialBy
  <2> QED
    BY <1>1, <1>2, <2>12, SerialFrom
\* The last message to a channel.
<1>10. ASSUME SentTo(t), send[t].pc \in {"wire", "prevhash"}, miner'[c].job = j, miner'[c].prev = PrevHash(j),
              miner'[c].coinb = send[t].coinb, \A d \in Channels \ {c} : miner'[d] = miner[d],
              UNCHANGED <<templates, activePrevHash, currentJob>>
       PROVE  SerialInv'
  <2>1. lastJobID' \in {lastJobID, j}
    BY <1>10 DEF SentTo
  <2>2. Alone(t) /\ Passes(t)
    BY <1>10, SentToEffect
  <2>3. PICK e : e = c
    OBVIOUS
  <2>4. Settled(e)'
    <3>1. PrevHash(latestTemplate)' = PrevHash(j)
      BY <1>1, <1>3 DEF PrevHash
    <3>2. <<j, c>> \in DOMAIN templates /\ templates[<<j, c>>] = send[t].coinb /\ currentJob[c] = j
      BY <1>2, <1>10 DEF SerialBy
    <3> QED
      BY <1>1, <1>3, <1>10, <2>3, <3>1, <3>2 DEF Settled
  <2>5. InHand(t)
    BY <1>10 DEF InHand
  <2> QED
    BY <1>1, <1>2, <1>3, <1>10, <2>1, <2>2, <2>3, <2>4, <2>5, PassSerial
<1>11. CASE WriteJob(t) /\ ~send[t].fresh /\ t # "reader"
  <2>1. /\ send[t].pc = "wire" /\ SentTo(t) /\ UNCHANGED <<templates, activePrevHash, currentJob>>
        /\ miner' = [miner EXCEPT ![c].job = j, ![c].coinb = send[t].coinb]
    BY <1>11 DEF WriteJob, At, channelVars
  <2>2. c \in Channels /\ miner[c].prev = PrevHash(j)
    BY <1>2, <1>5, <1>11, <2>1 DEF SerialBy, InHand
  <2>3. /\ miner'[c].job = j /\ miner'[c].prev = PrevHash(j) /\ miner'[c].coinb = send[t].coinb
        /\ \A d \in Channels \ {c} : miner'[d] = miner[d]
    BY <2>1, <2>2 DEF JobInv
  <2> QED
    BY <1>10, <2>1, <2>3
<1>12. CASE SendPrevHash(t)
  <2>1. /\ send[t].pc = "prevhash" /\ SentTo(t) /\ UNCHANGED <<templates, activePrevHash, currentJob>>
        /\ miner' = [miner EXCEPT ![c] = [prev |-> PrevHash(j), job |-> j, coinb |-> send[t].coinb]]
    BY <1>12 DEF SendPrevHash, At, channelVars
  <2>2. c \in Channels
    BY <1>5, <2>1 DEF InHand
  <2>3. /\ miner'[c].job = j /\ miner'[c].prev = PrevHash(j) /\ miner'[c].coinb = send[t].coinb
        /\ \A d \in Channels \ {c} : miner'[d] = miner[d]
    BY <2>1, <2>2 DEF JobInv
  <2> QED
    BY <1>10, <2>1, <2>3
<1> QED
  BY <1>6, <1>7, <1>8, <1>9, <1>11, <1>12 DEF Send

\* Between two sends the channels have the newest template; a sender that begins
\* while no other is at work finds them so.
LEMMA NextSerial == ShapeInv /\ ReachInv /\ JobInv /\ CurrentInv /\ SerialInv /\ [Next]_vars => SerialInv'
<1> SUFFICES ASSUME ShapeInv, ReachInv, JobInv, CurrentInv, SerialInv, [Next]_vars, ~overlapped' PROVE SerialInv'
  BY DEF SerialInv
<1>1. CASE UNCHANGED vars
  <2>1. UNCHANGED <<overlapped, send, cast, latestTemplate, lastJobID, templates, channels, miner, activePrevHash, currentJob, listed, issued, prevOf>>
    BY <1>1 DEF vars, feedVars, serverVars, sessionVars, channelVars, minerVars
  <2>2. \A j \in 1..Len(issued) : PrevHash(j)' = PrevHash(j)
    BY <2>1 DEF PrevHash
  <2> QED
    BY <2>1, <2>2, SerialStays
<1>2. ASSUME NEW g \in Feeders, NewTemplate(g) \/ Prime(g) PROVE SerialInv'
  <2>1. UNCHANGED <<overlapped, send, cast, latestTemplate, lastJobID, templates, channels, miner, activePrevHash, currentJob, listed>>
    BY <1>2 DEF NewTemplate, Prime, sessionVars, channelVars, minerVars
  <2> QED
    BY <1>2, <2>1, NumbersKept, SerialStays
<1>10. ASSUME NEW g \in Feeders, Cache(g) PROVE SerialInv'
  <2>1. /\ feed[g] # None /\ latestTemplate' = feed[g] /\ cast' = [cast EXCEPT ![g] = feed[g]]
        /\ ~overlapped /\ OthersCast(g) = {} /\ \A t \in Senders : Idle(t)
        /\ UNCHANGED <<prevOf, issued, send, listed, lastJobID, templates, channels, miner, activePrevHash, currentJob>>
    BY <1>10 DEF Cache, sessionVars, channelVars, minerVars
  <2>2. PICK t \in Senders : SerialBy(t)
    BY <2>1 DEF SerialInv
  <2>3. Casting' /\ \A h \in Feeders : cast'[h] \in {None, latestTemplate'}
    BY <2>1 DEF Casting, OthersCast, JobInv
  <2>4. Idle(t) /\ send[t].todo = {}
    BY <2>1 DEF JobInv
  <2>5. \A d \in Channels : activePrevHash'[d] = miner'[d].prev
    BY <2>1, <2>2, <2>4 DEF SerialBy, InHand, Idle
  <2>6. SerialBy(t)'
    BY <2>1, <2>3, <2>4, <2>5 DEF SerialBy, Idle, Busy, InHand
  <2>7. OthersIdle(t)'
    BY <2>1 DEF OthersIdle, Idle
  <2> QED
    BY <2>6, <2>7 DEF SerialInv
<1>3. ASSUME NEW g \in Feeders, Broadcast(g) PROVE SerialInv'
  <2>1. /\ cast[g] # None /\ cast' = [cast EXCEPT ![g] = None] /\ listed # "closed"
        /\ UNCHANGED <<prevOf, issued, listed, latestTemplate, lastJobID, templates, channels, miner, activePrevHash, currentJob>>
    BY <1>3 DEF Broadcast, serverVars, sessionVars, channelVars, minerVars
  <2>2. CASE listed \in {"listed", "greeted"}
    <3>1. StartPush(cast[g], g)
      BY <1>3, <2>2 DEF Broadcast
    <3>2. ~overlapped /\ OthersCast(g) = {}
      BY <3>1 DEF StartPush, Begins
    <3>3. cast[g] = latestTemplate
      BY <2>1, <3>2 DEF SerialInv, SerialBy
    <3>4. ~Casting'
      BY <2>1, <3>2 DEF Casting, OthersCast, JobInv
    <3> QED
      BY <2>1, <2>2, <3>1, <3>3, <3>4, StartSerial
  <2>3. CASE listed \notin {"listed", "greeted"}
    <3>1. UNCHANGED <<send, overlapped>>
      BY <1>3, <2>3 DEF Broadcast
    <3>2. PICK t \in Senders : OthersIdle(t) /\ SerialBy(t)
      BY <3>1 DEF SerialInv
    <3>3. Idle(t) /\ send[t].todo = {} /\ channels = {}
      BY <2>3, <3>2 DEF SerialBy, JobInv, ReachInv
    <3>4. \A d \in Channels : activePrevHash'[d] = miner'[d].prev
      BY <2>1, <3>2, <3>3 DEF SerialBy, InHand, Idle
    <3>7. \A h \in Feeders : cast'[h] \in {None, latestTemplate'}
      BY <2>1, <3>2 DEF SerialBy, JobInv
    <3>5. SerialBy(t)'
      BY <2>1, <2>3, <3>1, <3>2, <3>3, <3>4, <3>7 DEF SerialBy, Idle, Busy, InHand
    <3>6. OthersIdle(t)'
      BY <3>1, <3>2 DEF OthersIdle, Idle
    <3> QED
      BY <3>5, <3>6 DEF SerialInv
  <2> QED
    BY <2>2, <2>3
<1>4. CASE HandleConn \/ Greet
  <2>1. UNCHANGED <<cast, latestTemplate, lastJobID, templates, channels, miner, activePrevHash, currentJob, issued, prevOf>>
    BY <1>4 DEF HandleConn, Greet, feedVars, sessionVars, channelVars, minerVars
  <2>2. CASE UNCHANGED <<send, overlapped>> /\ (HandleConn \/ latestTemplate = None)
    <3>1. \A j \in 1..Len(issued) : PrevHash(j)' = PrevHash(j)
      BY <2>1 DEF PrevHash
    <3>2. \/ listed = "new" /\ listed' = "listed"
          \/ listed = "listed" /\ listed' = "greeted" /\ latestTemplate = None
      BY <1>4, <2>2 DEF HandleConn, Greet
    <3> QED
      BY <2>1, <2>2, <3>1, <3>2, SerialStays
  <2>3. CASE Greet /\ latestTemplate # None
    <3>1. StartPush(latestTemplate, None) /\ listed' = "greeted"
      BY <2>3 DEF Greet
    <3>2. OthersCast(None) = {}
      BY <3>1 DEF StartPush, Begins
    <3>3. ~Casting'
      BY <2>1, <3>2, SV2Assumption DEF Casting, OthersCast, None
    <3> QED
      BY <2>1, <2>3, <3>1, <3>3, StartSerial
  <2> QED
    BY <1>4, <2>2, <2>3 DEF HandleConn, Greet
<1>5. ASSUME NEW c \in Channels, OpenChannel(c) PROVE SerialInv'
  <2>1. /\ NextChannel("reader", None, {c}, "coinbase") /\ Begins("reader", None) /\ Idle("reader") /\ listed = "greeted"
        /\ channels' = channels \cup {c}
        /\ UNCHANGED <<cast, prevOf, issued, listed, latestTemplate, lastJobID, templates, miner, activePrevHash, currentJob>>
    BY <1>5 DEF OpenChannel, feedVars, serverVars, channelVars, minerVars
  <2>2. ~overlapped /\ OthersIdle("reader")
    BY <2>1 DEF Begins, OthersAtWork, OthersIdle
  <2>11. ~Casting /\ ~Casting'
    BY <2>1, SV2Assumption DEF Begins, OthersCast, Casting, None
  <2>3. SerialBy("reader")
    BY <2>2, NamesDistinct, Acting
  <2>4. Alone("reader") /\ GoesTo("reader", None, {c}, "coinbase")
    BY <2>1, NextChannelEffect, NamesDistinct
  <2>5. send'["reader"].pc = "coinbase" /\ send'["reader"].ch = c /\ send'["reader"].todo = {}
    BY <2>4 DEF GoesTo
  <2>6. \A d \in channels : latestTemplate # None => Settled(d)
    BY <2>1, <2>3, <2>11 DEF SerialBy, Idle, InHand, Owes
  <2>7. PrevHash(latestTemplate)' = PrevHash(latestTemplate)
    BY <2>1 DEF PrevHash
  <2>8. latestTemplate' # None => \A d \in channels' : Settled(d)' \/ Owes("reader", d)'
    BY <2>1, <2>5, <2>6, <2>7 DEF Settled, Owes
  <2>9. \A d \in Channels : activePrevHash'[d] = miner'[d].prev
    BY <2>1, <2>3 DEF SerialBy, Idle, InHand
  <2>10. SerialBy("reader")'
    BY <2>1, <2>3, <2>5, <2>8, <2>9, <2>11 DEF SerialBy, Idle, InHand, Busy
  <2> QED
    BY <2>2, <2>4, <2>10, NamesDistinct, SerialFrom
<1>6. CASE Keepalive
  <2> DEFINE refreshed == {c \in channels : <<lastJobID, c>> \in DOMAIN templates}
  <2>1. /\ NextChannel("keeper", lastJobID, refreshed, "job") /\ refreshed # {}
        /\ Begins("keeper", None) /\ Idle("keeper") /\ listed = "greeted"
        /\ UNCHANGED <<cast, prevOf, issued, listed, latestTemplate, lastJobID, templates, channels, miner, activePrevHash, currentJob>>
    BY <1>6 DEF Keepalive, feedVars, serverVars, sessionVars, channelVars, minerVars
  <2>2. ~overlapped /\ OthersIdle("keeper")
    BY <2>1 DEF Begins, OthersAtWork, OthersIdle
  <2>15. ~Casting /\ ~Casting' /\ \A g \in Feeders : cast'[g] \in {None, latestTemplate'}
    BY <2>1, SV2Assumption DEF Begins, OthersCast, Casting, None
  <2>3. SerialBy("keeper")
    BY <2>2, NamesDistinct, Acting
  <2>4. lastJobID = latestTemplate /\ latestTemplate # None
    <3>1. lastJobID \in 1..Len(issued)
      BY <2>1 DEF JobInv
    <3> QED
      BY <2>1, <2>3, <2>15, <3>1 DEF SerialBy, Idle, None
  <2>5. \A d \in channels : Settled(d)
    BY <2>1, <2>3, <2>4, <2>15 DEF SerialBy, Idle, InHand, Owes
  <2>6. \A d \in Channels : activePrevHash'[d] = miner'[d].prev
    BY <2>1, <2>3 DEF SerialBy, Idle, InHand
  <2>7. PrevHash(latestTemplate)' = PrevHash(latestTemplate)
    BY <2>1 DEF PrevHash
  <2>8. \A d \in channels : Settled(d)' /\ activePrevHash'[d] = PrevHash(latestTemplate) /\ miner'[d].prev = PrevHash(latestTemplate)
    BY <2>1, <2>5, <2>6, <2>7 DEF Settled, ShapeInv
  <2>9. Alone("keeper") /\ GoesTo("keeper", lastJobID, refreshed, "job")
    BY <2>1, NextChannelEffect, NamesDistinct
  <2>10. PICK c \in refreshed : /\ send'["keeper"].pc = "job" /\ send'["keeper"].job = latestTemplate
                                /\ send'["keeper"].ch = c /\ send'["keeper"].todo = refreshed \ {c}
    BY <2>4, <2>9 DEF GoesTo
  <2>11. send'["keeper"].todo \subseteq channels /\ c \in channels
    BY <2>10
  <2>12. PrevHash(send["keeper"].job)' = PrevHash(latestTemplate)
    BY <2>1, <2>10 DEF PrevHash
  <2>13. /\ activePrevHash'[send'["keeper"].ch] = PrevHash(send["keeper"].job)'
         /\ miner'[send'["keeper"].ch].prev = PrevHash(send["keeper"].job)'
    BY <2>8, <2>10, <2>11, <2>12
  <2>14. SerialBy("keeper")'
    BY <2>1, <2>4, <2>6, <2>7, <2>8, <2>10, <2>11, <2>13, <2>15 DEF SerialBy, Idle
  <2> QED
    BY <2>2, <2>9, <2>14, NamesDistinct, SerialFrom
<1>7. CASE FirstTemplate
  <2>1. /\ send["reader"].pc = "latest"
        /\ UNCHANGED <<overlapped, cast, prevOf, issued, listed, latestTemplate, lastJobID, templates, channels, miner, currentJob>>
    BY <1>7 DEF FirstTemplate, At, feedVars, serverVars, sessionVars, minerVars
  <2>2. OthersIdle("reader") /\ SerialBy("reader")
    BY <2>1, NamesDistinct, Acting DEF Idle
  <2>3. CASE latestTemplate = None
    <3>1. Alone("reader") /\ Stops("reader") /\ UNCHANGED activePrevHash
      BY <1>7, <2>3, StopEffect, NamesDistinct DEF FirstTemplate
    <3>2. \A d \in Channels : activePrevHash'[d] = miner'[d].prev
      BY <2>1, <2>2, <3>1 DEF SerialBy, InHand
    <3>4. ~Casting'
      BY <2>1, <2>2 DEF SerialBy, Idle, Casting
    <3>3. SerialBy("reader")'
      BY <2>1, <2>2, <2>3, <3>1, <3>2, <3>4 DEF SerialBy, Stops, Busy, InHand, Idle, Casting
    <3> QED
      BY <2>2, <3>1, <3>3, NamesDistinct, SerialFrom
  <2>4. CASE latestTemplate # None
    <3>1. ActivatePrevHash("reader", send["reader"].ch, latestTemplate)
      BY <1>7, <2>4 DEF FirstTemplate
    <3> QED
      BY <2>1, <2>2, <2>4, <3>1, NamesDistinct, ActivateSerial
  <2> QED
    BY <2>3, <2>4
<1>11. CASE BuildCoinbase
  <2>1. /\ send["reader"].pc = "coinbase" /\ send' = [send EXCEPT !["reader"].pc = "latest"]
        /\ UNCHANGED <<overlapped, cast, prevOf, issued, listed, latestTemplate, lastJobID, templates, channels, miner, activePrevHash, currentJob>>
    BY <1>11 DEF BuildCoinbase, At, Go, feedVars, serverVars, sessionVars, minerVars
  <2>2. OthersIdle("reader") /\ SerialBy("reader")
    BY <2>1, NamesDistinct, Acting DEF Idle
  <2>3. Alone("reader") /\ Moves("reader", "latest")
    BY <2>1, NamesDistinct, StepEffect
  <2>4. ~Casting' /\ \A g \in Feeders : cast'[g] \in {None, latestTemplate'}
    BY <2>1, <2>2 DEF SerialBy, Idle, Casting
  <2>5. \A d \in Channels : activePrevHash'[d] = miner'[d].prev
    BY <2>1, <2>2 DEF SerialBy, InHand
  <2>6. latestTemplate # None => \A d \in channels : Settled(d) \/ Owes("reader", d)
    BY <2>1, <2>2 DEF SerialBy, InHand, Idle, Casting
  <2>7. \A d \in channels : /\ Settled(d) => Settled(d)'
                            /\ Owes("reader", d) => Owes("reader", d)'
    BY <2>1, <2>3 DEF Settled, PrevHash, Owes, Moves
  <2>8. SerialBy("reader")'
    BY <2>1, <2>2, <2>3, <2>4, <2>5, <2>6, <2>7, NamesDistinct DEF SerialBy, Moves, Idle, Busy, InHand, Casting
  <2> QED
    BY <2>2, <2>3, <2>8, NamesDistinct, SerialFrom
<1>8. CASE Close
  <2>1. /\ listed' = "closed" /\ channels' = {} /\ lastJobID' = None /\ miner' = For(NotMining)
        /\ activePrevHash' = For(None) /\ send' = [t \in Senders |-> IdleSend]
        /\ UNCHANGED <<overlapped, cast, latestTemplate>>
    BY <1>8 DEF Close, feedVars
  <2>5. \A g \in Feeders : cast'[g] \in {None, latestTemplate'}
    BY <2>1 DEF SerialInv, SerialBy
  <2>2. \A t \in Senders : Idle(t)' /\ send'[t].todo = {}
    BY <2>1 DEF Idle, IdleSend
  <2>3. \A d \in Channels : activePrevHash'[d] = miner'[d].prev /\ miner'[d].job = None
    BY <2>1 DEF For, NotMining
  <2>4. SerialBy("reader")'
    BY <2>1, <2>2, <2>3, <2>5, NamesDistinct DEF SerialBy, Idle, Busy, InHand
  <2> QED
    BY <2>2, <2>4, NamesDistinct DEF SerialInv, OthersIdle
<1>9. ASSUME NEW t \in Senders, Send(t) PROVE SerialInv'
  BY <1>9, SendSerial
<1> QED
  BY <1>1, <1>2, <1>3, <1>4, <1>5, <1>6, <1>7, <1>8, <1>9, <1>10, <1>11 DEF Next

\* As long as no two of the senders and the broadcasts are at work at a time, a miner that
\* has all its messages works on the newest template, on its prev-hash, the channel takes
\* its shares as current, and they are judged by the coinbase it was given, whichever
\* sender it has each job from.
THEOREM SerialCorrect == Spec => []SerialSendersAgree
<1>1. Init => ShapeInv /\ ReachInv /\ JobInv /\ CurrentInv /\ SerialInv
  <2> SUFFICES ASSUME Init PROVE ShapeInv /\ ReachInv /\ JobInv /\ SerialInv
    BY DEF Init, For, CurrentInv
  <2>1. ShapeInv /\ ReachInv
    BY InitShape DEF Init, For, ReachInv
  <2>2. \A t \in Senders : send[t] = IdleSend
    BY DEF Init
  <2>3. \A c \in Channels : miner[c] = NotMining /\ activePrevHash[c] = None
    BY DEF Init, For
  <2>4. JobInv
    BY <2>2, <2>3 DEF Init, For, NotMining, IdleSend, None, Busy, Idle, JobInv
  <2>7. ~Casting /\ \A g \in Feeders : cast[g] = None
    BY DEF Init, Casting
  <2>5. SerialBy("reader")
    BY <2>2, <2>3, <2>7, NamesDistinct DEF Init, IdleSend, NotMining, SerialBy, Idle, Busy, InHand
  <2>6. OthersIdle("reader")
    BY <2>2 DEF OthersIdle, Idle, IdleSend
  <2> QED
    BY <2>1, <2>4, <2>5, <2>6, NamesDistinct DEF SerialInv
<1>2. ShapeInv /\ JobInv /\ SerialInv => SerialSendersAgree
  <2> SUFFICES ASSUME JobInv, SerialInv, Quiet, ~overlapped, NEW c \in channels, miner[c].job # None, ShapeInv
               PROVE  Settled(c)
    BY DEF SerialSendersAgree, Settled
  <2>1. PICK t \in Senders : SerialBy(t)
    BY DEF SerialInv
  <2>2. Idle(t)
    BY DEF Quiet
  <2> QED
    BY <2>1, <2>2 DEF SerialBy, Idle, InHand, Owes, ShapeInv, Casting, Quiet, Free
<1> QED
  BY <1>1, <1>2, NextShape, NextReach, NextJobs, NextCurrent, NextSerial, PTL DEF Spec

-----------------------------------------------------------------------------
(* Types *)

Numbers == 1..Len(issued)

\* What TypeOK says beyond JobInv, with the domains of the channels' fields.
TypeInv ==
  /\ prevOf \in Seq(1..MaxTips)
  /\ listed \in {"new", "listed", "greeted", "closed"} /\ overlapped \in BOOLEAN /\ ticks \in 0..MaxKeepalives
  /\ DOMAIN templates \subseteq Numbers \X Channels
  /\ currentJob \in [Channels -> {None} \cup Numbers]
  /\ staleJobs \in [Channels -> Seq({None} \cup Numbers)]
  /\ \A c \in Channels : Len(staleJobs[c]) <= MaxStaleJobs
  /\ activePrevHash \in [Channels -> 0..MaxTips]
  /\ sent \in [Channels -> SUBSET Numbers]

LEMMA MinOfTwo ==
  ASSUME NEW m \in Nat, NEW n \in Nat PROVE Min({m, n}) \in {m, n} /\ Min({m, n}) <= m /\ Min({m, n}) <= n
<1>1. \E x \in {m, n} : \A y \in {m, n} : x <= y
  BY m <= n \/ n <= m
<1> QED
  BY <1>1 DEF Min

\* The stale list never outgrows its ring.
LEMMA StaleJobsFit ==
  ASSUME TypeInv, NEW c \in Channels, NEW j \in Numbers, SetCurrentJob(c, j)
  PROVE  /\ currentJob' \in [Channels -> {None} \cup Numbers]
         /\ staleJobs' \in [Channels -> Seq({None} \cup Numbers)]
         /\ \A d \in Channels : Len(staleJobs'[d]) <= MaxStaleJobs
<1> DEFINE longer == <<currentJob[c]>> \o staleJobs[c]
           n == Min({Len(staleJobs[c]) + 1, MaxStaleJobs})
<1>1. longer \in Seq({None} \cup Numbers) /\ Len(longer) = Len(staleJobs[c]) + 1 /\ Len(staleJobs[c]) \in Nat
  BY DEF TypeInv
<1>2. n \in Nat /\ n <= Len(longer) /\ n <= MaxStaleJobs
  BY <1>1, MinOfTwo, SV2Assumption
<1>3. SubSeq(longer, 1, n) \in Seq({None} \cup Numbers) /\ Len(SubSeq(longer, 1, n)) = n
  <2>1. \A i \in 1..n : longer[i] \in {None} \cup Numbers
    <3>1. \A i \in 1..n : i \in 1..Len(longer)
      BY <1>1, <1>2
    <3> QED
      BY <1>1, <3>1, ElementOfSeq
  <2>2. n = IF 1 <= n THEN n - 1 + 1 ELSE 0
    BY <1>2
  <2> HIDE DEF longer, n
  <2>3. 1 \in Int /\ n \in Int /\ n = n - 1 + 1
    BY <1>2
  <2> QED
    BY <2>1, <2>2, <2>3, SubSeqProperties
<1>4. staleJobs' = [staleJobs EXCEPT ![c] = SubSeq(longer, 1, n)] /\ currentJob' = [currentJob EXCEPT ![c] = j]
  BY DEF SetCurrentJob
<1> QED
  BY <1>2, <1>3, <1>4 DEF TypeInv

\* Each template is of a block the job manager knew.
LEMMA PrevHashKnown ==
  ASSUME TypeInv, JobInv, NEW j \in Numbers PROVE PrevHash(j) \in 0..MaxTips
<1>1. issued[j] \in 1..Len(prevOf)
  BY DEF JobInv, Numbers
<1>2. \A i \in 1..Len(prevOf) : prevOf[i] \in 1..MaxTips
  BY ElementOfSeq DEF TypeInv
<1> QED
  BY <1>1, <1>2, SV2Assumption DEF PrevHash

LEMMA NumberAdded ==
  ASSUME ShapeInv, JobInv, TypeInv, NEW g \in Feeders, NewTemplate(g) \/ Prime(g)
  PROVE  TypeInv'
<1>1. UNCHANGED <<listed, overlapped, ticks, templates, currentJob, staleJobs, activePrevHash, sent>>
  BY DEF NewTemplate, Prime, sessionVars, channelVars, minerVars
<1>2. Numbers \subseteq Numbers'
  BY NumbersKept DEF Numbers, JobInv
<1>3. prevOf' \in Seq(1..MaxTips)
  <2>1. CASE NewTemplate(g)
    <3>1. PICK prev \in {Last(prevOf), Last(prevOf) + 1} : prev <= MaxTips /\ prevOf' = Append(prevOf, prev)
      BY <2>1 DEF NewTemplate
    <3>2. Last(prevOf) \in 1..MaxTips
      <4>1. prevOf \in Seq(1..MaxTips) /\ Len(prevOf) \in 1..Len(prevOf)
        BY DEF TypeInv, ShapeInv
      <4> QED
        BY <4>1, ElementOfSeq DEF Last
    <3>3. prev \in 1..MaxTips
      BY <3>1, <3>2, SV2Assumption
    <3> QED
      BY <3>1, <3>3 DEF TypeInv
  <2> QED
    BY <2>1 DEF Prime, TypeInv
<1>4. Seq({None} \cup Numbers) \subseteq Seq({None} \cup Numbers')
  BY <1>2
<1>5. /\ currentJob' \in [Channels -> {None} \cup Numbers'] /\ staleJobs' \in [Channels -> Seq({None} \cup Numbers')]
      /\ sent' \in [Channels -> SUBSET (Numbers')] /\ DOMAIN templates' \subseteq Numbers' \X Channels
  BY <1>1, <1>2, <1>4 DEF TypeInv
<1> QED
  BY <1>1, <1>3, <1>5 DEF TypeInv

LEMMA NextTypes == ShapeInv /\ JobInv /\ TypeInv /\ [Next]_vars => TypeInv'
<1> SUFFICES ASSUME ShapeInv, JobInv, TypeInv, [Next]_vars PROVE TypeInv'
  OBVIOUS
<1>1. CASE UNCHANGED vars
  BY <1>1 DEF vars, feedVars, serverVars, sessionVars, channelVars, minerVars, TypeInv, Numbers
<1>2. ASSUME NEW g \in Feeders, NewTemplate(g) \/ Prime(g) PROVE TypeInv'
  BY <1>2, NumberAdded
<1>3. ASSUME overlapped' \in BOOLEAN, ticks' \in 0..MaxKeepalives, listed' \in {"new", "listed", "greeted", "closed"},
             UNCHANGED <<prevOf, issued, templates, currentJob, staleJobs, activePrevHash, sent>>
      PROVE  TypeInv'
  BY <1>3 DEF TypeInv, Numbers
<1>4. ASSUME NEW t \in Senders, NEW g, Begins(t, g) PROVE overlapped' \in BOOLEAN
  BY <1>4 DEF Begins, TypeInv
<1>5. ASSUME NEW j, NEW g, StartPush(j, g) PROVE overlapped' \in BOOLEAN
  BY <1>4, <1>5, NamesDistinct DEF StartPush
<1>6. ASSUME NEW g \in Feeders, Broadcast(g) PROVE TypeInv'
  BY <1>3, <1>5, <1>6 DEF Broadcast, TypeInv, serverVars, sessionVars, channelVars, minerVars
<1>14. ASSUME NEW g \in Feeders, Cache(g) PROVE TypeInv'
  BY <1>3, <1>14 DEF Cache, TypeInv, sessionVars, channelVars, minerVars
<1>7. CASE HandleConn \/ Greet
  BY <1>3, <1>5, <1>7 DEF HandleConn, Greet, TypeInv, feedVars, sessionVars, channelVars, minerVars
<1>8. ASSUME NEW c \in Channels, OpenChannel(c) PROVE TypeInv'
  BY <1>3, <1>4, <1>8, NamesDistinct DEF OpenChannel, TypeInv, feedVars, serverVars, channelVars, minerVars
<1>15. CASE BuildCoinbase
  BY <1>3, <1>15 DEF BuildCoinbase, TypeInv, feedVars, serverVars, sessionVars, minerVars
<1>9. CASE Keepalive
  <2>1. ticks' \in 0..MaxKeepalives
    BY <1>9, SV2Assumption DEF Keepalive, TypeInv
  <2> QED
    BY <1>3, <1>4, <1>9, <2>1, NamesDistinct DEF Keepalive, TypeInv, feedVars, serverVars, sessionVars, channelVars, minerVars
\* A sender or the reader gives the channel the prev-hash of a numbered template.
<1>10. ASSUME NEW t \in Senders, NEW c, NEW j \in Numbers, ActivatePrevHash(t, c, j),
              UNCHANGED <<listed, overlapped, ticks, prevOf, issued, templates, currentJob, staleJobs, sent>>
       PROVE  TypeInv'
  <2>1. activePrevHash' \in [Channels -> 0..MaxTips]
    BY <1>10, PrevHashKnown DEF ActivatePrevHash, TypeInv
  <2> QED
    BY <1>10, <2>1 DEF TypeInv, Numbers
<1>11. CASE FirstTemplate
  <2>1. UNCHANGED <<listed, overlapped, ticks, prevOf, issued, templates, currentJob, staleJobs, sent>>
    BY <1>11 DEF FirstTemplate, feedVars, serverVars, sessionVars, minerVars
  <2>2. CASE latestTemplate = None
    BY <1>3, <1>11, <2>1, <2>2 DEF FirstTemplate, TypeInv
  <2>3. CASE latestTemplate # None
    <3>1. latestTemplate \in Numbers
      BY <2>3 DEF JobInv, Numbers, None
    <3>2. ActivatePrevHash("reader", send["reader"].ch, latestTemplate)
      BY <1>11, <2>3 DEF FirstTemplate
    <3> QED
      BY <1>10, <2>1, <3>1, <3>2, NamesDistinct
  <2> QED
    BY <2>2, <2>3
<1>12. CASE Close
  <2>1. <<>> \in Seq({None} \cup Numbers) /\ Len(<<>>) <= MaxStaleJobs
    BY SV2Assumption
  <2>2. /\ listed' = "closed" /\ UNCHANGED <<prevOf, issued, overlapped, ticks>> /\ templates' = <<>>
        /\ currentJob' = For(None) /\ staleJobs' = For(<<>>) /\ activePrevHash' = For(None) /\ sent' = For({})
    BY <1>12 DEF Close, feedVars
  <2>3. /\ currentJob' \in [Channels -> {None} \cup Numbers] /\ staleJobs' \in [Channels -> Seq({None} \cup Numbers)]
        /\ activePrevHash' \in [Channels -> 0..MaxTips] /\ sent' \in [Channels -> SUBSET Numbers]
        /\ \A c \in Channels : Len(staleJobs'[c]) <= MaxStaleJobs
    BY <2>1, <2>2, SV2Assumption DEF For, None
  <2>4. Numbers' = Numbers /\ DOMAIN templates' = {}
    BY <2>2 DEF Numbers
  <2> QED
    BY <2>2, <2>3, <2>4 DEF TypeInv
<1>13. ASSUME NEW t \in Senders, Send(t) PROVE TypeInv'
  <2> DEFINE c == send[t].ch
             j == send[t].job
  <2>1. j \in Numbers
    BY <1>13 DEF Send, UpdateTemplate, Prepare, SendJob, WriteJob, SendPrevHash, At, Busy, JobInv, Numbers
  <2>2. send[t].pc # "start" => c \in Channels
    BY <1>13 DEF Send, UpdateTemplate, Prepare, SendJob, WriteJob, SendPrevHash, At, ShapeInv
  <2>3. CASE UpdateTemplate(t)
    <3>1. /\ UNCHANGED <<listed, overlapped, ticks, prevOf, issued, currentJob, staleJobs, activePrevHash, sent>>
          /\ DOMAIN templates' \subseteq DOMAIN templates
      BY <2>3 DEF UpdateTemplate, ForgetOldest, feedVars, serverVars, channelVars, minerVars
    <3> QED
      BY <3>1 DEF TypeInv, Numbers
  <2>4. CASE Prepare(t)
    BY <1>10, <2>1, <2>4 DEF Prepare, feedVars, serverVars, sessionVars, minerVars
  <2>5. CASE SendJob(t)
    <3>1. /\ c \in Channels /\ SetCurrentJob(c, j) /\ DOMAIN templates' = DOMAIN templates \cup {<<j, c>>}
          /\ UNCHANGED <<listed, overlapped, ticks, prevOf, issued, activePrevHash, sent>>
      BY <2>2, <2>5 DEF SendJob, At, KeepTemplate, feedVars, serverVars, minerVars
    <3>2. /\ currentJob' \in [Channels -> {None} \cup Numbers]
          /\ staleJobs' \in [Channels -> Seq({None} \cup Numbers)]
          /\ \A d \in Channels : Len(staleJobs'[d]) <= MaxStaleJobs
      BY <2>1, <3>1, StaleJobsFit
    <3>3. Numbers' = Numbers /\ DOMAIN templates' \subseteq Numbers \X Channels
      BY <2>1, <3>1 DEF TypeInv, Numbers
    <3> QED
      BY <3>1, <3>2, <3>3 DEF TypeInv
  <2>6. CASE WriteJob(t)
    <3>1. /\ UNCHANGED <<listed, overlapped, ticks, prevOf, issued, templates, currentJob, staleJobs, activePrevHash>>
          /\ sent' = [sent EXCEPT ![c] = @ \cup {j}]
      BY <2>6 DEF WriteJob, feedVars, serverVars, channelVars
    <3>2. sent' \in [Channels -> SUBSET Numbers]
      BY <2>1, <3>1 DEF TypeInv
    <3> QED
      BY <3>1, <3>2 DEF TypeInv, Numbers
  <2>7. CASE SendPrevHash(t)
    BY <1>3, <2>7 DEF SendPrevHash, TypeInv, feedVars, serverVars, channelVars
  <2> QED
    BY <1>13, <2>3, <2>4, <2>5, <2>6, <2>7 DEF Send
<1> QED
  BY <1>1, <1>2, <1>6, <1>7, <1>8, <1>9, <1>11, <1>12, <1>13, <1>14, <1>15 DEF Next

\* Jobs keep to the numbers given, prev-hashes to the blocks seen, and no channel's list of
\* stale jobs outgrows its ring, however many senders are at work.
THEOREM TypeCorrect == Spec => []TypeOK
<1>1. Init => ShapeInv /\ JobInv /\ TypeInv
  <2> SUFFICES ASSUME Init PROVE ShapeInv /\ JobInv /\ TypeInv
    OBVIOUS
  <2>1. ShapeInv /\ JobInv
    BY InitShape DEF Init, For, NotMining, IdleSend, None, Busy, Idle, JobInv
  <2>2. <<>> \in Seq({None} \cup Numbers) /\ Len(<<>>) <= MaxStaleJobs /\ <<1>> \in Seq(1..MaxTips)
    BY SV2Assumption
  <2>3. /\ currentJob \in [Channels -> {None} \cup Numbers] /\ staleJobs \in [Channels -> Seq({None} \cup Numbers)]
        /\ activePrevHash \in [Channels -> 0..MaxTips] /\ sent \in [Channels -> SUBSET Numbers]
        /\ \A c \in Channels : Len(staleJobs[c]) <= MaxStaleJobs
    BY <2>2, SV2Assumption DEF Init, For, None
  <2>4. DOMAIN templates = {} /\ listed = "new" /\ overlapped = FALSE /\ ticks \in 0..MaxKeepalives
    BY SV2Assumption DEF Init
  <2>5. TypeInv
    BY <2>2, <2>3, <2>4 DEF Init, TypeInv
  <2> QED
    BY <2>1, <2>5
<1>2. ShapeInv /\ JobInv /\ TypeInv => TypeOK
  <2> SUFFICES ASSUME ShapeInv, JobInv, TypeInv PROVE TypeOK
    OBVIOUS
  <2>1. DOMAIN issued = Numbers /\ DOMAIN prevOf = 1..Len(prevOf) /\ Len(issued) \in Nat
    BY DEF JobInv, TypeInv, Numbers
  <2>2. \A j \in DOMAIN issued : issued[j] \in DOMAIN prevOf
    BY <2>1 DEF JobInv, Numbers
  <2>3. {None} \cup Numbers \subseteq 0..Len(issued)
    BY <2>1 DEF Numbers, None
  <2>4. \A c \in Channels : /\ currentJob[c] \in 0..Len(issued) /\ Len(staleJobs[c]) <= MaxStaleJobs
                            /\ activePrevHash[c] \in 0..MaxTips /\ sent[c] \subseteq DOMAIN issued
    BY <2>1, <2>3 DEF TypeInv
  <2> QED
    BY <2>1, <2>2, <2>4 DEF ShapeInv, JobInv, TypeInv, TypeOK
<1> QED
  BY <1>1, <1>2, NextShape, NextJobs, NextTypes, PTL DEF Spec

-----------------------------------------------------------------------------
(* The templates of the newest jobs *)

Recent(j) == j > Len(issued) - MaxTemplateHistory

\* What a channel was sent, or is about to be, has its template as long as it is recent.
JudgeInv ==
  /\ DOMAIN sent = Channels
  /\ \A c \in Channels : \A j \in sent[c] :
       j \in 1..Len(issued) /\ (Recent(j) => <<j, c>> \in DOMAIN templates)
  /\ \A t \in Senders : send[t].pc = "wire" /\ Recent(send[t].job) =>
       <<send[t].job, send[t].ch>> \in DOMAIN templates

\* Only a job that MaxTemplateHistory others follow is forgotten.
LEMMA RecentKept ==
  ASSUME JobInv, ForgetOldest, NEW j \in 1..Len(issued), NEW c, Recent(j), <<j, c>> \in DOMAIN templates
  PROVE  <<j, c>> \in DOMAIN templates'
<1> DEFINE jobs == {k[1] : k \in DOMAIN templates}
           later == j..Len(issued)
<1>1. /\ Len(issued) \in Nat /\ jobs \subseteq 1..Len(issued) /\ j \in jobs
  BY DEF JobInv
<1>2. SUFFICES ASSUME Cardinality(jobs) > MaxTemplateHistory, ~ \E i \in jobs : i < j PROVE FALSE
  <2>1. <<j, c>>[1] = j
    OBVIOUS
  <2>2. DOMAIN templates' = {k \in DOMAIN templates : Cardinality(jobs) <= MaxTemplateHistory \/ \E i \in jobs : i < k[1]}
    BY DEF ForgetOldest
  <2>3. IsFiniteSet(jobs)
    <3>1. IsFiniteSet(1..Len(issued))
      BY <1>1, FS_Interval
    <3> HIDE DEF jobs
    <3> QED
      BY <1>1, <3>1, FS_Subset
  <2>4. Cardinality(jobs) \in Nat
    BY <2>3, FS_CardinalityType
  <2> HIDE DEF jobs
  <2> QED
    BY <2>1, <2>2, <2>4, SV2Assumption
<1>3. \A i \in jobs : j <= i
  <2> HIDE DEF jobs
  <2> QED
    BY <1>1, <1>2
<1>4. IsFiniteSet(later) /\ Cardinality(later) = Len(issued) - j + 1
  BY <1>1, FS_Interval
<1>5. jobs \subseteq later
  BY <1>1, <1>3
<1>6. Cardinality(jobs) <= Len(issued) - j + 1 /\ Cardinality(jobs) \in Nat
  <2> HIDE DEF jobs, later
  <2> QED
    BY <1>4, <1>5, FS_Subset, FS_CardinalityType
<1> HIDE DEF jobs
<1> QED
  BY <1>1, <1>2, <1>6, SV2Assumption DEF Recent

\* No job was sent and none is about to be, and no template of a recent one went.
LEMMA JudgeKept ==
  ASSUME JobInv, JudgeInv, sent' = sent, Len(issued') \in Nat, Len(issued') >= Len(issued),
         \A t \in Senders : send'[t].pc = "wire" => send'[t] = send[t],
         \A j \in 1..Len(issued) : \A c : Recent(j) /\ <<j, c>> \in DOMAIN templates => <<j, c>> \in DOMAIN templates'
  PROVE  JudgeInv'
<1>1. \A j \in 1..Len(issued) : j \in 1..Len(issued') /\ (Recent(j)' => Recent(j))
  BY SV2Assumption DEF JobInv, Recent
<1>2. \A t \in Senders : send[t].pc = "wire" => send[t].job \in 1..Len(issued)
  BY DEF JobInv, Busy
<1>3. ASSUME NEW c \in Channels, NEW j \in sent[c]
      PROVE  j \in 1..Len(issued') /\ (Recent(j)' => <<j, c>> \in DOMAIN templates')
  BY <1>1 DEF JudgeInv
<1>4. ASSUME NEW t \in Senders, send'[t].pc = "wire", Recent(send[t].job)'
      PROVE  <<send'[t].job, send'[t].ch>> \in DOMAIN templates'
  BY <1>1, <1>2, <1>4 DEF JudgeInv
<1> QED
  BY <1>3, <1>4 DEF JudgeInv

LEMMA HeadsFor ==
  ASSUME ShapeInv, NEW t \in Senders, NEW job, NEW todo, NEW pc \in {"coinbase", "prepare", "job"},
         NextChannel(t, job, todo, pc)
  PROVE  Alone(t) /\ send'[t].pc # "wire"
<1>1. Alone(t) /\ (Stops(t) \/ GoesTo(t, job, todo, pc))
  BY NextChannelEffect
<1> QED
  BY <1>1 DEF Stops, GoesTo

LEMMA NextJudge == ShapeInv /\ JobInv /\ JudgeInv /\ [Next]_vars => JudgeInv'
<1> SUFFICES ASSUME ShapeInv, JobInv, JudgeInv, [Next]_vars PROVE JudgeInv'
  OBVIOUS
<1> DEFINE NoneNew == \A t \in Senders : send'[t].pc = "wire" => send'[t] = send[t]
<1>n. Len(issued) \in Nat
  BY DEF JobInv
<1>1. CASE UNCHANGED vars
  BY <1>1, <1>n, JudgeKept DEF vars, feedVars, serverVars, sessionVars, minerVars
<1>2. ASSUME NEW g \in Feeders, NewTemplate(g) \/ Prime(g) PROVE JudgeInv'
  <2>1. UNCHANGED <<templates, send, sent>>
    BY <1>2 DEF NewTemplate, Prime, sessionVars, minerVars
  <2>2. Len(issued') = Len(issued) + 1
    BY <1>2, NumbersKept
  <2> QED
    BY <1>n, <2>1, <2>2, JudgeKept
<1>3. ASSUME NEW t \in Senders, Alone(t), send'[t].pc # "wire" PROVE NoneNew
  BY <1>3 DEF Alone
<1>4. ASSUME NEW j, NEW g, StartPush(j, g) PROVE NoneNew
  <2>1. PICK p \in Pushers : Alone(p) /\ send'[p].pc = "start"
    BY <1>4, StartPushEffect
  <2> QED
    BY <1>3, <2>1, NamesDistinct
<1>5. ASSUME NEW g \in Feeders, Cache(g) \/ Broadcast(g) PROVE JudgeInv'
  <2>1. UNCHANGED <<issued, templates, sent>>
    BY <1>5 DEF Cache, Broadcast, serverVars, sessionVars, minerVars
  <2>2. NoneNew
    BY <1>4, <1>5 DEF Cache, Broadcast
  <2> QED
    BY <1>n, <2>1, <2>2, JudgeKept
<1>6. CASE HandleConn \/ Greet
  <2>1. UNCHANGED <<issued, templates, sent>>
    BY <1>6 DEF HandleConn, Greet, sessionVars, minerVars
  <2>2. NoneNew
    BY <1>4, <1>6 DEF HandleConn, Greet
  <2> QED
    BY <1>n, <2>1, <2>2, JudgeKept
<1>7. CASE BuildCoinbase \/ FirstTemplate
  <2>1. UNCHANGED <<issued, templates, sent>>
    BY <1>7 DEF BuildCoinbase, FirstTemplate, serverVars, sessionVars, minerVars
  <2>2. Alone("reader") /\ send'["reader"].pc # "wire"
    <3>1. CASE BuildCoinbase
      <4>1. send' = [send EXCEPT !["reader"].pc = "latest"]
        BY <3>1 DEF BuildCoinbase, Go
      <4>2. Alone("reader") /\ send'["reader"].pc = "latest"
        BY <4>1, NamesDistinct, StepEffect DEF Moves
      <4> QED
        BY <4>2
    <3>2. CASE FirstTemplate
      BY <3>2, NamesDistinct, StopEffect, ActivateEffect DEF FirstTemplate, Stops
    <3> QED
      BY <1>7, <3>1, <3>2
  <2> QED
    BY <1>3, <1>n, <2>1, <2>2, NamesDistinct, JudgeKept
<1>8. CASE Keepalive \/ \E c \in Channels : OpenChannel(c)
  <2>1. UNCHANGED <<issued, templates, sent>>
    BY <1>8 DEF Keepalive, OpenChannel, serverVars, sessionVars, minerVars
  <2>2. \E t \in Senders : Alone(t) /\ send'[t].pc # "wire"
    <3>1. CASE Keepalive
      <4>1. NextChannel("keeper", lastJobID, {c \in channels : <<lastJobID, c>> \in DOMAIN templates}, "job")
        BY <3>1 DEF Keepalive
      <4> QED
        BY <4>1, NamesDistinct, HeadsFor
    <3>2. ASSUME NEW c \in Channels, OpenChannel(c) PROVE Alone("reader") /\ send'["reader"].pc # "wire"
      <4>1. NextChannel("reader", None, {c}, "coinbase")
        BY <3>2 DEF OpenChannel
      <4> QED
        BY <4>1, NamesDistinct, HeadsFor
    <3> QED
      BY <1>8, <3>1, <3>2, NamesDistinct
  <2> QED
    BY <1>3, <1>n, <2>1, <2>2, JudgeKept
<1>9. CASE Close
  <2>1. send' = [t \in Senders |-> IdleSend] /\ sent' = For({})
    BY <1>9 DEF Close
  <2> QED
    BY <2>1 DEF JudgeInv, IdleSend, For
<1>10. ASSUME NEW t \in Senders, Send(t) PROVE JudgeInv'
  <2> DEFINE c == send[t].ch
             j == send[t].job
  <2>1. Alone(t) /\ UNCHANGED issued
    BY <1>10, SendEffect DEF Send, UpdateTemplate, Prepare, SendJob, WriteJob, SendPrevHash, serverVars
  <2>2. CASE UpdateTemplate(t)
    <3>1. ForgetOldest /\ sent' = sent
      BY <2>2 DEF UpdateTemplate, minerVars
    <3>2. send'[t].pc # "wire"
      <4>1. NextChannel(t, j, channels, "prepare")
        BY <2>2 DEF UpdateTemplate
      <4> QED
        BY <4>1, HeadsFor
    <3>3. \A i \in 1..Len(issued) : \A d : Recent(i) /\ <<i, d>> \in DOMAIN templates => <<i, d>> \in DOMAIN templates'
      BY <3>1, RecentKept
    <3> QED
      BY <1>3, <1>n, <2>1, <3>1, <3>2, <3>3, JudgeKept
  <2>3. CASE Prepare(t) \/ SendPrevHash(t)
    <3>1. UNCHANGED <<templates, sent>>
      BY <2>3 DEF Prepare, SendPrevHash, sessionVars, minerVars
    <3>2. send'[t].pc # "wire"
      <4>1. CASE Prepare(t)
        BY <4>1, ActivateEffect DEF Prepare
      <4>2. CASE SendPrevHash(t)
        BY <4>2, SentToEffect DEF SendPrevHash, Passes, Stops, GoesTo, After
      <4> QED
        BY <2>3, <4>1, <4>2
    <3> QED
      BY <1>3, <1>n, <2>1, <3>1, <3>2, JudgeKept
  <2>4. CASE SendJob(t)
    <3>1. DOMAIN templates' = DOMAIN templates \cup {<<j, c>>} /\ sent' = sent
      BY <2>4 DEF SendJob, KeepTemplate, minerVars
    <3>2. send'[t].job = j /\ send'[t].ch = c
      <4>1. send' = [send EXCEPT ![t].pc = "wire", ![t].coinb = Coinbase(c, j)]
        BY <2>4 DEF SendJob
      <4> QED
        BY <4>1, StepEffect DEF Moves
    <3>3. \A i : Recent(i)' <=> Recent(i)
      BY <2>1 DEF Recent
    <3>4. ASSUME NEW u \in Senders, send'[u].pc = "wire", Recent(send[u].job)'
          PROVE  <<send'[u].job, send'[u].ch>> \in DOMAIN templates'
      <4>1. CASE u = t
        BY <3>1, <3>2, <4>1
      <4>2. CASE u # t
        BY <2>1, <3>1, <3>3, <3>4, <4>2 DEF Alone, JudgeInv
      <4> QED
        BY <4>1, <4>2
    <3> QED
      BY <2>1, <3>1, <3>3, <3>4 DEF JudgeInv
  <2>5. CASE WriteJob(t)
    <3>1. UNCHANGED templates /\ sent' = [sent EXCEPT ![c] = @ \cup {j}] /\ send[t].pc = "wire"
      BY <2>5 DEF WriteJob, At
    <3>2. send'[t].pc # "wire"
      <4>1. CASE Moves(t, "prevhash")
        BY <4>1 DEF Moves
      <4>2. CASE Passes(t)
        BY <4>2 DEF Passes, Stops, GoesTo, After
      <4> QED
        BY <1>10, <2>5, <3>1, <4>1, <4>2, SendEffect DEF UpdateTemplate, At
    <3>3. j \in 1..Len(issued) /\ (Recent(j) => <<j, c>> \in DOMAIN templates)
      BY <3>1 DEF JobInv, JudgeInv, Busy
    <3>4. \A i : Recent(i)' <=> Recent(i)
      BY <2>1 DEF Recent
    <3>5. ASSUME NEW d \in Channels, NEW i \in sent'[d]
          PROVE  i \in 1..Len(issued') /\ (Recent(i)' => <<i, d>> \in DOMAIN templates')
      <4>1. i \in sent[d] \/ (i = j /\ d = c)
        BY <3>1, <3>5 DEF JudgeInv
      <4> QED
        BY <2>1, <3>1, <3>3, <3>4, <4>1 DEF JudgeInv
    <3>6. ASSUME NEW u \in Senders, send'[u].pc = "wire", Recent(send[u].job)'
          PROVE  <<send'[u].job, send'[u].ch>> \in DOMAIN templates'
      BY <2>1, <3>1, <3>2, <3>4, <3>6 DEF Alone, JudgeInv
    <3>7. DOMAIN sent' = Channels
      BY <3>1 DEF JudgeInv
    <3> QED
      BY <3>5, <3>6, <3>7 DEF JudgeInv
  <2> QED
    BY <1>10, <2>2, <2>3, <2>4, <2>5 DEF Send
<1> QED
  BY <1>1, <1>2, <1>5, <1>6, <1>7, <1>8, <1>9, <1>10 DEF Next

\* The template of a job of the newest MaxTemplateHistory is there when a share of it comes:
\* UpdateTemplate forgets by number, whatever the order the jobs were sent in.
THEOREM JudgedCorrect == Spec => []NewestJobsJudged
<1>1. Init => ShapeInv /\ JobInv /\ JudgeInv
  <2> SUFFICES ASSUME Init PROVE ShapeInv /\ JobInv /\ JudgeInv
    OBVIOUS
  <2>1. ShapeInv
    BY InitShape
  <2>2. \A t \in Senders : send[t] = IdleSend
    BY DEF Init
  <2>3. \A c \in Channels : miner[c] = NotMining
    BY DEF Init, For
  <2>4. JobInv
    BY <2>2, <2>3 DEF Init, For, NotMining, IdleSend, None, Busy, Idle, JobInv
  <2>5. JudgeInv
    BY <2>2 DEF Init, For, IdleSend, JudgeInv
  <2> QED
    BY <2>1, <2>4, <2>5
<1>2. ShapeInv /\ JudgeInv => NewestJobsJudged
  BY DEF ShapeInv, JudgeInv, NewestJobsJudged, Recent
<1> QED
  BY <1>1, <1>2, NextShape, NextJobs, NextJudge, PTL DEF Spec
=============================================================================
