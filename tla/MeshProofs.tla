---------------------------- MODULE MeshProofs ----------------------------
(* Theorems about two parts of the mesh, for any number of connections, workers *)
(* and coins, any hashrates and any targets: the connections of one backend      *)
(* (MeshBackend), and, in the second part, who decides which coin a miner works   *)
(* for (MeshAssign).  See the README for the arguments.                          *)
EXTENDS MeshBackend, MeshAssign, TLAPS

\* Before the miner's goroutine starts the readers and Reconnect.
Bonding == bond \in {"dial", "configure", "subscribe", "start"}

Connecting == {"dial", "configure", "subscribe", "authorize"}

ConnsOK == conns \in [Conns -> [state : {"shut", "open"}, authorized : BOOLEAN, unread : Seq(Lines)]]

NumbersOK ==
  /\ reader \in 0..MaxConns /\ conn \in {0, reader} /\ en \in 0..MaxConns
  /\ runs \in [0..MaxConns -> Nat]

PlacesOK ==
  /\ bond \in {"dial", "configure", "subscribe", "start", "up", "closing", "gone"}
  /\ rc \in {"off", "sleep", "dial", "configure", "subscribe", "authorize", "wait", "clear", "gone"}
  /\ Bonding <=> rc = "off"
  /\ bond \in {"closing", "gone"} <=> closed

\* One goroutine at most reads, and it reads the connection the backend has; none does
\* while a connection is being made.
ReadInv ==
  /\ \A c \in 0..MaxConns : runs[c] = 0 \/ (c = reader /\ runs[c] = 1)
  /\ Bonding \/ rc \in Connecting => runs[reader] = 0

\* The handshake at bonding reads its own answers and nothing else: its connection is
\* not authorized, so that the coin sends no jobs, and the miner is not there yet.
BondInv ==
  /\ bond = "dial" => reader = 0
  /\ bond \in {"configure", "subscribe"} => reader # 0 /\ conn = reader /\ ~conns[reader].authorized
  /\ rc \in {"configure", "subscribe"} => reader # 0
  /\ bond = "configure" => Len(conns[reader].unread) = 1
  /\ bond = "subscribe" => \/ Len(conns[reader].unread) = 1 /\ conns[reader].unread[1] = "subscribed"
                           \/ conns[reader].unread = <<>> /\ ~Open(reader)
  /\ bond \in {"dial", "configure", "subscribe"} => ~dead
  /\ bond = "start" => (IF dead THEN ~Open(reader) ELSE en = reader)
  /\ Bonding => last = 0

\* Nothing is open beside the backend's connection, and when Reconnect is about to dial,
\* or the session has closed the backend, that is not open either.
OpenInv ==
  /\ conn = 0 => ~Open(reader)
  /\ rc = "sleep" /\ dead => runs[reader] = 0 \/ ~Open(reader)
  /\ ~torn => /\ \A c \in Conns : Open(c) => c = reader
              /\ (rc = "sleep" /\ dead) \/ rc = "dial" => ~Open(reader)
              /\ bond = "gone" /\ ~lateDial => ~Open(reader)

\* Reconnect clears dead only after a job on the new connection; until then the backend
\* stays dead.
AliveInv ==
  /\ rc \in Connecting \cup {"wait", "clear"} => dead
  /\ rc \in Connecting => ~firstJob
  /\ rc \in {"authorize", "wait", "clear"} => en = reader
  /\ rc = "clear" => firstJob
  /\ rc \in {"wait", "clear"} /\ firstJob => last = reader /\ (lateDeath \/ runs[reader] = 1)
  /\ ~Bonding /\ ~dead => en = reader /\ last \in {0, en} /\ (lateDeath \/ runs[reader] = 1)

BackendInv == ConnsOK /\ NumbersOK /\ PlacesOK /\ ReadInv /\ BondInv /\ OpenInv /\ AliveInv

-----------------------------------------------------------------------------
(* Connections *)

\* No connection opens.
OpensNone == \A c \in Conns : Open(c)' => Open(c)

\* A line more on a connection's way changes nothing else about the connections.
LEMMA SentEffect ==
  ASSUME ConnsOK, NEW c \in Conns, NEW line \in Lines
  PROVE  /\ Sent(c, line) \in [Conns -> [state : {"shut", "open"}, authorized : BOOLEAN, unread : Seq(Lines)]]
         /\ \A d \in Conns : Sent(c, line)[d].state = conns[d].state
         /\ Sent(c, line)[c].authorized = conns[c].authorized
         /\ Sent(c, line)[c].unread = Append(conns[c].unread, line)
<1>1. Append(conns[c].unread, line) \in Seq(Lines)
  BY DEF ConnsOK
<1>2. Sent(c, line) = [conns EXCEPT ![c].unread = Append(conns[c].unread, line)]
  BY DEF Sent
<1> DEFINE line2 == Append(conns[c].unread, line)
<1> HIDE DEF line2
<1>3. /\ Sent(c, line) = [conns EXCEPT ![c].unread = line2] /\ line2 \in Seq(Lines)
      /\ line2 = Append(conns[c].unread, line)
  BY <1>1, <1>2 DEF line2
<1> DEFINE g == [conns EXCEPT ![c].unread = line2]
<1>4. /\ g \in [Conns -> [state : {"shut", "open"}, authorized : BOOLEAN, unread : Seq(Lines)]]
      /\ \A d \in Conns : g[d].state = conns[d].state
      /\ g[c].authorized = conns[c].authorized /\ g[c].unread = line2
  <2>1. g \in [Conns -> [state : {"shut", "open"}, authorized : BOOLEAN, unread : Seq(Lines)]]
    <3>0. /\ DOMAIN conns[c] = {"state", "authorized", "unread"}
          /\ conns[c].state \in {"shut", "open"} /\ conns[c].authorized \in BOOLEAN
      BY DEF ConnsOK
    <3>1. [conns[c] EXCEPT !.unread = line2] \in [state : {"shut", "open"}, authorized : BOOLEAN, unread : Seq(Lines)]
      BY <1>3, <3>0
    <3>2. g = [conns EXCEPT ![c] = [conns[c] EXCEPT !.unread = line2]]
      BY DEF ConnsOK
    <3> QED
      BY <3>1, <3>2 DEF ConnsOK
  <2>2. \A d \in Conns : g[d].state = conns[d].state
    BY <1>3 DEF ConnsOK
  <2>3. g[c].authorized = conns[c].authorized /\ g[c].unread = line2
    BY <1>3 DEF ConnsOK
  <2> QED
    BY <2>1, <2>2, <2>3
<1> HIDE DEF g
<1>5. Sent(c, line) = g
  BY <1>3 DEF g
<1> QED
  BY <1>3, <1>4, <1>5

LEMMA AuthorizedEffect ==
  ASSUME ConnsOK, NEW c \in Conns
  PROVE  /\ [Sent(c, "authorized") EXCEPT ![c].authorized = TRUE]
               \in [Conns -> [state : {"shut", "open"}, authorized : BOOLEAN, unread : Seq(Lines)]]
         /\ \A d \in Conns : [Sent(c, "authorized") EXCEPT ![c].authorized = TRUE][d].state = conns[d].state
<1> DEFINE f == Sent(c, "authorized")
<1>1. "authorized" \in Lines
  BY DEF Lines
<1>2. /\ f \in [Conns -> [state : {"shut", "open"}, authorized : BOOLEAN, unread : Seq(Lines)]]
      /\ \A d \in Conns : f[d].state = conns[d].state
  BY <1>1, SentEffect
<1> HIDE DEF f
<1>3. /\ [f EXCEPT ![c].authorized = TRUE]
           \in [Conns -> [state : {"shut", "open"}, authorized : BOOLEAN, unread : Seq(Lines)]]
      /\ \A d \in Conns : [f EXCEPT ![c].authorized = TRUE][d].state = conns[d].state
  BY <1>2
<1> QED
  BY <1>3 DEF f

LEMMA ClosedEffect ==
  ASSUME ConnsOK, NumbersOK, conns' = Closed
  PROVE  /\ ConnsOK' /\ OpensNone
         /\ conn # 0 => ~(conns'[conn].state = "open")
         /\ \A c \in Conns : conns'[c].state = "open" => conns[c].state = "open" /\ c # conn
<1>1. conn # 0 => conn \in Conns
  BY BackendAssumption DEF NumbersOK, Conns
<1>2. CASE conn = 0
  BY <1>2 DEF Closed, ConnsOK, OpensNone, Open, Conns
<1>3. CASE conn # 0
  <2>1. conns' = [conns EXCEPT ![conn].state = "shut"]
    BY <1>3 DEF Closed
  <2> QED
    BY <1>1, <1>3, <2>1 DEF ConnsOK, OpensNone, Open
<1> QED
  BY <1>2, <1>3

\* A new connection is open, not authorized, and has one line on its way.
LEMMA NewEffect ==
  LET new == [Fresh EXCEPT !.state = "open", !.unread = <<"configured">>]
  IN  /\ new \in [state : {"shut", "open"}, authorized : BOOLEAN, unread : Seq(Lines)]
      /\ new.state = "open" /\ ~new.authorized /\ Len(new.unread) = 1
<1>1. /\ Fresh \in [state : {"shut", "open"}, authorized : BOOLEAN, unread : Seq(Lines)]
      /\ Fresh.authorized = FALSE
  BY DEF Fresh
<1>2. <<"configured">> \in Seq(Lines) /\ Len(<<"configured">>) = 1
  BY DEF Lines
<1> QED
  BY <1>1, <1>2

\* Reading takes a line off.
LEMMA TailEffect ==
  ASSUME ConnsOK, NEW c \in Conns, conns[c].unread # <<>>
  PROVE  /\ [conns EXCEPT ![c].unread = Tail(@)]
               \in [Conns -> [state : {"shut", "open"}, authorized : BOOLEAN, unread : Seq(Lines)]]
         /\ \A d \in Conns : [conns EXCEPT ![c].unread = Tail(@)][d].state = conns[d].state
         /\ [conns EXCEPT ![c].unread = Tail(@)][c].unread = Tail(conns[c].unread)
         /\ [conns EXCEPT ![c].unread = Tail(@)][c].authorized = conns[c].authorized
<1>1. conns[c].unread \in Seq(Lines) /\ Tail(conns[c].unread) \in Seq(Lines)
  BY DEF ConnsOK
<1> QED
  BY <1>1 DEF ConnsOK

LEMMA ConnsStep ==
  ASSUME BackendInv, [Next]_vars
  PROVE  /\ ConnsOK'
         /\ (\A t \in {"bond", "rc"} : ~Dial(t)) => OpensNone
<1> DEFINE Good == ConnsOK' /\ OpensNone
<1>1. ConnsOK /\ NumbersOK /\ BondInv /\ (reader # 0 => reader \in Conns) /\ (conn # 0 => conn = reader /\ conn \in Conns)
  BY BackendAssumption DEF BackendInv, NumbersOK, Conns
<1>2. ASSUME conns' = conns PROVE Good
  BY <1>1, <1>2 DEF ConnsOK, OpensNone, Open
<1>3. ASSUME NEW f, f \in [Conns -> [state : {"shut", "open"}, authorized : BOOLEAN, unread : Seq(Lines)]],
             \A d \in Conns : f[d].state = conns[d].state, conns' = f
      PROVE Good
  BY <1>3 DEF ConnsOK, OpensNone, Open
<1>4. ASSUME NEW t \in {"bond", "rc"}, Dial(t) PROVE ConnsOK'
  <2>1. PICK c \in Conns : conns' = [conns EXCEPT ![c] = [Fresh EXCEPT !.state = "open", !.unread = <<"configured">>]]
    BY <1>4 DEF Dial, Free
  <2> QED
    BY <1>1, <2>1, NewEffect DEF ConnsOK
<1>5. ASSUME NEW t \in {"bond", "rc"}, ReadConfigured(t) \/ ReadSubscribed(t) PROVE reader \in Conns
  <2>1. CASE t = "bond"
    BY <1>1, <1>5, <2>1 DEF ReadConfigured, ReadSubscribed, At, BondInv
  <2>2. CASE t = "rc"
    BY <1>1, <1>5, <2>2 DEF ReadConfigured, ReadSubscribed, At, BondInv
  <2> QED
    BY <2>1, <2>2
<1>6. ASSUME NEW t \in {"bond", "rc"}, ReadConfigured(t) PROVE Good
  <2> DEFINE rest == Tail(conns[reader].unread)
             now == IF Open(conn) THEN Append(rest, "subscribed") ELSE rest
  <2>1. reader \in Conns /\ conns[reader].unread # <<>>
    BY <1>5, <1>6 DEF ReadConfigured
  <2>2. conns[reader].unread \in Seq(Lines) /\ rest \in Seq(Lines) /\ "subscribed" \in Lines
    BY <1>1, <2>1 DEF ConnsOK, Lines
  <2>3. now \in Seq(Lines)
    BY <2>2
  <2>4. conns' = [conns EXCEPT ![reader].unread = now]
    BY <1>6 DEF ReadConfigured
  <2> HIDE DEF now
  <2> QED
    BY <1>1, <2>1, <2>3, <2>4 DEF ConnsOK, OpensNone, Open
<1>7. ASSUME NEW c \in Conns, conns[c].unread # <<>>, conns' = [conns EXCEPT ![c].unread = Tail(@)] PROVE Good
  <2> DEFINE g == [conns EXCEPT ![c].unread = Tail(@)]
  <2>1. /\ g \in [Conns -> [state : {"shut", "open"}, authorized : BOOLEAN, unread : Seq(Lines)]]
        /\ \A d \in Conns : g[d].state = conns[d].state
        /\ conns' = g
    BY <1>1, <1>7, TailEffect
  <2> HIDE DEF g
  <2> QED
    BY <1>3, <2>1
<1>8. ASSUME NEW t \in {"bond", "rc"}, ReadSubscribed(t) PROVE Good
  BY <1>5, <1>7, <1>8 DEF ReadSubscribed
<1>9. ASSUME NEW c \in 0..MaxConns, RunReads(c) PROVE Good
  <2>1. c \in Conns
    BY <1>9, BackendAssumption DEF RunReads, Conns
  <2> QED
    BY <1>7, <1>9, <2>1 DEF RunReads
<1>15. ASSUME NEW c \in Conns, conns' = [Sent(c, "authorized") EXCEPT ![c].authorized = TRUE] PROVE Good
  <2> DEFINE g == [Sent(c, "authorized") EXCEPT ![c].authorized = TRUE]
  <2>1. /\ g \in [Conns -> [state : {"shut", "open"}, authorized : BOOLEAN, unread : Seq(Lines)]]
        /\ \A d \in Conns : g[d].state = conns[d].state
        /\ conns' = g
    BY <1>1, <1>15, AuthorizedEffect
  <2> HIDE DEF g
  <2> QED
    BY <1>3, <2>1
<1>10. ASSUME MinerAuthorizes PROVE Good
  <2>1. CASE ~Open(conn)
    BY <1>2, <1>10, <2>1 DEF MinerAuthorizes
  <2>2. CASE Open(conn)
    <3>1. conn \in Conns /\ "refused" \in Lines
      BY <1>1, <2>2 DEF Open, Lines
    <3>2. conns' = Sent(conn, "refused") \/ conns' = [Sent(conn, "authorized") EXCEPT ![conn].authorized = TRUE]
      BY <1>10, <2>2 DEF MinerAuthorizes
    <3>3. CASE conns' = Sent(conn, "refused")
      BY <1>1, <1>3, <3>1, <3>3, SentEffect
    <3>4. CASE conns' = [Sent(conn, "authorized") EXCEPT ![conn].authorized = TRUE]
      BY <1>15, <3>1, <3>4
    <3> QED
      BY <3>2, <3>3, <3>4
  <2> QED
    BY <2>1, <2>2
<1>11. ASSUME conns' = Closed PROVE Good
  BY <1>1, <1>11, ClosedEffect
<1>12. ASSUME Reauthorize PROVE Good
  <2>1. conns' = Named \/ conns' = Closed
    BY <1>12 DEF Reauthorize
  <2>2. CASE conns' = Named
    <3>1. CASE worker /\ Open(conn)
      <4>1. conn \in Conns
        BY <1>1, <3>1 DEF Open
      <4> QED
        BY <1>15, <2>2, <3>1, <4>1 DEF Named
    <3>2. CASE ~(worker /\ Open(conn))
      BY <1>2, <2>2, <3>2 DEF Named
    <3> QED
      BY <3>1, <3>2
  <2> QED
    BY <1>11, <2>1, <2>2
<1>13. ASSUME NEW c \in Conns, CoinSendsJob(c) \/ CoinEnds(c) PROVE Good
  <2>1. CASE CoinSendsJob(c)
    <3>1. "job" \in Lines
      BY DEF Lines
    <3> QED
      BY <1>1, <1>3, <2>1, <3>1, SentEffect DEF CoinSendsJob
  <2>2. CASE CoinEnds(c)
    BY <1>1, <2>2 DEF CoinEnds, ConnsOK, OpensNone, Open
  <2> QED
    BY <1>13, <2>1, <2>2
<1>14. ASSUME CoinStops PROVE Good
  BY <1>1, <1>14 DEF CoinStops, ConnsOK, OpensNone, Open
<1> QED
  BY <1>2, <1>4, <1>6, <1>8, <1>9, <1>10, <1>11, <1>12, <1>13, <1>14
     DEF Next, Connect, DialFails, ReadFails, Start, SessionEnds, CloseBackend, RunEnds, Reconnect, Wake, Stop,
         JobCame, NoJobCame, Dropped, Clear, CoinStarts, vars, backendVars

-----------------------------------------------------------------------------
(* Numbers and places *)

\* A goroutine that reads, or ends, is the one reader of the backend's connection.
LEMMA TheReader ==
  ASSUME BackendInv, NEW c \in 0..MaxConns, runs[c] > 0
  PROVE  c = reader /\ runs[reader] = 1 /\ ~Bonding /\ rc \notin Connecting
BY DEF BackendInv, ReadInv, NumbersOK

LEMMA RunReadsEffect ==
  ASSUME BackendInv, NEW c \in 0..MaxConns, RunReads(c)
  PROVE  c = reader /\ runs[reader] = 1 /\ ~Bonding /\ rc \notin Connecting /\ runs' = runs
BY TheReader DEF RunReads

LEMMA RunEndsEffect ==
  ASSUME BackendInv, NEW c \in 0..MaxConns, RunEnds(c)
  PROVE  /\ c = reader /\ runs[reader] = 1 /\ ~Bonding /\ rc \notin Connecting
         /\ runs' = [runs EXCEPT ![reader] = 0] /\ ~Open(reader)
<1>1. c = reader /\ runs[reader] = 1 /\ ~Bonding /\ rc \notin Connecting
  BY TheReader DEF RunEnds
<1>2. runs' = [runs EXCEPT ![c] = runs[c] - 1] /\ ~Open(c)
  BY DEF RunEnds
<1>3. runs[c] - 1 = 0
  BY <1>1
<1> QED
  BY <1>1, <1>2, <1>3

\* A goroutine that starts finds nobody reading.
LEMMA StartEffect ==
  ASSUME BackendInv, runs' = [runs EXCEPT ![reader] = @ + 1], runs[reader] = 0, reader' = reader
  PROVE  /\ runs' \in [0..MaxConns -> Nat] /\ runs'[reader] = 1
         /\ \A c \in 0..MaxConns : runs'[c] = 0 \/ (c = reader' /\ runs'[c] = 1)
<1>1. runs' = [runs EXCEPT ![reader] = 1]
  OBVIOUS
<1> QED
  BY <1>1 DEF BackendInv, ReadInv, NumbersOK

LEMMA NumbersStep ==
  ASSUME BackendInv, [Next]_vars
  PROVE  NumbersOK'
<1>1. NumbersOK
  BY DEF BackendInv
<1>2. CASE UNCHANGED <<reader, conn, en, runs>>
  BY <1>1, <1>2 DEF NumbersOK
<1>3. CASE UNCHANGED <<reader, en, runs>> /\ conn' = 0
  BY <1>1, <1>3 DEF NumbersOK
<1>4. ASSUME NEW t \in {"bond", "rc"}, Dial(t) PROVE NumbersOK'
  BY <1>1, <1>4 DEF Dial, DialInto, Free, NumbersOK, Conns
<1>5. ASSUME NEW t \in {"bond", "rc"}, ReadSubscribed(t) PROVE NumbersOK'
  BY <1>1, <1>5 DEF ReadSubscribed, NumbersOK
<1>6. ASSUME Start PROVE NumbersOK'
  <2>1. runs[reader] = 0 /\ UNCHANGED <<reader, conn, en>>
    BY <1>6 DEF Start, backendVars, BackendInv, ReadInv, Bonding
  <2>2. runs' \in [0..MaxConns -> Nat]
    BY <1>6, <2>1, StartEffect DEF Start
  <2> QED
    BY <1>1, <2>1, <2>2 DEF NumbersOK
<1>7. ASSUME NEW c \in 0..MaxConns, RunReads(c) PROVE NumbersOK'
  BY <1>2, <1>7, RunReadsEffect DEF RunReads
<1>8. ASSUME NEW c \in 0..MaxConns, RunEnds(c) PROVE NumbersOK'
  <2>1. runs' = [runs EXCEPT ![reader] = 0] /\ UNCHANGED <<reader, conn, en>>
    BY <1>8, RunEndsEffect DEF RunEnds
  <2> QED
    BY <1>1, <2>1 DEF NumbersOK
<1>9. ASSUME Reauthorize PROVE NumbersOK'
  <2>1. runs[reader] = 0 /\ UNCHANGED <<reader, en>>
    BY <1>9 DEF Reauthorize, BackendInv, ReadInv, Connecting
  <2>2. CASE UNCHANGED conn /\ runs' = [runs EXCEPT ![reader] = @ + 1]
    <3>1. runs' \in [0..MaxConns -> Nat]
      BY <2>1, <2>2, StartEffect
    <3> QED
      BY <1>1, <2>1, <2>2, <3>1 DEF NumbersOK
  <2> QED
    BY <1>3, <1>9, <2>1, <2>2 DEF Reauthorize
<1> QED
  BY <1>2, <1>3, <1>4, <1>5, <1>6, <1>7, <1>8, <1>9
     DEF Next, Connect, DialFails, ReadConfigured, ReadFails, MinerAuthorizes, SessionEnds, CloseBackend, Reconnect,
         Wake, Stop, JobCame, NoJobCame, Clear, CoinSendsJob, CoinEnds, CoinStops, CoinStarts, vars, backendVars

LEMMA PlacesStep ==
  ASSUME BackendInv, [Next]_vars
  PROVE  PlacesOK'
<1>1. PlacesOK
  BY DEF BackendInv
<1>2. CASE UNCHANGED <<bond, rc, closed>>
  BY <1>1, <1>2 DEF PlacesOK, Bonding
<1>3. ASSUME Connect("bond") PROVE PlacesOK'
  <2>1. bond \in {"dial", "configure", "subscribe"} /\ bond' \in {"configure", "subscribe", "start"}
    <3>1. CASE Dial("bond")
      BY <3>1 DEF Dial, At, Goto
    <3>2. CASE DialFails("bond")
      BY <3>2 DEF DialFails, At, Goto
    <3>3. CASE ReadConfigured("bond")
      BY <3>3 DEF ReadConfigured, At, Goto
    <3>4. CASE ReadSubscribed("bond")
      BY <3>4 DEF ReadSubscribed, Fails, At, Goto
    <3>5. CASE ReadFails("bond")
      BY <3>5 DEF ReadFails, Fails, At, Goto
    <3> QED
      BY <1>3, <3>1, <3>2, <3>3, <3>4, <3>5 DEF Connect
  <2>2. UNCHANGED <<rc, closed>>
    <3>1. CASE Dial("bond")
      BY <3>1 DEF Dial, Goto
    <3>2. CASE DialFails("bond")
      BY <3>2 DEF DialFails, Goto
    <3>3. CASE ReadConfigured("bond")
      BY <3>3 DEF ReadConfigured, Goto
    <3>4. CASE ReadSubscribed("bond")
      BY <3>4 DEF ReadSubscribed, Fails, Goto
    <3>5. CASE ReadFails("bond")
      BY <3>5 DEF ReadFails, Fails, Goto
    <3> QED
      BY <1>3, <3>1, <3>2, <3>3, <3>4, <3>5 DEF Connect
  <2> QED
    BY <1>1, <2>1, <2>2 DEF PlacesOK, Bonding
<1>4. ASSUME Connect("rc") PROVE PlacesOK'
  BY <1>1, <1>4 DEF Connect, Dial, DialFails, ReadConfigured, ReadSubscribed, ReadFails, Fails, At, Goto, PlacesOK, Bonding
<1>5. CASE Start \/ MinerAuthorizes \/ SessionEnds \/ CloseBackend
  BY <1>1, <1>5 DEF Start, MinerAuthorizes, SessionEnds, CloseBackend, PlacesOK, Bonding
<1>6. CASE Wake \/ Stop \/ Reauthorize \/ JobCame \/ NoJobCame \/ Clear
  BY <1>1, <1>6 DEF Wake, Stop, Reauthorize, JobCame, NoJobCame, Clear, PlacesOK, Bonding
<1> QED
  BY <1>2, <1>3, <1>4, <1>5, <1>6
     DEF Next, Reconnect, RunReads, RunEnds, CoinSendsJob, CoinEnds, CoinStops, CoinStarts, vars

-----------------------------------------------------------------------------
(* One reader *)

LEMMA ReadStep ==
  ASSUME BackendInv, [Next]_vars
  PROVE  ReadInv'
<1>1. ReadInv /\ NumbersOK /\ PlacesOK /\ OpenInv /\ AliveInv /\ BondInv
  BY DEF BackendInv
\* Whoever connects, and whoever has read nothing, leaves the readers alone.
<1>2. CASE UNCHANGED <<reader, runs, bond, rc>>
  BY <1>1, <1>2 DEF ReadInv, Bonding
<1>3. ASSUME UNCHANGED runs, runs[reader] = 0, reader' \in 0..MaxConns PROVE ReadInv'
  BY <1>1, <1>3 DEF ReadInv, NumbersOK
<1>4. ASSUME NEW t \in {"bond", "rc"}, Connect(t) PROVE ReadInv'
  <2>1. runs[reader] = 0
    BY <1>1, <1>4 DEF Connect, Dial, DialFails, ReadConfigured, ReadSubscribed, ReadFails, At, ReadInv, Bonding, Connecting
  <2>2. UNCHANGED runs
    BY <1>4 DEF Connect, Dial, DialFails, ReadConfigured, ReadSubscribed, ReadFails
  <2> QED
    BY <1>3, <2>1, <2>2, NumbersStep DEF NumbersOK
<1>5. ASSUME Start PROVE ReadInv'
  <2>1. runs[reader] = 0 /\ reader' = reader
    BY <1>1, <1>5 DEF Start, ReadInv, Bonding, backendVars
  <2>2. ~Bonding' /\ rc' \notin Connecting
    BY <1>5 DEF Start, Bonding, Connecting
  <2> QED
    BY <1>5, <2>1, <2>2, StartEffect DEF Start, ReadInv
<1>6. ASSUME UNCHANGED <<runs, reader>>, rc' \notin Connecting, ~Bonding' PROVE ReadInv'
  BY <1>1, <1>6 DEF ReadInv
<1>7. ASSUME NEW c \in 0..MaxConns, RunReads(c) \/ RunEnds(c) PROVE ReadInv'
  <2>1. UNCHANGED <<reader, bond, rc>>
    BY <1>7 DEF RunReads, RunEnds
  <2>2. CASE RunEnds(c)
    <3>1. runs' = [runs EXCEPT ![reader] = 0] /\ reader' = reader
      BY <2>1, <2>2, RunEndsEffect
    <3> QED
      BY <1>1, <3>1 DEF ReadInv, NumbersOK
  <2> QED
    BY <1>2, <1>7, <2>1, <2>2, RunReadsEffect
\* The sleep has let the reader of a dead connection end.
<1>8. ASSUME Wake PROVE ReadInv'
  <2>1. runs[reader] = 0
    BY <1>1, <1>8 DEF Wake, Settled, ReadInv, NumbersOK, OpenInv
  <2> QED
    BY <1>1, <1>3, <1>8, <2>1 DEF Wake, NumbersOK
<1>9. ASSUME Reauthorize PROVE ReadInv'
  <2>1. runs[reader] = 0 /\ reader' = reader
    BY <1>1, <1>9 DEF Reauthorize, ReadInv, Connecting
  <2>2. CASE runs' = [runs EXCEPT ![reader] = @ + 1] /\ rc' = "wait"
    <3>1. ~Bonding' /\ rc' \notin Connecting
      BY <1>1, <1>9, <2>2 DEF Reauthorize, PlacesOK, Bonding, Connecting
    <3> QED
      BY <2>1, <2>2, <3>1, StartEffect DEF ReadInv
  <2> QED
    BY <1>1, <1>3, <1>9, <2>1, <2>2 DEF Reauthorize, NumbersOK
<1>10. CASE Stop \/ JobCame \/ NoJobCame \/ Clear
  <2>1. UNCHANGED <<runs, reader, bond>> /\ rc' \notin Connecting /\ rc' # "off"
    BY <1>10 DEF Stop, JobCame, NoJobCame, Clear, Connecting, backendVars
  <2>2. ~Bonding'
    BY <1>1, <1>10, <2>1 DEF Stop, JobCame, NoJobCame, Clear, PlacesOK, Bonding
  <2> QED
    BY <1>6, <2>1, <2>2
<1>11. CASE SessionEnds \/ CloseBackend
  BY <1>1, <1>11 DEF SessionEnds, CloseBackend, ReadInv, Bonding, backendVars
<1> QED
  BY <1>2, <1>4, <1>5, <1>7, <1>8, <1>9, <1>10, <1>11
     DEF Next, Reconnect, MinerAuthorizes, CoinSendsJob, CoinEnds, CoinStops, CoinStarts, vars, backendVars

-----------------------------------------------------------------------------
(* Bonding *)

\* While the miner's goroutine connects, only it and the coin take steps.
LEMMA BondingSteps ==
  ASSUME BackendInv, [Next]_vars, Bonding'
  PROVE  /\ Bonding /\ rc = "off"
         /\ \/ Connect("bond") \/ CoinStops \/ CoinStarts \/ UNCHANGED vars
            \/ \E c \in Conns : CoinSendsJob(c) \/ CoinEnds(c)
<1>1. PlacesOK
  BY DEF BackendInv
<1>2. ~Start /\ ~SessionEnds /\ ~CloseBackend /\ ~MinerAuthorizes
  BY DEF Start, SessionEnds, CloseBackend, MinerAuthorizes, Bonding
<1>3. \A c \in 0..MaxConns : ~RunReads(c) /\ ~RunEnds(c)
  <2>1. ASSUME NEW c \in 0..MaxConns, RunReads(c) \/ RunEnds(c) PROVE FALSE
    <3>1. ~Bonding /\ bond' = bond
      BY <2>1, TheReader DEF RunReads, RunEnds
    <3> QED
      BY <3>1 DEF Bonding
  <2> QED
    BY <2>1
<1>4. ~Connect("rc")
  <2>1. ASSUME Connect("rc") PROVE rc # "off" /\ bond' = bond
    BY <2>1 DEF Connect, Dial, DialFails, ReadConfigured, ReadSubscribed, ReadFails, Fails, At, Goto
  <2> QED
    BY <1>1, <2>1 DEF PlacesOK, Bonding
<1>5. ~Wake /\ ~Stop /\ ~Reauthorize /\ ~JobCame /\ ~NoJobCame /\ ~Clear
  BY <1>1 DEF Wake, Stop, Reauthorize, JobCame, NoJobCame, Clear, PlacesOK, Bonding
<1>6. \/ Connect("bond") \/ CoinStops \/ CoinStarts \/ UNCHANGED vars
      \/ \E c \in Conns : CoinSendsJob(c) \/ CoinEnds(c)
  BY <1>2, <1>3, <1>4, <1>5 DEF Next, Reconnect
<1>7. Bonding
  <2>1. CASE Connect("bond")
    BY <2>1 DEF Connect, Dial, DialFails, ReadConfigured, ReadSubscribed, ReadFails, At, Bonding
  <2>2. CASE ~Connect("bond")
    BY <1>6, <2>2 DEF CoinSendsJob, CoinEnds, CoinStops, CoinStarts, vars, Bonding
  <2> QED
    BY <2>1, <2>2
<1> QED
  BY <1>1, <1>6, <1>7 DEF PlacesOK

LEMMA DialEffect ==
  ASSUME BackendInv, NEW t \in {"bond", "rc"}, Dial(t)
  PROVE  /\ reader' \in Conns /\ conn' = reader' /\ Open(reader)' /\ ~conns'[reader'].authorized
         /\ Len(conns'[reader'].unread) = 1
         /\ \A d \in Conns : d # reader' => conns'[d] = conns[d]
         /\ ~Open(reader') /\ reader' \notin {conn, reader, en, last}
<1> DEFINE new == [Fresh EXCEPT !.state = "open", !.unread = <<"configured">>]
<1>1. new.state = "open" /\ ~new.authorized /\ Len(new.unread) = 1
  BY NewEffect
<1> HIDE DEF new
<1>2. PICK c \in Free : DialInto(c) /\ conns' = [conns EXCEPT ![c] = new]
  BY DEF Dial, new
<1>3. c \in Conns /\ c # 0 /\ ConnsOK
  BY <1>2, BackendAssumption DEF Free, Conns, BackendInv
<1>4. conns'[c] = new /\ \A d \in Conns : d # c => conns'[d] = conns[d]
  BY <1>2, <1>3 DEF ConnsOK
<1> QED
  BY <1>1, <1>2, <1>3, <1>4 DEF DialInto, Open, Free

\* The reader of the backend changes when it dials.
LEMMA ReaderStep ==
  ASSUME BackendInv, [Next]_vars, \A t \in {"bond", "rc"} : ~Dial(t)
  PROVE  reader' = reader
BY DEF Next, Connect, DialFails, ReadConfigured, ReadSubscribed, ReadFails, Start, MinerAuthorizes, SessionEnds,
       CloseBackend, RunReads, RunEnds, Reconnect, Wake, Stop, Reauthorize, JobCame, NoJobCame, Clear, CoinSendsJob,
       CoinEnds, CoinStops, CoinStarts, vars, backendVars

LEMMA ReconnectHasReader ==
  ASSUME BackendInv, [Next]_vars, rc' \in {"configure", "subscribe"}
  PROVE  reader' # 0
<1>1. BondInv
  BY DEF BackendInv
<1>2. CASE \E t \in {"bond", "rc"} : Dial(t)
  BY <1>2, DialEffect, BackendAssumption DEF Conns
<1>3. CASE \A t \in {"bond", "rc"} : ~Dial(t)
  <2>1. reader' = reader
    BY <1>3, ReaderStep
  <2>2. rc \in {"configure", "subscribe"}
    <3>1. CASE Connect("bond")
      BY <1>3, <3>1 DEF Connect, DialFails, ReadConfigured, ReadSubscribed, ReadFails, Fails, Goto
    <3>2. CASE Connect("rc")
      BY <1>3, <3>2 DEF Connect, DialFails, ReadConfigured, ReadSubscribed, ReadFails, Fails, Goto, At
    <3>3. CASE ~Connect("bond") /\ ~Connect("rc")
      BY <3>3 DEF Next, Start, MinerAuthorizes, SessionEnds, CloseBackend, RunReads, RunEnds, Reconnect, Wake, Stop,
            Reauthorize, JobCame, NoJobCame, Clear, CoinSendsJob, CoinEnds, CoinStops, CoinStarts, vars
    <3> QED
      BY <3>1, <3>2, <3>3
  <2> QED
    BY <1>1, <2>1, <2>2 DEF BondInv
<1> QED
  BY <1>2, <1>3

LEMMA OneLine ==
  ASSUME NEW s \in Seq(Lines), Len(s) = 1
  PROVE  Tail(s) \in Seq(Lines) /\ Len(Tail(s)) = 0
<1>1. s # <<>>
  <2>1. CASE s = <<>>
    <3>1. Len(s) = 0
      BY <2>1
    <3> QED
      BY <3>1
  <2> QED
    BY <2>1
<1>2. Tail(s) \in Seq(Lines) /\ Len(Tail(s)) = Len(s) - 1
  BY <1>1
<1> QED
  BY <1>2

LEMMA BondStep ==
  ASSUME BackendInv, [Next]_vars
  PROVE  BondInv'
<1>1. BondInv /\ ConnsOK /\ NumbersOK /\ (rc' \in {"configure", "subscribe"} => reader' # 0)
  BY ReconnectHasReader DEF BackendInv
<1>2. CASE ~Bonding'
  BY <1>1, <1>2 DEF Bonding, BondInv
<1>3. ASSUME Bonding' PROVE BondInv'
  <2>1. /\ Bonding /\ rc = "off"
        /\ \/ Connect("bond") \/ CoinStops \/ CoinStarts \/ UNCHANGED vars
           \/ \E c \in Conns : CoinSendsJob(c) \/ CoinEnds(c)
    BY <1>3, BondingSteps
  <2>2. reader # 0 => reader \in Conns
    BY <1>1, BackendAssumption DEF NumbersOK, Conns
  <2>3. ASSUME Dial("bond") PROVE BondInv'
    <3>1. /\ reader' \in Conns /\ conn' = reader' /\ ~conns'[reader'].authorized
          /\ Len(conns'[reader'].unread) = 1
      BY <2>3, DialEffect
    <3>2. bond' = "configure" /\ bond = "dial" /\ UNCHANGED <<rc, last, dead>>
      BY <2>3 DEF Dial, Goto, At
    <3> QED
      BY <1>1, <2>1, <3>1, <3>2, BackendAssumption DEF BondInv, Bonding, Conns
  <2>4. ASSUME DialFails("bond") PROVE BondInv'
    <3>1. bond' = "start" /\ bond = "dial" /\ dead' /\ UNCHANGED <<rc, last, reader, conns>>
      BY <2>4 DEF DialFails, Goto, At
    <3> QED
      BY <1>1, <2>1, <3>1 DEF BondInv, Bonding, Open
  <2>5. ASSUME ReadConfigured("bond") PROVE BondInv'
    <3> DEFINE rest == Tail(conns[reader].unread)
               now == IF Open(conn) THEN Append(rest, "subscribed") ELSE rest
    <3>1. /\ bond' = "subscribe" /\ bond = "configure" /\ conns[reader].unread # <<>>
          /\ conns' = [conns EXCEPT ![reader].unread = now]
          /\ UNCHANGED <<rc, last, reader, conn, dead>>
      BY <2>5 DEF ReadConfigured, Goto, At
    <3>2. reader \in Conns /\ conn = reader /\ ~conns[reader].authorized /\ Len(conns[reader].unread) = 1 /\ ~dead
      BY <1>1, <2>2, <3>1 DEF BondInv
    <3>3. conns[reader].unread \in Seq(Lines) /\ "subscribed" \in Lines
      BY <1>1, <3>2 DEF ConnsOK, Lines
    <3>7. rest \in Seq(Lines) /\ Len(rest) = 0
      BY <3>2, <3>3, OneLine
    <3> HIDE DEF rest
    <3>8. rest = <<>>
      BY <3>7
    <3>9. Append(rest, "subscribed") \in Seq(Lines) /\ Len(Append(rest, "subscribed")) = 1 /\ Append(rest, "subscribed")[1] = "subscribed"
      BY <3>3, <3>7
    <3>4. IF Open(reader) THEN Len(now) = 1 /\ now[1] = "subscribed" ELSE now = <<>>
      BY <3>2, <3>8, <3>9
    <3>5. now \in Seq(Lines)
      BY <3>7, <3>9
    <3> HIDE DEF now
    <3>6. conns'[reader].unread = now /\ conns'[reader].authorized = conns[reader].authorized
          /\ (Open(reader)' <=> Open(reader))
      BY <1>1, <3>1, <3>2, <3>5 DEF ConnsOK, Open
    <3> QED
      BY <1>1, <2>1, <3>1, <3>2, <3>4, <3>6, BackendAssumption DEF BondInv, Bonding, Conns
  <2>6. ASSUME ReadSubscribed("bond") PROVE BondInv'
    <3>1. bond = "subscribe" /\ conns[reader].unread # <<>>
      BY <2>6 DEF ReadSubscribed, At
    <3>2. conns[reader].unread[1] = "subscribed" /\ ~dead
      BY <1>1, <3>1 DEF BondInv
    <3>3. Head(conns[reader].unread) = "subscribed"
      BY <3>1, <3>2
    <3>4. en' = reader /\ bond' = "start" /\ UNCHANGED <<rc, last, reader, dead>>
      BY <2>6, <3>3 DEF ReadSubscribed, Goto
    <3> QED
      BY <1>1, <2>1, <3>2, <3>4 DEF BondInv, Bonding
  <2>7. ASSUME ReadFails("bond") PROVE BondInv'
    <3>1. ~Open(reader) /\ bond' = "start" /\ dead' /\ UNCHANGED <<rc, last, reader, conns>>
      BY <2>7 DEF ReadFails, Fails, Goto
    <3> QED
      BY <1>1, <2>1, <3>1 DEF BondInv, Bonding, Open
  \* The coin sends no jobs on the connection, which it may end.
  <2>8. ASSUME UNCHANGED <<conn, reader, en, last, dead, bond, rc>>, OpensNone,
               reader # 0 => /\ conns'[reader].authorized = conns[reader].authorized
                             /\ bond \in {"configure", "subscribe"} => conns'[reader].unread = conns[reader].unread
        PROVE BondInv'
    <3>1. ~Open(reader) => ~Open(reader)'
      BY <2>2, <2>8 DEF OpensNone, Open
    <3>2. reader # 0 => conns'[reader].authorized = conns[reader].authorized
      BY <2>8
    <3>3. bond \in {"configure", "subscribe"} => reader # 0 /\ conns'[reader].unread = conns[reader].unread
      BY <1>1, <2>8 DEF BondInv
    <3> QED
      BY <1>1, <2>8, <3>1, <3>2, <3>3 DEF BondInv, Bonding
  <2>9. ASSUME CoinStops \/ CoinStarts \/ UNCHANGED vars \/ \E c \in Conns : CoinSendsJob(c) \/ CoinEnds(c) PROVE BondInv'
    <3>1. UNCHANGED <<conn, reader, en, last, dead, bond, rc>>
      BY <2>9 DEF CoinStops, CoinStarts, CoinSendsJob, CoinEnds, vars, backendVars
    <3>2. OpensNone
      BY <2>9, <3>1, ConnsStep DEF Dial, DialInto, Free, CoinStops, CoinStarts, CoinSendsJob, CoinEnds, vars, backendVars, OpensNone, Open
    <3>3. CASE conns' = conns
      BY <2>8, <3>1, <3>2, <3>3
    <3>4. CASE CoinStops \/ \E c \in Conns : CoinEnds(c)
      <4>1. reader # 0 => conns'[reader].authorized = conns[reader].authorized /\ conns'[reader].unread = conns[reader].unread
        <5>1. CASE CoinStops
          BY <1>1, <2>2, <5>1 DEF CoinStops, ConnsOK
        <5>2. ASSUME NEW c \in Conns, CoinEnds(c)
              PROVE  reader # 0 => conns'[reader].authorized = conns[reader].authorized /\ conns'[reader].unread = conns[reader].unread
          BY <1>1, <2>2, <5>2 DEF CoinEnds, ConnsOK
        <5> QED
          BY <3>4, <5>1, <5>2
      <4> QED
        BY <2>8, <3>1, <3>2, <4>1
    <3>5. ASSUME NEW c \in Conns, CoinSendsJob(c) PROVE BondInv'
      <4>1. conns[c].authorized /\ conns' = Sent(c, "job")
        BY <3>5 DEF CoinSendsJob
      <4>2. bond \in {"configure", "subscribe"} => c # reader
        BY <1>1, <4>1 DEF BondInv
      <4>3. "job" \in Lines
        BY DEF Lines
      <4>4. conns'[c].authorized = conns[c].authorized
        BY <1>1, <4>1, <4>3, SentEffect
      <4>5. \A d \in Conns : d # c => conns'[d] = conns[d]
        BY <1>1, <4>1 DEF Sent, ConnsOK
      <4> QED
        BY <2>2, <2>8, <3>1, <3>2, <4>2, <4>4, <4>5
    <3> QED
      BY <2>9, <3>3, <3>4, <3>5 DEF CoinStarts, vars, backendVars
  <2> QED
    BY <2>1, <2>3, <2>4, <2>5, <2>6, <2>7, <2>9 DEF Connect
<1> QED
  BY <1>2, <1>3

-----------------------------------------------------------------------------
(* Open sockets *)

NoDial == \A t \in {"bond", "rc"} : ~Dial(t)

\* Without a dial the backend's connection stays shut once it is.
LEMMA ShutStays ==
  ASSUME BackendInv, [Next]_vars, NoDial
  PROVE  reader' = reader /\ OpensNone /\ (~Open(reader) => ~Open(reader)')
<1>1. reader' = reader /\ OpensNone /\ NumbersOK
  BY ReaderStep, ConnsStep DEF NoDial, BackendInv
<1>2. reader # 0 => reader \in Conns
  BY <1>1, BackendAssumption DEF NumbersOK, Conns
<1> QED
  BY <1>1, <1>2 DEF OpensNone, Open

LEMMA ClosedReader ==
  ASSUME BackendInv, reader' = reader, conns' = Closed
  PROVE  ~Open(reader)'
<1>1. NumbersOK /\ OpenInv /\ ConnsOK
  BY DEF BackendInv
<1>2. CASE conn = 0
  BY <1>1, <1>2 DEF Closed, OpenInv, Open
<1>3. CASE conn # 0
  BY <1>1, <1>3, ClosedEffect DEF NumbersOK, Open
<1> QED
  BY <1>2, <1>3

\* Whoever gives the connection up closes it.
LEMMA ConnStep ==
  ASSUME BackendInv, [Next]_vars, NoDial
  PROVE  conn' = conn \/ ~Open(reader)'
<1>1. conn' = conn \/ conns' = Closed
  BY DEF NoDial, Next, Connect, DialFails, ReadConfigured, ReadSubscribed, ReadFails, Start, MinerAuthorizes, SessionEnds,
       CloseBackend, RunReads, RunEnds, Reconnect, Wake, Stop, Reauthorize, JobCame, NoJobCame, Dropped, Clear, CoinSendsJob,
       CoinEnds, CoinStops, CoinStarts, vars, backendVars
<1> QED
  BY <1>1, ShutStays, ClosedReader

\* What is true when Reconnect goes to sleep beside a dead backend.
Given == ~Open(reader)' \/ (runs'[reader] = 0 /\ torn')

LEMMA SleepStep ==
  ASSUME BackendInv, [Next]_vars, NoDial, rc' = "sleep", dead'
  PROVE  (rc = "sleep" /\ dead /\ runs' = runs) \/ Given
<1>1. PlacesOK /\ ReadInv /\ BondInv /\ OpenInv /\ reader' = reader /\ (~Open(reader) => ~Open(reader)')
  BY ShutStays DEF BackendInv
<1>2. CASE Connect("bond")
  <2>1. Bonding /\ rc' = rc
    BY <1>2 DEF NoDial, Connect, DialFails, ReadConfigured, ReadSubscribed, ReadFails, Fails, At, Goto, Bonding
  <2> QED
    BY <1>1, <2>1 DEF PlacesOK
<1>3. ASSUME rc \in Connecting, UNCHANGED runs, ~torn' => ~Open(reader) PROVE Given
  BY <1>1, <1>3 DEF ReadInv, Given
<1>4. CASE Connect("rc")
  <2>1. CASE DialFails("rc")
    BY <1>1, <1>3, <2>1 DEF DialFails, At, Connecting, OpenInv, ghostVars
  <2>2. CASE ReadConfigured("rc")
    BY <2>2 DEF ReadConfigured, Goto
  <2>3. CASE ReadSubscribed("rc")
    BY <1>3, <2>3 DEF ReadSubscribed, Fails, At, Goto, Connecting
  <2>4. CASE ReadFails("rc")
    BY <1>1, <2>4 DEF ReadFails, Given
  <2> QED
    BY <1>4, <2>1, <2>2, <2>3, <2>4 DEF Connect, NoDial
<1>5. CASE Start
  BY <1>1, <1>5 DEF Start, backendVars, BondInv, Given
<1>6. CASE \E c \in 0..MaxConns : RunEnds(c)
  BY <1>1, <1>6, RunEndsEffect DEF Given
<1>7. CASE \E c \in 0..MaxConns : RunReads(c)
  <2>1. runs' = runs
    BY <1>7, RunReadsEffect
  <2> QED
    BY <1>7, <2>1 DEF RunReads
<1>8. CASE Reauthorize
  BY <1>1, <1>8, ClosedReader DEF Reauthorize, Given
<1>9. CASE NoJobCame
  BY <1>1, <1>9, ClosedReader DEF NoJobCame, Dropped, Given
<1>10. CASE Clear
  BY <1>10 DEF Clear
<1>11. CASE Wake \/ Stop \/ JobCame
  BY <1>11 DEF Wake, Stop, JobCame
<1> QED
  BY <1>2, <1>4, <1>5, <1>6, <1>7, <1>8, <1>9, <1>10, <1>11
     DEF Next, Reconnect, MinerAuthorizes, SessionEnds, CloseBackend, CoinSendsJob, CoinEnds, CoinStops, CoinStarts,
         vars, backendVars

LEMMA GhostStep ==
  ASSUME BackendInv, [Next]_vars
  PROVE  (torn => torn') /\ (lateDial => lateDial')
<1>1. ASSUME NEW t \in {"bond", "rc"}, Connect(t) PROVE (torn => torn') /\ (lateDial => lateDial')
  <2>1. CASE Dial(t)
    BY <2>1 DEF Dial
  <2>2. CASE DialFails(t)
    BY <2>2 DEF DialFails, ghostVars
  <2>5. CASE ReadConfigured(t)
    BY <2>5 DEF ReadConfigured, ghostVars
  <2>3. CASE ReadSubscribed(t)
    BY <2>3 DEF ReadSubscribed, Fails
  <2>4. CASE ReadFails(t)
    BY <2>4 DEF ReadFails, Fails
  <2> QED
    BY <1>1, <2>1, <2>2, <2>3, <2>4, <2>5 DEF Connect
<1>2. CASE ~Connect("bond") /\ ~Connect("rc")
  BY <1>2 DEF Next, Start, MinerAuthorizes, SessionEnds, CloseBackend, RunReads, RunEnds, Reconnect, Wake, Stop,
     Reauthorize, JobCame, NoJobCame, Clear, CoinSendsJob, CoinEnds, CoinStops, CoinStarts, vars, ghostVars
<1> QED
  BY <1>1, <1>2

LEMMA DialStep ==
  ASSUME BackendInv, [Next]_vars, NoDial, rc' = "dial"
  PROVE  rc = "dial" \/ (rc = "sleep" /\ dead)
<1>1. CASE Connect("bond")
  BY <1>1 DEF NoDial, Connect, DialFails, ReadConfigured, ReadSubscribed, ReadFails, Fails, Goto
<1>2. CASE Connect("rc")
  BY <1>2 DEF NoDial, Connect, DialFails, ReadConfigured, ReadSubscribed, ReadFails, Fails, Goto
<1> QED
  BY <1>1, <1>2
     DEF Next, Start, MinerAuthorizes, SessionEnds, CloseBackend, RunReads, RunEnds, Reconnect, Wake, Stop, Reauthorize,
         JobCame, NoJobCame, Clear, CoinSendsJob, CoinEnds, CoinStops, CoinStarts, vars

LEMMA GoneStep ==
  ASSUME BackendInv, [Next]_vars, NoDial, bond' = "gone"
  PROVE  bond = "gone" \/ ~Open(reader)'
<1>1. CASE Connect("bond")
  BY <1>1 DEF NoDial, Connect, DialFails, ReadConfigured, ReadSubscribed, ReadFails, Fails, Goto
<1>2. CASE Connect("rc")
  BY <1>2 DEF NoDial, Connect, DialFails, ReadConfigured, ReadSubscribed, ReadFails, Fails, Goto
<1>3. CASE CloseBackend
  BY <1>3, ClosedReader DEF CloseBackend
<1> QED
  BY <1>1, <1>2, <1>3
     DEF Next, Start, MinerAuthorizes, SessionEnds, RunReads, RunEnds, Reconnect, Wake, Stop, Reauthorize,
         JobCame, NoJobCame, Clear, CoinSendsJob, CoinEnds, CoinStops, CoinStarts, vars

LEMMA OpenStep ==
  ASSUME BackendInv, [Next]_vars
  PROVE  OpenInv'
<1>1. OpenInv /\ NumbersOK /\ NumbersOK' /\ PlacesOK /\ PlacesOK' /\ BondInv /\ (torn => torn') /\ (lateDial => lateDial')
  BY NumbersStep, PlacesStep, GhostStep DEF BackendInv
\* A new connection: the one before, which it replaces, was not open.
<1>2. ASSUME NEW t \in {"bond", "rc"}, Dial(t) PROVE OpenInv'
  <2>1. /\ reader' \in Conns /\ conn' = reader'
        /\ \A d \in Conns : d # reader' => conns'[d] = conns[d]
    BY <1>2, DialEffect
  <2>2. /\ rc' \notin {"sleep", "dial"} /\ UNCHANGED <<torn, closed>> /\ lateDial' = (lateDial \/ closed)
        /\ t = "bond" => bond = "dial" /\ bond' = "configure"
        /\ t = "rc" => rc = "dial"
    <3>1. CASE t = "bond"
      <4>1. rc = "off"
        BY <1>1, <1>2, <3>1 DEF Dial, At, PlacesOK, Bonding
      <4> QED
        BY <1>2, <3>1, <4>1 DEF Dial, At, Goto
    <3>2. CASE t = "rc"
      BY <1>2, <3>2 DEF Dial, At, Goto
    <3> QED
      BY <3>1, <3>2
  <2>3. 0 \notin Conns
    BY BackendAssumption DEF Conns
  <2>4. ~torn' => \A c \in Conns : Open(c)' => c = reader'
    <3>1. ~torn => ~Open(reader)
      BY <1>1, <2>2 DEF OpenInv, BondInv, Open
    <3> QED
      BY <1>1, <2>1, <2>2, <2>3, <3>1 DEF OpenInv, Open
  <2>5. bond' = "gone" => lateDial'
    <3>1. bond' = "gone" => closed'
      BY <1>1 DEF PlacesOK
    <3> QED
      BY <2>2, <3>1
  <2> QED
    BY <2>1, <2>2, <2>3, <2>4, <2>5 DEF OpenInv
<1>3. ASSUME NoDial PROVE OpenInv'
  <2>1. reader' = reader /\ OpensNone /\ (~Open(reader) => ~Open(reader)')
    BY <1>3, ShutStays
  <2>2. conn' = 0 => ~Open(reader)'
    BY <1>1, <1>3, <2>1, ConnStep DEF OpenInv
  <2>3. rc' = "sleep" /\ dead' => (rc = "sleep" /\ dead /\ runs' = runs) \/ Given
    BY <1>3, SleepStep
  <2>4. rc' = "sleep" /\ dead' => runs'[reader] = 0 \/ ~Open(reader)'
    BY <1>1, <2>1, <2>3 DEF OpenInv, Given
  <2>5. ~torn' => \A c \in Conns : Open(c)' => c = reader'
    BY <1>1, <2>1 DEF OpenInv, OpensNone
  <2>6. ~torn' /\ rc' = "sleep" /\ dead' => ~Open(reader)'
    BY <1>1, <2>1, <2>3 DEF OpenInv, Given
  <2>7. ~torn' /\ rc' = "dial" => ~Open(reader)'
    BY <1>1, <1>3, <2>1, DialStep DEF OpenInv
  <2>8. ~torn' /\ bond' = "gone" /\ ~lateDial' => ~Open(reader)'
    BY <1>1, <1>3, <2>1, GoneStep DEF OpenInv
  <2> QED
    BY <2>1, <2>2, <2>4, <2>5, <2>6, <2>7, <2>8 DEF OpenInv
<1> QED
  BY <1>2, <1>3 DEF NoDial

-----------------------------------------------------------------------------
(* Alive *)

LEMMA ReconnectConnects ==
  ASSUME BackendInv, Connect("rc")
  PROVE  /\ rc \in Connecting /\ rc # "authorize" /\ rc' \in Connecting \cup {"sleep"}
         /\ UNCHANGED <<dead, firstJob, bond, last, lateDeath, runs>>
         /\ rc' = "authorize" => en' = reader'
<1>1. CASE Dial("rc")
  BY <1>1 DEF Dial, At, Goto, Connecting
<1>2. CASE DialFails("rc")
  BY <1>2 DEF DialFails, At, Connecting, Goto, ghostVars
<1>3. CASE ReadConfigured("rc")
  BY <1>3 DEF ReadConfigured, At, Goto, Connecting, ghostVars
<1>4. CASE ReadSubscribed("rc")
  BY <1>4 DEF ReadSubscribed, Fails, At, Goto, Connecting
<1>5. CASE ReadFails("rc")
  BY <1>5 DEF ReadFails, Fails, At, Goto, Connecting
<1> QED
  BY <1>1, <1>2, <1>3, <1>4, <1>5 DEF Connect

LEMMA AliveStep ==
  ASSUME BackendInv, [Next]_vars
  PROVE  AliveInv'
<1>1. AliveInv /\ NumbersOK /\ PlacesOK /\ PlacesOK' /\ BondInv /\ ReadInv
  BY PlacesStep DEF BackendInv
<1>2. ASSUME UNCHANGED <<rc, dead, firstJob, en, reader, last, runs, lateDeath>>, Bonding' <=> Bonding PROVE AliveInv'
  BY <1>1, <1>2 DEF AliveInv
<1>3. CASE Connect("bond")
  <2>1. Bonding /\ rc' = rc
    BY <1>3 DEF Connect, Dial, DialFails, ReadConfigured, ReadSubscribed, ReadFails, Fails, At, Goto, Bonding
  <2>2. rc' = "off" /\ Bonding'
    BY <1>1, <2>1 DEF PlacesOK
  <2> QED
    BY <2>2 DEF AliveInv, Connecting
<1>4. CASE Connect("rc")
  <2>1. /\ rc' \in Connecting \cup {"sleep"} /\ dead' /\ ~firstJob'
        /\ rc' = "authorize" => en' = reader'
    BY <1>1, <1>4, ReconnectConnects DEF AliveInv
  <2> QED
    BY <2>1 DEF AliveInv, Connecting
<1>5. CASE Start
  <2>1. rc' = "sleep" /\ UNCHANGED <<dead, en, last, reader, lateDeath>>
    BY <1>5 DEF Start, backendVars, ghostVars
  <2>2. Bonding /\ bond = "start" /\ runs[reader] = 0
    BY <1>1, <1>5 DEF Start, Bonding, ReadInv
  <2>3. last = 0 /\ (~dead => en = reader)
    BY <1>1, <2>2 DEF BondInv
  <2>4. runs'[reader] = 1
    BY <1>5, <2>1, <2>2, StartEffect DEF Start
  <2> QED
    BY <2>1, <2>3, <2>4 DEF AliveInv, Connecting
<1>6. CASE MinerAuthorizes \/ SessionEnds \/ CloseBackend \/ CoinStops \/ CoinStarts
           \/ \E c \in Conns : CoinSendsJob(c) \/ CoinEnds(c)
  BY <1>2, <1>6 DEF MinerAuthorizes, SessionEnds, CloseBackend, CoinStops, CoinStarts, CoinSendsJob, CoinEnds,
     backendVars, ghostVars, Bonding
<1>7. ASSUME NEW c \in 0..MaxConns, RunReads(c) PROVE AliveInv'
  <2>1. c = reader /\ runs[reader] = 1 /\ ~Bonding /\ rc \notin Connecting /\ runs' = runs
    BY <1>7, RunReadsEffect
  <2>2. /\ UNCHANGED <<reader, en, dead, bond, rc, lateDeath>>
        /\ (last' = reader /\ firstJob') \/ (last' = last /\ firstJob' = firstJob)
    BY <1>7, <2>1 DEF RunReads, ghostVars
  <2> QED
    BY <1>1, <2>1, <2>2 DEF AliveInv, Bonding
<1>8. ASSUME NEW c \in 0..MaxConns, RunEnds(c) PROVE AliveInv'
  <2>1. c = reader /\ rc \notin Connecting
    BY <1>8, RunEndsEffect
  <2>2. /\ UNCHANGED <<reader, en, last, firstJob, bond, rc>> /\ dead'
        /\ rc \in {"wait", "clear"} /\ firstJob => lateDeath'
    BY <1>8, <2>1 DEF RunEnds, MarksDead
  <2> QED
    BY <1>1, <2>1, <2>2 DEF AliveInv
<1>9. CASE Wake
  BY <1>1, <1>9 DEF Wake, Rearmed, AliveInv, Connecting
<1>10. CASE Stop
  <2>1. rc' = "gone" /\ rc = "sleep" /\ UNCHANGED <<dead, en, reader, last, runs, lateDeath, bond>>
    BY <1>10 DEF Stop, backendVars, ghostVars
  <2> QED
    BY <1>1, <2>1 DEF AliveInv, Connecting, Bonding
<1>11. CASE Reauthorize
  <2>1. rc = "authorize" /\ rc' \in {"wait", "sleep"} /\ UNCHANGED <<dead, firstJob, en, reader>>
    BY <1>11 DEF Reauthorize
  <2> QED
    BY <1>1, <2>1 DEF AliveInv, Connecting
<1>12. CASE JobCame
  <2>1. rc = "wait" /\ rc' = "clear" /\ firstJob /\ UNCHANGED <<dead, firstJob, en, reader, last, runs, lateDeath>>
    BY <1>12 DEF JobCame, backendVars, ghostVars
  <2> QED
    BY <1>1, <2>1 DEF AliveInv, Connecting
<1>13. CASE NoJobCame
  <2>1. rc = "wait" /\ rc' = "sleep" /\ UNCHANGED dead
    BY <1>13 DEF NoJobCame
  <2> QED
    BY <1>1, <2>1 DEF AliveInv, Connecting
\* The only step that clears dead.
<1>14. CASE Clear
  <2>1. rc = "clear" /\ rc' = "sleep" /\ UNCHANGED <<en, reader, last, runs, lateDeath>>
    BY <1>14 DEF Clear, ghostVars
  <2> QED
    BY <1>1, <2>1 DEF AliveInv, Connecting
<1>15. CASE UNCHANGED vars
  BY <1>2, <1>15 DEF vars, backendVars, ghostVars, Bonding
<1> QED
  BY <1>3, <1>4, <1>5, <1>6, <1>7, <1>8, <1>9, <1>10, <1>11, <1>12, <1>13, <1>14, <1>15 DEF Next, Reconnect

-----------------------------------------------------------------------------
LEMMA BackendInit == Init => BackendInv
<1> SUFFICES ASSUME Init PROVE BackendInv
  OBVIOUS
<1>1. ConnsOK
  <2>1. Fresh \in [state : {"shut", "open"}, authorized : BOOLEAN, unread : Seq(Lines)]
    BY DEF Fresh
  <2> QED
    BY <2>1 DEF Init, ConnsOK
<1>2. NumbersOK /\ PlacesOK /\ ReadInv
  BY BackendAssumption DEF Init, NumbersOK, PlacesOK, ReadInv, Bonding, Connecting
<1>3. BondInv
  BY DEF Init, BondInv, Bonding
<1>4. OpenInv
  BY DEF Init, OpenInv, Open, Fresh
<1>5. AliveInv
  BY DEF Init, AliveInv, Bonding, Connecting
<1> QED
  BY <1>1, <1>2, <1>3, <1>4, <1>5 DEF BackendInv

LEMMA BackendStep == BackendInv /\ [Next]_vars => BackendInv'
<1> SUFFICES ASSUME BackendInv, [Next]_vars PROVE BackendInv'
  OBVIOUS
<1>1. ConnsOK' /\ NumbersOK' /\ PlacesOK'
  BY ConnsStep, NumbersStep, PlacesStep
<1>2. ReadInv' /\ BondInv' /\ OpenInv' /\ AliveInv'
  BY ReadStep, BondStep, OpenStep, AliveStep
<1> QED
  BY <1>1, <1>2 DEF BackendInv

LEMMA BackendCorrect == Spec => []BackendInv
BY BackendInit, BackendStep, PTL DEF Spec

\* There is never more than one goroutine reading a backend's socket, and it reads the one
\* the backend has, whatever Connect, Run, Reconnect and Close do in between.
THEOREM OneReaderCorrect == Spec => []OneReader
<1>1. BackendInv => OneReader
  BY DEF BackendInv, ReadInv, NumbersOK, OneReader
<1> QED
  BY <1>1, BackendCorrect, PTL

\* A backend that says it is alive is read, and its last job is of the connection whose
\* extranonce the miner would be told.
THEOREM AliveIsReadCorrect == Spec => []AliveIsRead
<1>1. BackendInv => AliveIsRead
  <2> SUFFICES ASSUME BackendInv, ~dead PROVE /\ last \in {0, en}
                                              /\ bond = "up" /\ ~lateDeath => runs[reader] > 0
    BY DEF AliveIsRead
  <2>1. CASE Bonding
    BY <2>1 DEF BackendInv, BondInv, Bonding
  <2>2. CASE ~Bonding
    BY <2>2 DEF BackendInv, AliveInv
  <2> QED
    BY <2>1, <2>2
<1> QED
  BY <1>1, BackendCorrect, PTL

\* Once the session and its goroutines are gone no connection to the coin is open, but for
\* the two ways the code leaves one that torn and lateDial name.
THEOREM NothingLeftOpenCorrect == Spec => []NothingLeftOpen
<1>1. BackendInv => NothingLeftOpen
  BY DEF BackendInv, OpenInv, NothingLeftOpen
<1> QED
  BY <1>1, BackendCorrect, PTL

-----------------------------------------------------------------------------
(* MeshAssign: the user, the balancer and a session's authorize.              *)

AssignShape ==
  /\ DOMAIN rows = Workers /\ DOMAIN choice = Workers
  /\ DOMAIN sess = Workers
  /\ \A w \in Workers : DOMAIN sess[w] = {"pc", "home", "rotation", "active", "plan", "unread"}
  /\ \A w \in Workers : sess[w].pc \in {"off", "lookup", "adopt", "apply", "on"}
  /\ DOMAIN bal = {"pc", "coin", "moved", "halfway"} /\ bal.moved \subseteq DOMAIN bal.coin
  /\ DOMAIN api = {"pc", "worker", "alloc"} /\ api.pc \in {"idle", "saved", "home"}

\* The rotation that goes with an allocation.
RotationOf(alloc) == IF Split(alloc) THEN alloc ELSE {}

\* What holds of a worker on which no two actors have overlapped.
OneActor(w) ==
  ~(UserOn(w) /\ BalOn(w)) /\ ~(UserOn(w) /\ AuthOn(w)) /\ ~(BalOn(w) /\ AuthOn(w))

\* The row is the one the user left.
RowKept(w) == rows[w] = choice[w] \/ (choice[w] = NoRow /\ rows[w] = MeshAuto)

\* The user's request is about the row as it is.
UserInv(w) ==
  UserOn(w) =>
    /\ api.alloc = rows[w] /\ rows[w] \in Allocations
    /\ api.pc = "home" /\ Live(w) => sess[w].rotation = RotationOf(rows[w])

\* The balancer has in hand automatic miners only.
BalInv(w) == BalOn(w) => rows[w] = MeshAuto

\* A session that authorizes has been told the row as it is, and nothing else has been written to it.
AuthInv(w) ==
  AuthOn(w) =>
    /\ sess[w].home = Nowhere /\ sess[w].rotation = {}
    /\ sess[w].pc = "adopt" => rows[w] = NoRow
    /\ sess[w].pc = "apply" /\ ~sess[w].unread /\ rows[w] \in Allocations => sess[w].plan = rows[w]

OnInv(w) ==
  sess[w].pc = "on" /\ ~UserOn(w) /\ rows[w] \in Allocations /\ ~sess[w].unread => Stands(w, rows[w])

WorkerInv(w) == OneActor(w) /\ RowKept(w) /\ UserInv(w) /\ BalInv(w) /\ AuthInv(w) /\ OnInv(w)

AssignInv == \A w \in Workers \ raced : WorkerInv(w)

-----------------------------------------------------------------------------

\* The special rows are no allocations.
LEMMA RowsDiffer ==
  MeshAuto \notin Allocations /\ NoRow \notin Allocations /\ MeshAuto # NoRow /\ {} \notin Allocations
<1>1. {{}, NoRow, MeshAuto} \cap Allocations = {} /\ NoRow # MeshAuto
  BY AssignAssumption
<1> QED
  BY <1>1

\* The coin of a pin is all of it.
LEMMA OnlyCoin ==
  ASSUME NEW alloc \in Allocations, ~Split(alloc)
  PROVE  {CHOOSE c \in alloc : TRUE} = alloc
<1>1. alloc # {}
  BY RowsDiffer
<1>2. (CHOOSE c \in alloc : TRUE) \in alloc
  BY <1>1
<1> QED
  BY <1>2 DEF Split

\* The part of w's session that the actors write.
SameSession(w) ==
  /\ sess'[w].pc = sess[w].pc /\ sess'[w].home = sess[w].home /\ sess'[w].rotation = sess[w].rotation
  /\ sess'[w].plan = sess[w].plan /\ sess'[w].unread = sess[w].unread

\* A worker that a step leaves alone.
LEMMA Untouched ==
  ASSUME NEW v \in Workers, WorkerInv(v), rows'[v] = rows[v], choice'[v] = choice[v], SameSession(v),
         UserOn(v)' <=> UserOn(v), UserOn(v) => api' = api, BalOn(v)' => BalOn(v)
  PROVE  WorkerInv(v)'
<1>1. (AuthOn(v)' <=> AuthOn(v)) /\ (Live(v)' <=> Live(v))
  BY DEF SameSession, AuthOn, Live
<1>2. OneActor(v)' /\ RowKept(v)' /\ BalInv(v)'
  BY <1>1 DEF WorkerInv, OneActor, RowKept, BalInv
<1>3. UserInv(v)'
  BY <1>1 DEF WorkerInv, UserInv, SameSession
<1>4. AuthInv(v)'
  BY <1>1 DEF WorkerInv, AuthInv, SameSession
<1>5. Stands(v, rows[v]) => Stands(v, rows[v])'
  BY DEF SameSession, Stands
<1>6. OnInv(v)'
  BY <1>5 DEF WorkerInv, OnInv, SameSession, Stands
<1> QED
  BY <1>2, <1>3, <1>4, <1>6 DEF WorkerInv

\* At the start every row is the user's choice and no actor is on any worker.
LEMMA AssignInitially == AssignInit => AssignShape /\ AssignInv
<1> SUFFICES ASSUME AssignInit PROVE AssignShape /\ AssignInv
  OBVIOUS
<1>1. rows = choice /\ DOMAIN rows = Workers /\ api = NoRequest /\ bal = NoRound
  BY DEF AssignInit
<1>2. PICK c \in Coins :
        sess = [w \in Workers |-> IF w \in Edited THEN NoSession ELSE [NoSession EXCEPT !.pc = "on", !.active = c]]
  BY DEF AssignInit
<1>3. \A w \in Workers \ Edited : rows[w] = MeshAuto
  BY DEF AssignInit
<1>4. \A w \in Workers : /\ DOMAIN sess[w] = {"pc", "home", "rotation", "active", "plan", "unread"}
                         /\ sess[w].pc = IF w \in Edited THEN "off" ELSE "on"
  BY <1>2 DEF NoSession
<1>5. AssignShape
  BY <1>1, <1>2, <1>4 DEF AssignShape, NoRequest, NoRound
<1>6. \A w \in Workers : ~UserOn(w) /\ ~BalOn(w) /\ ~AuthOn(w)
  BY <1>1, <1>4 DEF UserOn, BalOn, AuthOn, NoRequest, NoRound
<1>7. AssignInv
  BY <1>1, <1>3, <1>4, <1>6, RowsDiffer
     DEF AssignInv, WorkerInv, OneActor, RowKept, UserInv, BalInv, AuthInv, OnInv
<1> QED
  BY <1>5, <1>7

-----------------------------------------------------------------------------
(* The steps *)

\* The fields of the records and the places of the program.
LEMMA AssignShapeStep ==
  ASSUME AssignShape, [AssignNext]_assignVars PROVE AssignShape'
<1> DEFINE Fields == {"pc", "home", "rotation", "active", "plan", "unread"}
           Stages == {"off", "lookup", "adopt", "apply", "on"}
           SessOK == DOMAIN sess = Workers /\ \A w \in Workers : DOMAIN sess[w] = Fields /\ sess[w].pc \in Stages
           BalOK  == DOMAIN bal = {"pc", "coin", "moved", "halfway"} /\ bal.moved \subseteq DOMAIN bal.coin
           ApiOK  == DOMAIN api = {"pc", "worker", "alloc"} /\ api.pc \in {"idle", "saved", "home"}
           RowsOK == DOMAIN rows = Workers /\ DOMAIN choice = Workers
<1>1. AssignShape <=> RowsOK /\ SessOK /\ BalOK /\ ApiOK
  BY DEF AssignShape
<1>2. AssignShape' <=> RowsOK' /\ SessOK' /\ BalOK' /\ ApiOK'
  BY DEF AssignShape
<1>3. RowsOK'
  <2>1. CASE UNCHANGED <<rows, choice>>
    BY <1>1, <2>1
  <2>2. ASSUME NEW w, Unassign(w) PROVE RowsOK'
    BY <1>1, <2>2 DEF Unassign
  <2>3. ASSUME NEW w, NEW alloc, Assign(w, alloc) PROVE RowsOK'
    BY <1>1, <2>3 DEF Assign
  <2>4. ASSUME NEW w, Adopt(w) PROVE RowsOK'
    BY <1>1, <2>4 DEF Adopt
  <2> QED
    <3>1. Balancer => UNCHANGED <<rows, choice>>
      BY DEF Balancer, Gather, Decide, BalReassign
    <3>2. User => RowsOK'
      BY <2>1, <2>2, <2>3 DEF User, SetTarget, SetRotation, SetHome
    <3>3. ASSUME NEW w, Session(w) PROVE RowsOK'
      BY <2>1, <2>4, <3>3 DEF Session, NewSession, Lookup, Apply, Follow, Disconnect, Measure
    <3> QED
      BY <2>1, <3>1, <3>2, <3>3 DEF AssignNext, assignVars, Cools, Follow, CoinDown, CoinUp
<1>4. ApiOK'
  <2>1. CASE UNCHANGED api
    BY <1>1, <2>1
  <2>2. ASSUME NEW w, NEW alloc, Assign(w, alloc) PROVE ApiOK'
    BY <1>1, <2>2 DEF Assign, NoRequest
  <2>3. CASE SetRotation
    BY <1>1, <2>3 DEF SetRotation, NoRequest
  <2>4. CASE SetHome
    BY <1>1, <2>4 DEF SetHome, NoRequest
  <2>5. ASSUME NEW w, Disconnect(w) PROVE ApiOK'
    BY <1>1, <2>5 DEF Disconnect, NoRequest
  <2> QED
    <3>1. Balancer => UNCHANGED api
      BY DEF Balancer, Gather, Decide, BalReassign
    <3>2. User => ApiOK'
      BY <2>1, <2>2, <2>3, <2>4 DEF User, Unassign, SetTarget
    <3>3. ASSUME NEW w, Session(w) PROVE ApiOK'
      BY <2>1, <2>5, <3>3 DEF Session, NewSession, Lookup, Adopt, Apply, Follow, Measure
    <3> QED
      BY <2>1, <3>1, <3>2, <3>3 DEF AssignNext, assignVars, Cools, Follow, CoinDown, CoinUp
<1>5. BalOK'
  <2>1. CASE UNCHANGED bal
    BY <1>1, <2>1
  <2>2. ASSUME NEW misread, Gather(misread) PROVE BalOK'
    BY <2>2 DEF Gather
  <2>3. ASSUME NEW misread, Decide(misread) PROVE BalOK'
    BY <2>3 DEF Decide, NoRound
  <2>4. ASSUME NEW w, BalReassign(w) PROVE BalOK'
    <3>1. CASE bal' = [bal EXCEPT !.halfway = w]
      BY <1>1, <3>1
    <3>2. CASE bal' = Done(w)
      BY <3>2 DEF NoRound, Done
    <3> QED
      BY <2>4, <3>1, <3>2 DEF BalReassign
  <2>5. ASSUME NEW w, Disconnect(w) PROVE BalOK'
    BY <1>1, <2>5 DEF Disconnect, Done, NoRound
  <2> QED
    <3>1. Balancer => BalOK'
      BY <2>2, <2>3, <2>4 DEF Balancer
    <3>2. User => UNCHANGED bal
      BY DEF User, Unassign, Assign, SetRotation, SetHome, SetTarget
    <3>3. ASSUME NEW w, Session(w) PROVE BalOK'
      BY <2>1, <2>5, <3>3 DEF Session, NewSession, Lookup, Adopt, Apply, Follow, Measure
    <3> QED
      BY <2>1, <3>1, <3>2, <3>3 DEF AssignNext, assignVars, Cools, Follow, CoinDown, CoinUp
<1>6. SessOK'
  <2>1. CASE UNCHANGED sess
    BY <1>1, <2>1
  <2>2. ASSUME NEW w, BalReassign(w) PROVE SessOK'
    BY <1>1, <2>2 DEF BalReassign
  <2>3. CASE SetRotation
    BY <1>1, <2>3 DEF SetRotation
  <2>4. CASE SetHome
    BY <1>1, <2>4 DEF SetHome
  <2>5. ASSUME NEW w, NewSession(w) PROVE SessOK'
    BY <1>1, <2>5 DEF NewSession, NoSession
  <2>6. ASSUME NEW w, NEW fails, Lookup(w, fails) PROVE SessOK'
    BY <1>1, <2>6 DEF Lookup
  <2>7. ASSUME NEW w, Adopt(w) PROVE SessOK'
    BY <1>1, <2>7 DEF Adopt
  <2>8. ASSUME NEW w, Apply(w) PROVE SessOK'
    BY <1>1, <2>8 DEF Apply
  <2>9. ASSUME NEW w, Follow(w) PROVE SessOK'
    BY <1>1, <2>9 DEF Follow
  <2>10. ASSUME NEW w, Disconnect(w) PROVE SessOK'
    BY <1>1, <2>10 DEF Disconnect, NoSession
  <2>11. ASSUME NEW c, CoinDown(c) PROVE SessOK'
    BY <1>1, <2>11 DEF CoinDown
  <2> QED
    BY <2>1, <2>2, <2>3, <2>4, <2>5, <2>6, <2>7, <2>8, <2>9, <2>10, <2>11
       DEF AssignNext, assignVars, Balancer, User, Session, Gather, Decide, Cools, Unassign, Assign,
       SetTarget, CoinUp, Measure
<1> QED
  BY <1>2, <1>3, <1>4, <1>5, <1>6

\* A round: Gather makes the balancer an actor on automatic miners only.
LEMMA AssignRound ==
  ASSUME AssignShape, AssignInv, NEW v \in Workers, v \notin raced',
         NEW misread, Gather(misread) \/ Decide(misread)
  PROVE  WorkerInv(v)'
<1>1. CASE Gather(misread)
  <2> DEFINE taking == {w \in Workers \ misread : Live(w) /\ rows[w] = MeshAuto}
  <2>1. /\ bal' = [pc |-> "gathered", coin |-> [w \in taking |-> sess[w].active], moved |-> {}, halfway |-> Nowhere]
        /\ raced' = raced \cup {w \in taking : UserOn(w) \/ AuthOn(w)}
        /\ UNCHANGED <<rows, sess, api, choice>>
    BY <1>1 DEF Gather
  <2>2. WorkerInv(v)
    BY <2>1 DEF AssignInv
  <2>3. /\ UserOn(v)' <=> UserOn(v)
        /\ AuthOn(v)' <=> AuthOn(v)
        /\ SameSession(v)
    BY <2>1 DEF UserOn, AuthOn, SameSession
  <2>4. BalOn(v)' <=> v \in taking
    BY <2>1 DEF BalOn
  <2>5. CASE v \in taking
    <3>1. ~UserOn(v) /\ ~AuthOn(v) /\ rows'[v] = MeshAuto /\ RowKept(v)'
      BY <2>1, <2>2, <2>5 DEF WorkerInv, RowKept
    <3> QED
      BY <2>3, <3>1, RowsDiffer DEF WorkerInv, OneActor, UserInv, BalInv, AuthInv, OnInv
  <2>6. CASE v \notin taking
    BY <2>1, <2>2, <2>3, <2>4, <2>6, Untouched
  <2> QED
    BY <2>5, <2>6
<1>2. CASE Decide(misread)
  <2>1. UNCHANGED <<rows, sess, api, choice, raced>>
    BY <1>2 DEF Decide
  <2>2. BalOn(v)' => BalOn(v)
    <3> DEFINE miners == DOMAIN bal.coin
    <3>1. \/ bal' = NoRound
          \/ \E moved, at : /\ moved \subseteq miners
                            /\ bal' = [pc |-> "reassign", coin |-> [w \in moved |-> at[w]], moved |-> moved,
                                       halfway |-> Nowhere]
      <4> DEFINE start == Round([w \in miners |-> StartOf(w, Automatic(misread))], Movable)
                 placed == {w \in miners \cap Automatic(misread) : placement[w] # Nowhere}
                 Moved(g) == {w \in miners : g.at[w] # start.at[w]} \cup (miners \ placed)
      <4>1. PICK g \in RoundOutcomes(start) :
              bal' = IF Moved(g) = {} THEN NoRound
                     ELSE [pc |-> "reassign", coin |-> [w \in Moved(g) |-> g.at[w]], moved |-> Moved(g), halfway |-> Nowhere]
        BY <1>2 DEF Decide
      <4>2. Moved(g) \subseteq miners
        OBVIOUS
      <4> DEFINE moved == Moved(g)
                 at == g.at
      <4>3. /\ moved \subseteq miners
            /\ bal' = IF moved = {} THEN NoRound
                      ELSE [pc |-> "reassign", coin |-> [w \in moved |-> at[w]], moved |-> moved, halfway |-> Nowhere]
        BY <4>1, <4>2
      <4> HIDE DEF moved, at, Moved
      <4>4. CASE moved = {}
        BY <4>3, <4>4
      <4>5. CASE moved # {}
        <5>1. bal' = [pc |-> "reassign", coin |-> [w \in moved |-> at[w]], moved |-> moved, halfway |-> Nowhere]
          BY <4>3, <4>5
        <5> QED
          BY <4>3, <5>1, Zenon
      <4> QED
        BY <4>4, <4>5
    <3> QED
      BY <3>1 DEF BalOn, NoRound
  <2>3. SameSession(v) /\ (UserOn(v)' <=> UserOn(v)) /\ WorkerInv(v)
    BY <2>1 DEF SameSession, UserOn, AssignInv
  <2> QED
    BY <2>1, <2>2, <2>3, Untouched
<1> QED
  BY <1>1, <1>2

\* A round that goes on without a worker has no others in hand.
LEMMA DoneEnds ==
  ASSUME AssignShape, NEW w, NEW v, bal' = Done(w), BalOn(v)'
  PROVE  BalOn(v)
BY DEF BalOn, Done, NoRound, AssignShape

\* Its writes go to miners it has in hand, which are automatic.
LEMMA AssignBalReassign ==
  ASSUME AssignShape, AssignInv, NEW v \in Workers, v \notin raced', NEW w \in Workers, BalReassign(w)
  PROVE  WorkerInv(v)'
<1>1. UNCHANGED <<rows, api, choice, raced>> /\ w \in bal.moved
  BY DEF BalReassign
<1>2. WorkerInv(v) /\ (UserOn(v)' <=> UserOn(v))
  BY <1>1 DEF AssignInv, UserOn
<1>3. BalOn(v)' => BalOn(v)
  <2>1. CASE bal' = [bal EXCEPT !.halfway = w]
    BY <2>1 DEF BalOn, AssignShape
  <2>2. CASE bal' = Done(w)
    BY <2>2, DoneEnds
  <2> QED
    BY <2>1, <2>2 DEF BalReassign
<1>4. CASE v = w
  <2>1. BalOn(v)
    BY <1>1, <1>4 DEF BalOn, AssignShape
  <2>2. rows[v] = MeshAuto /\ ~UserOn(v) /\ ~AuthOn(v)
    BY <1>2, <2>1 DEF WorkerInv, BalInv, OneActor
  <2>3. sess'[v].pc = sess[v].pc
    BY <1>4 DEF BalReassign, AssignShape
  <2>4. ~AuthOn(v)'
    BY <2>2, <2>3 DEF AuthOn
  <2> QED
    BY <1>1, <1>2, <2>2, <2>4, RowsDiffer DEF WorkerInv, OneActor, RowKept, UserInv, BalInv, AuthInv, OnInv
<1>5. CASE v # w
  <2>1. SameSession(v)
    BY <1>5 DEF BalReassign, AssignShape, SameSession
  <2> QED
    BY <1>1, <1>2, <1>3, <2>1, Untouched
<1> QED
  BY <1>4, <1>5

\* No actor is on v when the user's request begins without a race.
LEMMA AssignEdit ==
  ASSUME AssignShape, AssignInv, NEW v \in Workers, v \notin raced', NEW w \in Workers,
         NEW alloc \in Allocations \cup {MeshAuto}, Unassign(w) \/ Assign(w, alloc)
  PROVE  WorkerInv(v)'
<1>1. /\ api.pc = "idle" /\ UNCHANGED <<sess, bal>>
      /\ raced' = IF BalOn(w) \/ AuthOn(w) THEN raced \cup {w} ELSE raced \ {w}
  BY DEF Unassign, Assign
<1>2. /\ ~UserOn(v) /\ (BalOn(v)' <=> BalOn(v)) /\ (AuthOn(v)' <=> AuthOn(v)) /\ SameSession(v)
  BY <1>1 DEF UserOn, BalOn, AuthOn, SameSession
<1>3. CASE v = w
  <2>1. ~BalOn(v)' /\ ~AuthOn(v)'
    BY <1>1, <1>2, <1>3
  <2>2. CASE Unassign(w)
    <3>1. rows'[v] = NoRow /\ choice'[v] = NoRow /\ api' = api
      BY <1>3, <2>2 DEF Unassign, AssignShape
    <3>2. ~UserOn(v)'
      BY <1>2, <3>1 DEF UserOn
    <3> QED
      BY <2>1, <3>1, <3>2, RowsDiffer DEF WorkerInv, OneActor, RowKept, UserInv, BalInv, AuthInv, OnInv
  <2>3. CASE Assign(w, alloc)
    <3>1. rows'[v] = alloc /\ choice'[v] = alloc
      BY <1>3, <2>3 DEF Assign, AssignShape
    <3>2. CASE alloc = MeshAuto
      <4>1. ~UserOn(v)'
        BY <2>3, <3>2 DEF Assign, UserOn, NoRequest
      <4> QED
        BY <2>1, <3>1, <3>2, <4>1, RowsDiffer DEF WorkerInv, OneActor, RowKept, UserInv, BalInv, AuthInv, OnInv
    <3>3. CASE alloc # MeshAuto
      <4>1. api' = [pc |-> "saved", worker |-> w, alloc |-> alloc]
        BY <2>3, <3>3 DEF Assign
      <4>2. UserOn(v)' /\ UserInv(v)'
        BY <1>3, <3>1, <3>3, <4>1 DEF UserOn, UserInv
      <4> QED
        BY <2>1, <3>1, <4>2 DEF WorkerInv, OneActor, RowKept, BalInv, AuthInv, OnInv
    <3> QED
      BY <3>2, <3>3
  <2> QED
    BY <2>2, <2>3
<1>4. CASE v # w
  <2>1. WorkerInv(v)
    BY <1>1, <1>4 DEF AssignInv
  <2>2. rows'[v] = rows[v] /\ choice'[v] = choice[v]
    BY <1>4 DEF Unassign, Assign, AssignShape
  <2>3. ~UserOn(v)'
    BY <1>2, <1>4 DEF Unassign, Assign, NoRequest, UserOn
  <2> QED
    BY <1>2, <2>1, <2>2, <2>3, Untouched
<1> QED
  BY <1>3, <1>4

\* The two writes of ReassignWorker: after the second the session stands where the row says.
LEMMA AssignWrites ==
  ASSUME AssignShape, AssignInv, NEW v \in Workers, v \notin raced', SetRotation \/ SetHome
  PROVE  WorkerInv(v)'
<1>1. api.pc \in {"saved", "home"} /\ UNCHANGED <<rows, choice, bal, raced>>
  BY DEF SetRotation, SetHome
<1>2. WorkerInv(v) /\ (BalOn(v)' <=> BalOn(v))
  BY <1>1 DEF AssignInv, BalOn
<1>3. CASE v = api.worker
  <2>1. UserOn(v)
    BY <1>1, <1>3 DEF UserOn
  <2>2. api.alloc = rows[v] /\ rows[v] \in Allocations /\ ~BalOn(v)' /\ ~AuthOn(v)
    BY <1>2, <2>1 DEF WorkerInv, UserInv, OneActor
  <2>3. sess'[v].pc = sess[v].pc
    BY <1>3 DEF SetRotation, SetHome, AssignShape
  <2>4. ~AuthOn(v)' /\ (Live(v)' <=> Live(v)) /\ (~Live(v) => sess[v].pc # "on")
    BY <2>2, <2>3 DEF AuthOn, Live
  <2>5. RowKept(v)' /\ BalInv(v)' /\ AuthInv(v)' /\ OneActor(v)'
    BY <1>1, <1>2, <2>2, <2>4 DEF WorkerInv, RowKept, BalInv, AuthInv, OneActor
  <2>6. CASE SetRotation /\ Live(v)
    <3>0. /\ sess' = [sess EXCEPT ![api.worker].rotation = RotationOf(api.alloc)]
          /\ api' = [api EXCEPT !.pc = "home"]
      BY <1>3, <2>6 DEF SetRotation, RotationOf
    <3>1. sess'[v].rotation = RotationOf(rows[v]) /\ api' = [api EXCEPT !.pc = "home"]
      BY <1>3, <2>2, <3>0 DEF AssignShape
    <3>2. UserOn(v)' /\ api'.alloc = api.alloc
      BY <1>3, <3>1 DEF UserOn, AssignShape
    <3>3. UserInv(v)' /\ OnInv(v)'
      BY <1>1, <2>2, <3>1, <3>2 DEF UserInv, OnInv, RotationOf
    <3> QED
      BY <2>5, <3>3 DEF WorkerInv
  <2>7. CASE SetHome /\ Live(v)
    <3>1. /\ api.pc = "home" /\ sess'[v].rotation = sess[v].rotation /\ sess'[v].home = HomeOf(rows[v])
          /\ api' = NoRequest
      BY <1>3, <2>2, <2>7 DEF SetHome, AssignShape
    <3>2. sess[v].rotation = RotationOf(rows[v])
      BY <1>2, <2>1, <2>7, <3>1 DEF WorkerInv, UserInv
    <3>3. ~UserOn(v)'
      BY <3>1 DEF UserOn, NoRequest
    <3>4. Stands(v, rows[v])'
      <4>1. CASE Split(rows[v])
        BY <1>1, <3>1, <3>2, <4>1 DEF Stands, RotationOf, HomeOf, Split
      <4>2. CASE ~Split(rows[v])
        <5>1. {HomeOf(rows[v])} = rows[v]
          BY <2>2, <4>2, OnlyCoin DEF HomeOf
        <5> QED
          BY <1>1, <3>1, <3>2, <4>2, <5>1 DEF Stands, RotationOf, Split
      <4> QED
        BY <4>1, <4>2
    <3>5. UserInv(v)' /\ OnInv(v)'
      BY <3>3, <3>4 DEF UserInv, OnInv, Stands
    <3> QED
      BY <2>5, <3>5 DEF WorkerInv
  <2>8. CASE ~Live(v)
    <3>1. api' = NoRequest
      BY <1>3, <2>8 DEF SetRotation, SetHome
    <3>2. ~UserOn(v)' /\ sess'[v].pc # "on"
      BY <2>3, <2>4, <2>8, <3>1 DEF UserOn, NoRequest
    <3>3. UserInv(v)' /\ OnInv(v)'
      BY <3>2 DEF UserInv, OnInv
    <3> QED
      BY <2>5, <3>3 DEF WorkerInv
  <2> QED
    BY <2>6, <2>7, <2>8
<1>4. CASE v # api.worker
  <2>1. SameSession(v)
    BY <1>4 DEF SetRotation, SetHome, AssignShape, SameSession
  <2>2. ~UserOn(v) /\ ~UserOn(v)'
    BY <1>4 DEF SetRotation, SetHome, UserOn, NoRequest, AssignShape
  <2> QED
    BY <1>1, <1>2, <2>1, <2>2, Untouched
<1> QED
  BY <1>3, <1>4

\* A step of w's session, seen from another worker.
LEMMA OtherSession ==
  ASSUME AssignInv, NEW v \in Workers, v \notin raced, SameSession(v), UNCHANGED <<api, bal, choice>>,
         rows'[v] = rows[v]
  PROVE  WorkerInv(v)'
<1>1. WorkerInv(v) /\ (UserOn(v)' <=> UserOn(v)) /\ (BalOn(v)' <=> BalOn(v))
  BY DEF AssignInv, UserOn, BalOn
<1> QED
  BY <1>1, Untouched

\* A session that connects while no other actor is on the worker starts from nothing.
LEMMA AssignConnect ==
  ASSUME AssignShape, AssignInv, NEW v \in Workers, v \notin raced', NEW w \in Workers, NewSession(w)
  PROVE  WorkerInv(v)'
<1>1. /\ UNCHANGED <<rows, api, bal, choice>>
      /\ raced' = IF UserOn(w) \/ BalOn(w) THEN raced \cup {w} ELSE raced
  BY DEF NewSession
<1>2. CASE v = w
  <2>1. WorkerInv(v) /\ ~UserOn(v) /\ ~BalOn(v)
    BY <1>1, <1>2 DEF AssignInv
  <2>2. ~UserOn(v)' /\ ~BalOn(v)'
    BY <1>1, <2>1 DEF UserOn, BalOn
  <2>3. sess'[v].pc = "lookup" /\ sess'[v].home = Nowhere /\ sess'[v].rotation = {}
    BY <1>2 DEF NewSession, NoSession, AssignShape
  <2> QED
    BY <1>1, <2>1, <2>2, <2>3 DEF WorkerInv, OneActor, RowKept, UserInv, BalInv, AuthInv, OnInv
<1>3. CASE v # w
  <2>1. SameSession(v)
    BY <1>3 DEF NewSession, SameSession, AssignShape
  <2> QED
    BY <1>1, <2>1, OtherSession
<1> QED
  BY <1>2, <1>3

\* What the lookup tells it is the row, which nobody changes before it is applied.
LEMMA AssignLookup ==
  ASSUME AssignShape, AssignInv, NEW v \in Workers, v \notin raced', NEW w \in Workers,
         NEW fails \in BOOLEAN, Lookup(w, fails)
  PROVE  WorkerInv(v)'
<1>1. sess[w].pc = "lookup" /\ UNCHANGED <<rows, api, bal, choice, raced>>
  BY DEF Lookup
<1>2. CASE v = w
  <2>1. WorkerInv(v) /\ AuthOn(v)
    BY <1>1, <1>2 DEF AssignInv, AuthOn
  <2>2. ~UserOn(v)' /\ ~BalOn(v)' /\ sess[v].home = Nowhere /\ sess[v].rotation = {}
    BY <1>1, <2>1 DEF WorkerInv, OneActor, AuthInv, UserOn, BalOn
  <2>3. /\ sess'[v].pc = IF ~fails /\ rows[v] = NoRow THEN "adopt" ELSE "apply"
        /\ sess'[v].plan = IF fails THEN {} ELSE PlanOf(v)
        /\ sess'[v].unread = fails
        /\ sess'[v].home = sess[v].home /\ sess'[v].rotation = sess[v].rotation
    BY <1>2 DEF Lookup, AssignShape
  <2>4. rows[v] \in Allocations => PlanOf(v) = rows[v]
    BY RowsDiffer DEF PlanOf
  <2>5. AuthInv(v)'
    BY <1>1, <2>2, <2>3, <2>4 DEF AuthInv
  <2> QED
    BY <1>1, <2>1, <2>2, <2>3, <2>5 DEF WorkerInv, OneActor, RowKept, UserInv, BalInv, OnInv
<1>3. CASE v # w
  <2>1. SameSession(v)
    BY <1>3 DEF Lookup, SameSession, AssignShape
  <2> QED
    BY <1>1, <2>1, OtherSession
<1> QED
  BY <1>2, <1>3

\* AUTO is written, if anything, to a worker whose row is still missing.
LEMMA AssignAdopt ==
  ASSUME AssignShape, AssignInv, NEW v \in Workers, v \notin raced', NEW w \in Workers, Adopt(w)
  PROVE  WorkerInv(v)'
<1>1. sess[w].pc = "adopt" /\ UNCHANGED <<api, bal, choice, raced>>
  BY DEF Adopt
<1>2. CASE v = w
  <2>1. WorkerInv(v) /\ AuthOn(v)
    BY <1>1, <1>2 DEF AssignInv, AuthOn
  <2>2. /\ ~UserOn(v)' /\ ~BalOn(v)'
        /\ sess[v].home = Nowhere /\ sess[v].rotation = {} /\ rows[v] = NoRow
    BY <1>1, <1>2, <2>1 DEF WorkerInv, OneActor, AuthInv, UserOn, BalOn
  <2>3. choice[v] = NoRow /\ rows'[v] \in {MeshAuto, NoRow}
    <3>1. choice[v] = NoRow
      BY <2>1, <2>2, RowsDiffer DEF WorkerInv, RowKept
    <3>2. rows' = rows \/ rows' = [rows EXCEPT ![w] = MeshAuto]
      BY DEF Adopt
    <3> QED
      BY <1>2, <2>2, <3>1, <3>2 DEF AssignShape
  <2>4. sess'[v].pc = "apply" /\ sess'[v].home = sess[v].home /\ sess'[v].rotation = sess[v].rotation
    BY <1>2 DEF Adopt, AssignShape
  <2> QED
    BY <1>1, <2>2, <2>3, <2>4, RowsDiffer DEF WorkerInv, OneActor, RowKept, UserInv, BalInv, AuthInv, OnInv
<1>3. CASE v # w
  <2>1. SameSession(v) /\ rows'[v] = rows[v]
    <3>1. PICK includeNew \in BOOLEAN :
            /\ rows' = IF includeNew THEN [rows EXCEPT ![w] = MeshAuto] ELSE rows
            /\ sess' = [sess EXCEPT ![w].pc = "apply",
                  ![w].plan = IF includeNew /\ placement[w] \in Coins THEN {placement[w]} ELSE {}]
      BY DEF Adopt
    <3> QED
      BY <1>1, <1>3, <3>1 DEF SameSession, AssignShape
  <2> QED
    BY <1>1, <2>1, OtherSession
<1> QED
  BY <1>2, <1>3

\* The session takes up what it was told.
LEMMA AssignApply ==
  ASSUME AssignShape, AssignInv, NEW v \in Workers, v \notin raced', NEW w \in Workers, Apply(w)
  PROVE  WorkerInv(v)'
<1>1. sess[w].pc = "apply" /\ UNCHANGED <<rows, api, bal, choice, raced>>
  BY DEF Apply
<1>2. CASE v = w
  <2> DEFINE plan == sess[v].plan
             coin == CHOOSE c \in plan : TRUE
  <2>1. WorkerInv(v) /\ AuthOn(v)
    BY <1>1, <1>2 DEF AssignInv, AuthOn
  <2>2. ~UserOn(v)' /\ ~BalOn(v)' /\ sess[v].home = Nowhere /\ sess[v].rotation = {}
    BY <1>1, <2>1 DEF WorkerInv, OneActor, AuthInv, UserOn, BalOn
  <2>3. sess'[v].pc = "on" /\ sess'[v].unread = sess[v].unread
    BY <1>2 DEF Apply, AssignShape
  <2>4. ASSUME rows[v] \in Allocations, ~sess[v].unread PROVE Stands(v, rows[v])'
    <3>1. plan = rows[v] /\ plan \in Allocations /\ plan # {}
      BY <1>1, <1>2, <2>1, <2>4, RowsDiffer DEF WorkerInv, AuthInv
    <3>2. CASE Split(plan)
      <4>1. sess' = [sess EXCEPT ![w] = [@ EXCEPT !.pc = "on", !.rotation = plan, !.plan = {}]]
        BY <1>2, <3>1, <3>2 DEF Apply
      <4>2. sess'[v].rotation = rows[v] /\ sess'[v].home = Nowhere
        BY <1>2, <2>2, <3>1, <4>1 DEF AssignShape
      <4> QED
        BY <1>1, <3>1, <3>2, <4>2 DEF Stands, Split
    <3>3. CASE ~Split(plan)
      <4>1. ~(plan = {})
        BY <3>1
      <4>2. sess'[v].rotation = {} /\ sess'[v].home = coin
        BY <1>2, <2>2, <3>3, <4>1 DEF Apply, AssignShape
      <4>3. {coin} = rows[v]
        BY <3>1, <3>3, OnlyCoin
      <4> QED
        BY <1>1, <3>1, <3>3, <4>2, <4>3 DEF Stands, Split
    <3> QED
      BY <3>2, <3>3
  <2>5. OnInv(v)'
    BY <1>1, <2>3, <2>4 DEF OnInv, Stands
  <2> QED
    BY <1>1, <2>1, <2>2, <2>3, <2>5 DEF WorkerInv, OneActor, RowKept, UserInv, BalInv, AuthInv, AuthOn
<1>3. CASE v # w
  <2>1. SameSession(v)
    BY <1>3 DEF Apply, SameSession, AssignShape
  <2> QED
    BY <1>1, <2>1, OtherSession
<1> QED
  BY <1>2, <1>3

LEMMA AssignDisconnect ==
  ASSUME AssignShape, AssignInv, NEW v \in Workers, v \notin raced', NEW w \in Workers, Disconnect(w)
  PROVE  WorkerInv(v)'
<1>1. UNCHANGED <<rows, choice, raced>> /\ sess' = [sess EXCEPT ![w] = NoSession]
  BY DEF Disconnect
<1>b. BalOn(v)' => BalOn(v)
  <2>1. CASE bal' = bal
    BY <2>1 DEF BalOn
  <2>2. CASE bal' = Done(w)
    BY <2>2, DoneEnds
  <2> QED
    BY <2>1, <2>2 DEF Disconnect
<1>u. UserOn(v)' => UserOn(v) /\ api' = api
  BY DEF Disconnect, UserOn, NoRequest
<1>2. CASE v = w
  <2>1. WorkerInv(v) /\ (UserOn(v)' => UserOn(v)) /\ (BalOn(v)' => BalOn(v))
    BY <1>1, <1>b, <1>u DEF AssignInv
  <2>2. sess'[v].pc = "off"
    BY <1>1, <1>2 DEF NoSession, AssignShape
  <2>3. ~AuthOn(v)' /\ ~Live(v)'
    BY <2>2 DEF AuthOn, Live
  <2> QED
    BY <1>1, <1>u, <2>1, <2>2, <2>3 DEF WorkerInv, OneActor, RowKept, UserInv, BalInv, AuthInv, OnInv
<1>3. CASE v # w
  <2>1. SameSession(v)
    BY <1>1, <1>3 DEF SameSession, AssignShape
  <2>2. WorkerInv(v)
    BY <1>1 DEF AssignInv
  <2>3. UserOn(v) => api' = api
    BY <1>3 DEF Disconnect, UserOn
  <2>4. UserOn(v)' <=> UserOn(v)
    BY <1>u, <2>3 DEF UserOn
  <2> QED
    BY <1>1, <1>b, <2>1, <2>2, <2>3, <2>4, Untouched
<1> QED
  BY <1>2, <1>3

\* What moves the active coin, and what is about neither rows nor sessions.
LEMMA AssignQuiet ==
  ASSUME AssignShape, AssignInv, NEW v \in Workers, v \notin raced', NEW w, NEW c, NEW t,
         \/ Follow(w) \/ Measure(w) \/ Cools(w)
         \/ CoinDown(c) \/ CoinUp(c) \/ SetTarget(t) \/ UNCHANGED assignVars
  PROVE  WorkerInv(v)'
<1>1. UNCHANGED <<rows, api, bal, choice, raced>>
  BY DEF Follow, Measure, Cools, CoinDown, CoinUp, SetTarget, assignVars
<1>2. SameSession(v)
  <2>1. CASE UNCHANGED sess
    BY <2>1 DEF SameSession
  <2>2. CASE Follow(w)
    BY <2>2 DEF Follow, SameSession, AssignShape
  <2>3. CASE CoinDown(c)
    BY <2>3 DEF CoinDown, SameSession, AssignShape
  <2> QED
    BY <2>1, <2>2, <2>3 DEF Measure, Cools, CoinUp, SetTarget, assignVars
<1> QED
  BY <1>1, <1>2, OtherSession

\* One lemma per group of actions, for each worker they leave unraced.
LEMMA AssignInvStep ==
  ASSUME AssignShape, AssignInv, [AssignNext]_assignVars PROVE AssignInv'
<1> SUFFICES ASSUME NEW v \in Workers, v \notin raced' PROVE WorkerInv(v)'
  BY DEF AssignInv
<1>e. Edited \subseteq Workers
  BY AssignAssumption
<1>1. CASE Balancer
  BY <1>1, AssignRound, AssignBalReassign DEF Balancer
<1>2. CASE User
  BY <1>2, <1>e, AssignEdit, AssignWrites, AssignQuiet DEF User
<1>3. ASSUME NEW w \in Edited, Session(w) PROVE WorkerInv(v)'
  <2>1. w \in Workers
    BY <1>e
  <2>2. ASSUME NEW fails \in IF fleetEvents < MaxFleetEvents THEN BOOLEAN ELSE {FALSE}, Lookup(w, fails)
        PROVE  WorkerInv(v)'
    <3>1. fails \in BOOLEAN
      OBVIOUS
    <3> QED
      BY <2>1, <2>2, <3>1, AssignLookup
  <2> QED
    BY <1>3, <2>1, <2>2, AssignConnect, AssignAdopt, AssignApply, AssignDisconnect, AssignQuiet DEF Session
<1>4. CASE UNCHANGED assignVars
  BY <1>4, AssignQuiet
<1> QED
  BY <1>1, <1>2, <1>3, <1>4, AssignQuiet DEF AssignNext

LEMMA AssignAlways == AssignSpec => [](AssignShape /\ AssignInv)
<1>1. AssignInit => AssignShape /\ AssignInv
  BY AssignInitially
<1>2. AssignShape /\ AssignInv /\ [AssignNext]_assignVars => (AssignShape /\ AssignInv)'
  BY AssignShapeStep, AssignInvStep
<1> QED
  BY <1>1, <1>2, PTL DEF AssignSpec

\* What the user chose for a worker on which no two of the three actors overlapped is what
\* the store keeps and what its session does.
THEOREM ChoiceHeldAlways == AssignSpec => []ChoiceHeld
<1>1. AssignShape /\ AssignInv => ChoiceHeld
  <2> SUFFICES ASSUME AssignShape, AssignInv, NEW w \in Workers \ raced, ~UserOn(w), ~BalOn(w), ~AuthOn(w)
               PROVE  /\ rows[w] = choice[w] \/ (choice[w] = NoRow /\ rows[w] = MeshAuto)
                      /\ rows[w] \in Allocations /\ Live(w) /\ ~sess[w].unread => Stands(w, rows[w])
    BY DEF ChoiceHeld
  <2>1. WorkerInv(w)
    BY DEF AssignInv
  <2>2. Live(w) => sess[w].pc = "on"
    BY DEF Live, AuthOn, AssignShape
  <2> QED
    BY <2>1, <2>2 DEF WorkerInv, RowKept, OnInv
<1> QED
  BY <1>1, AssignAlways, PTL
=============================================================================
