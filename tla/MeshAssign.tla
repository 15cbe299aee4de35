----------------------------- MODULE MeshAssign -----------------------------
(***************************************************************************)
(* Who decides which coin a miner of the mesh works for.  Three actors write *)
(* a session's home and rotation, and none of them holds a lock across what  *)
(* it read and what it writes:                                               *)
(*   - the user, through HandleMeshAssign and HandleMeshUnassign             *)
(*     (coinapi/handlers.go), which save a row of mesh_assignments and then  *)
(*     call ReassignWorker (mesh.go);                                        *)
(*   - the balancer (balancer.go), which gathers the workers whose row says  *)
(*     AUTO, computes a round of moves, and calls ReassignWorker;            *)
(*   - the session's own authorize (relay.go), which asks the lookup that    *)
(*     main.go installs, and that lookup itself writes AUTO for a worker     *)
(*     without a row.                                                        *)
(*                                                                          *)
(* How a session gets to its home or round its rotation is MeshRelay's       *)
(* subject: here it may follow them at any time (Follow).  A session is      *)
(* bonded to every coin of the mesh, and a worker has one session.  Shares   *)
(* of hashrate are kept exact: the floats of balance() times total * 100.    *)
(***************************************************************************)
EXTENDS Integers, FiniteSets, FiniteSetsExt, TLC

CONSTANTS
  Workers,      \* the workers of the mesh
  Edited,       \* those whose row the user changes and whose sessions come and go
  Coins,        \* m.opts.Coins
  Nowhere,      \* no coin: a nil home, an unplaced worker
  NoRow,        \* the worker has no row of mesh_assignments
  MeshAuto,     \* coinapi.MeshAuto
  Allocations,  \* the allocations the user saves: sets of coins (one: a pin)
  Hash,         \* each worker's hashrate
  NetDiff,      \* each coin's network difficulty, 0 when it has not reported it
  Targets,      \* the splits the user sets for the System Mesh, percent per coin
  Tolerance,    \* balanceTolerance, in percent
  MaxMoves,     \* maxMovesPerRound
  MaxEdits,     \* bound: requests of the user
  MaxFleetEvents \* bound: sessions that end, coins that fail, reads that fail

ASSUME AssignAssumption ==
  /\ Edited \subseteq Workers
  /\ Nowhere \notin Coins /\ NoRow # MeshAuto
  /\ Allocations \subseteq SUBSET Coins
  /\ {{}, NoRow, MeshAuto} \cap Allocations = {}
  /\ Hash \in [Workers -> Nat] /\ NetDiff \in [Coins -> Nat]
  /\ Targets \subseteq [Coins -> 0..100]
  /\ Tolerance \in 0..100 /\ MaxMoves \in Nat
  /\ MaxEdits \in Nat /\ MaxFleetEvents \in Nat

Rows == Allocations \cup {NoRow, MeshAuto}

VARIABLES
  rows,       \* mesh_assignments
  target,     \* the System Mesh target; all zeroes when it is not set
  placement,  \* m.placement
  cooling,    \* workers moved less than moveCooldown ago (m.movedAt)
  sess,       \* each worker's session
  api,        \* where the user's request is: HandleMeshAssign, ReassignWorker
  bal,        \* where balance() is, with the miners it gathered
  up,         \* the coins that serve
  measured,   \* workers whose hashrate the scanner or the relay knows
  choice,     \* ghost: what the user last asked for each worker
  raced,      \* ghost: workers on which two of the three actors overlapped
  edits,      \* requests made (bounded)
  fleetEvents \* events happened (bounded)

assignVars == <<rows, target, placement, cooling, sess, api, bal, up, measured,
                choice, raced, edits, fleetEvents>>

\* A session: "off", "lookup" (registered live, its assignment not read yet),
\* "adopt" (no row was found), "apply" (its assignment is in hand), "on".
NoSession == [pc |-> "off", home |-> Nowhere, rotation |-> {}, active |-> Nowhere,
              plan |-> {}, unread |-> FALSE]
Live(w) == sess[w].pc # "off"

NoRequest == [pc |-> "idle", worker |-> Nowhere, alloc |-> NoRow]
NoRound   == [pc |-> "idle", coin |-> <<>>, moved |-> {}, halfway |-> Nowhere]

AssignInit ==
  /\ rows \in {r \in [Workers -> Rows] : \A w \in Workers \ Edited : r[w] = MeshAuto}
  /\ target \in Targets
  /\ placement = [w \in Workers |-> Nowhere]
  /\ cooling = {}
  /\ up = Coins
  /\ \E c \in Coins :
       sess = [w \in Workers |->
                 IF w \in Edited THEN NoSession
                 ELSE [NoSession EXCEPT !.pc = "on", !.active = c]]
  /\ api = NoRequest /\ bal = NoRound
  /\ measured \in {Workers, Workers \ Edited}
  /\ choice = rows /\ raced = {}
  /\ edits = 0 /\ fleetEvents = 0

\* Who is in the middle of something on w.
UserOn(w)   == api.pc # "idle" /\ api.worker = w
BalOn(w)    == w \in DOMAIN bal.coin
AuthOn(w)   == sess[w].pc \in {"lookup", "adopt", "apply"}

-----------------------------------------------------------------------------
(* The arithmetic of a round.  at is where each gathered miner counts.       *)

Sum(f, S) == MapThenSumSet(LAMBDA x : f[x], S)

Arrangements == UNION {[S -> Coins \cup {Nowhere}] : S \in SUBSET Workers}

\* The hashrate of each miner; 0 while nobody has measured it.
Rate(known) == [w \in Workers |-> IF w \in known THEN Hash[w] ELSE 0]

\* Coins given a percentage of the target t.
InTarget(t) == {c \in Coins : t[c] > 0}

\* The deviation of a coin from the target, times total * sum: the hashrate on
\* it as a share of the total, less its percentage as a share of their sum.  A
\* coin outside the target should have none.
Deviation(t, at, hash, c) ==
  Sum(hash, {w \in DOMAIN at : at[w] = c}) * Sum(t, Coins)
    - (IF c \in InTarget(t) THEN t[c] * Sum(hash, DOMAIN at) ELSE 0)

\* difficultyFit: the hashrate of each miner times how much easier its coin is
\* than the hardest in use; 0 when a coin in use has not reported a difficulty.
Fit(at, hash) ==
  LET used == {at[w] : w \in DOMAIN at}
      harder(w) == Cardinality({c \in used : NetDiff[c] > NetDiff[at[w]]})
  IN IF \E c \in used : c \notin Coins \/ NetDiff[c] = 0 THEN 0
     ELSE MapThenSumSet(LAMBDA w : hash[w] * harder(w), DOMAIN at)

\* score(): the squared distance from the target and whether the worst coin is
\* tolerable; unit is the scale of the deviations.  Without hashrate it is 0, 0.
Score(t, at, hash) ==
  LET unit   == Sum(hash, DOMAIN at) * Sum(t, Coins)
      places == InTarget(t) \cup {at[w] : w \in DOMAIN at}
      d      == [c \in places |-> Deviation(t, at, hash, c)]
  IN IF unit = 0 THEN [sq |-> 0, settled |-> TRUE, fit |-> 0, unit |-> 1]
     ELSE [sq      |-> MapThenSumSet(LAMBDA c : d[c] * d[c], places),
           settled |-> \A c \in places : 100 * d[c] \in -Tolerance * unit .. Tolerance * unit,
           fit     |-> Fit(at, hash),
           unit    |-> unit]

\* A round: where each gathered miner counts (at), those that may move (free),
\* the coins the sessions reach (alive), the target and the workers measured.
Rounds == [at : Arrangements, free : SUBSET Workers, alive : SUBSET Coins \ {{}},
           t : Targets, known : {Workers, Workers \ Edited}]
Round(at, free) == [at |-> at, free |-> free, alive |-> up, t |-> target, known |-> measured]

\* Every score there can be (@@ makes TLC compute the table, once).
Scores == [t \in Targets, known \in {Workers, Workers \ Edited}, at \in Arrangements
             |-> Score(t, at, Rate(known))] @@ <<>>
ScoreOf(g) == Scores[g.t, g.known, g.at]

\* The moves open to the round: of a movable miner with a hashrate, to another
\* coin of the target, which its session reaches.
Moves(g) ==
  {o \in {[g EXCEPT !.at[w] = c, !.free = @ \ {w}] :
            w \in g.free \cap g.known \cap DOMAIN g.at, c \in InTarget(g.t) \cap g.alive} : o.at # g.at}

\* Mutant: a move that leaves the score as it was counts as one that helps.
ImprovingOrEqual(g) == {o \in Moves(g) : ScoreOf(o).sq <= ScoreOf(g).sq}

\* Mutant: only a move that brings every coin within the tolerance helps.
Settling(g) == {o \in Moves(g) : ScoreOf(o).settled}

\* Those that help.
Improving(g) == {o \in Moves(g) : ScoreOf(o).sq < ScoreOf(g).sq}

\* Of the moves within tieTolerance (0.02 squared) of the best, those that pair
\* miners and difficulties best; sort.Slice leaves equals in any order.
Chosen(g) ==
  LET options == {[move |-> o, score |-> ScoreOf(o)] : o \in Improving(g)}
      best    == Min({o.score.sq : o \in options})
      near    == {o \in options : 2500 * (o.score.sq - best) <= ScoreOf(g).unit * ScoreOf(g).unit}
      fit     == Min({o.score.fit : o \in near})
      fittest == {o \in near : o.score.fit = fit}
  IN {o.move : o \in {b \in fittest : b.score.sq = Min({c.score.sq : c \in fittest})}}

\* One move of the round: none when every coin is within the tolerance of its
\* target or no single move helps.
OneMove(g) ==
  IF ScoreOf(g).settled \/ Improving(g) = {} THEN {g} ELSE Chosen(g)

\* The moves of every round, a table that TLC fills in once.
MovesOf == [g \in Rounds |-> OneMove(g)] @@ <<>>

\* What the round may come to after at most MaxMoves moves.
RoundOutcomes(g) ==
  LET after[n \in 0..MaxMoves] ==
        IF n = 0 THEN {g} ELSE UNION {MovesOf[h] : h \in after[n - 1]}
  IN after[MaxMoves]

-----------------------------------------------------------------------------
(* The balancer.  A tick, a nudge and the first timer all start a round, so   *)
(* one may start at any time and the nudges need no state.                   *)

\* targetFn, then isAuto for each live worker under liveMu: the miners that
\* take part and the coin each is on.  misread: workers for which
\* GetMeshAssignment failed, which reads as "not automatic".
Gather(misread) ==
  /\ bal.pc = "idle" /\ InTarget(target) # {}
  /\ LET taking == {w \in Workers \ misread : Live(w) /\ rows[w] = MeshAuto}
     IN /\ bal' = [pc |-> "gathered", coin |-> [w \in taking |-> sess[w].active], moved |-> {}, halfway |-> Nowhere]
        /\ raced' = raced \cup {w \in taking : UserOn(w) \/ AuthOn(w)}
  /\ fleetEvents' = IF misread = {} THEN fleetEvents ELSE fleetEvents + 1
  /\ UNCHANGED <<rows, target, placement, cooling, sess, api, up, measured, choice, edits>>

Automatic(misread) == {w \in Workers \ misread : rows[w] = MeshAuto}

\* Where a round starts: at its placement, if it has one it keeps, or else on
\* the coin it was seen mining.
StartOf(w, kept) ==
  IF w \in kept /\ placement[w] # Nowhere THEN placement[w] ELSE bal.coin[w]

\* Not moved within the cooldown.
Movable == DOMAIN bal.coin \ cooling

\* The hashrates, the placements of workers that left, the round itself, and
\* every placement recorded.  Without a miner balance() stops after the clean-up.
\* placement is written by this goroutine only: its two critical sections are
\* one step.
Decide(misread) ==
  /\ bal.pc = "gathered"
  /\ LET kept   == Automatic(misread)
         miners == DOMAIN bal.coin
         start  == Round([w \in miners |-> StartOf(w, kept)], Movable)
         placed == {w \in miners \cap kept : placement[w] # Nowhere}
     IN \E r \in RoundOutcomes(start) :
          LET changed == {w \in miners : r.at[w] # start.at[w]}
              moved   == changed \cup (miners \ placed)
          IN /\ placement' = [w \in Workers |->
                                CASE w \in miners -> r.at[w]
                                  [] w \in kept \ miners -> placement[w]
                                  [] OTHER -> Nowhere]
             /\ cooling' = cooling \cup changed
             /\ bal' = IF moved = {} THEN NoRound
                       ELSE [pc |-> "reassign", coin |-> [w \in moved |-> r.at[w]], moved |-> moved, halfway |-> Nowhere]
  /\ fleetEvents' = IF misread = {} THEN fleetEvents ELSE fleetEvents + 1
  /\ UNCHANGED <<rows, target, sess, api, up, measured, choice, raced, edits>>

\* The round goes on without w.
Done(w) ==
  IF bal.moved = {w} THEN NoRound
  ELSE [pc |-> "reassign", coin |-> [v \in bal.moved \ {w} |-> bal.coin[v]],
        moved |-> bal.moved \ {w}, halfway |-> Nowhere]

\* ReassignWorker to one coin, its two writes one after the other: first the
\* rotation goes, then the home is set.  A worker that is not connected, and a
\* coin the session is not bonded to, change nothing.  The biggest miner first.
BalReassign(w) ==
  /\ bal.pc = "reassign" /\ w \in bal.moved /\ bal.halfway \in {Nowhere, w}
  /\ \A v \in bal.moved : Hash[v] <= Hash[w]
  /\ \/ /\ bal.halfway = Nowhere /\ Live(w) /\ bal.coin[w] \in Coins
        /\ sess' = [sess EXCEPT ![w].rotation = {}]
        /\ bal' = [bal EXCEPT !.halfway = w]
     \/ /\ bal.halfway = Nowhere /\ ~(Live(w) /\ bal.coin[w] \in Coins)
        /\ sess' = sess /\ bal' = Done(w)
     \/ /\ bal.halfway = w
        /\ sess' = [sess EXCEPT ![w].home = bal.coin[w]] /\ bal' = Done(w)
  /\ UNCHANGED <<rows, target, placement, cooling, api, up, measured, choice, raced, edits, fleetEvents>>

\* moveCooldown has passed since the worker was moved.
Cools(w) ==
  /\ w \in cooling
  /\ cooling' = cooling \ {w}
  /\ UNCHANGED <<rows, target, placement, sess, api, bal, up, measured, choice, raced, edits, fleetEvents>>

-----------------------------------------------------------------------------
(* The user.                                                                 *)

\* HandleMeshAssign saves the row; AUTO has no weights, so ReassignWorker
\* returns at once and the balancer is left to place the worker.
Assign(w, alloc) ==
  /\ api.pc = "idle" /\ edits < MaxEdits
  /\ rows' = [rows EXCEPT ![w] = alloc]
  /\ api' = IF alloc = MeshAuto THEN NoRequest ELSE [pc |-> "saved", worker |-> w, alloc |-> alloc]
  /\ choice' = [choice EXCEPT ![w] = alloc]
  /\ raced' = IF BalOn(w) \/ AuthOn(w) THEN raced \cup {w} ELSE raced \ {w}
  /\ edits' = edits + 1
  /\ UNCHANGED <<target, placement, cooling, sess, bal, up, measured, fleetEvents>>

\* HandleMeshUnassign deletes the row; the session keeps what it has.
Unassign(w) ==
  /\ api.pc = "idle" /\ edits < MaxEdits
  /\ rows' = [rows EXCEPT ![w] = NoRow]
  /\ choice' = [choice EXCEPT ![w] = NoRow]
  /\ raced' = IF BalOn(w) \/ AuthOn(w) THEN raced \cup {w} ELSE raced \ {w}
  /\ edits' = edits + 1
  /\ UNCHANGED <<target, placement, cooling, sess, api, bal, up, measured, fleetEvents>>

\* More than one coin: a miner that rotates.
Split(alloc) == \E c, d \in alloc : c # d

\* The two writes of ReassignWorker: the rotation, then the home.
SetRotation ==
  /\ api.pc = "saved"
  /\ LET w == api.worker
     IN IF Live(w)
        THEN /\ sess' = [sess EXCEPT ![w].rotation = IF Split(api.alloc) THEN api.alloc ELSE {}]
             /\ api' = [api EXCEPT !.pc = "home"]
        ELSE sess' = sess /\ api' = NoRequest
  /\ UNCHANGED <<rows, target, placement, cooling, bal, up, measured, choice, raced, edits, fleetEvents>>

\* Mutant: a split leaves the home the worker had.
HomeKept(alloc) == IF Split(alloc) THEN sess[api.worker].home ELSE CHOOSE c \in alloc : TRUE

HomeOf(alloc) == IF Split(alloc) THEN Nowhere ELSE CHOOSE c \in alloc : TRUE

SetHome ==
  /\ api.pc = "home"
  /\ sess' = [sess EXCEPT ![api.worker].home = HomeOf(api.alloc), ![api.worker].unread = FALSE]
  /\ api' = NoRequest
  /\ UNCHANGED <<rows, target, placement, cooling, bal, up, measured, choice, raced, edits, fleetEvents>>

\* HandleMeshSystem saves the target and nudges the balancer.
SetTarget(t) ==
  /\ edits < MaxEdits /\ t # target
  /\ target' = t
  /\ edits' = edits + 1
  /\ UNCHANGED <<rows, placement, cooling, sess, api, bal, up, measured, choice, raced, fleetEvents>>

-----------------------------------------------------------------------------
(* A session.                                                                *)

\* It connects, is bonded, and authorizes: registerLive comes first.
NewSession(w) ==
  /\ sess[w].pc = "off"
  /\ \E c \in up : sess' = [sess EXCEPT ![w] = [NoSession EXCEPT !.pc = "lookup", !.active = c]]
  /\ raced' = IF UserOn(w) \/ BalOn(w) THEN raced \cup {w} ELSE raced
  /\ UNCHANGED <<rows, target, placement, cooling, api, bal, up, measured, choice, edits, fleetEvents>>

\* The allocation a row stands for at authorize: AUTO is the placement.
PlanOf(w) == CASE rows[w] = MeshAuto /\ placement[w] \in Coins -> {placement[w]}
               [] rows[w] \in Allocations -> rows[w]
               [] OTHER -> {}

\* The lookup reads the row.  A store that stays busy means the default order
\* and nothing written; without a row a new worker joins the System Mesh.
Lookup(w, fails) ==
  /\ sess[w].pc = "lookup"
  /\ sess' = [sess EXCEPT ![w].pc = IF ~fails /\ rows[w] = NoRow THEN "adopt" ELSE "apply",
                          ![w].plan = IF fails THEN {} ELSE PlanOf(w),
                          ![w].unread = fails]
  /\ fleetEvents' = IF fails THEN fleetEvents + 1 ELSE fleetEvents
  /\ UNCHANGED <<rows, target, placement, cooling, api, bal, up, measured, choice, raced, edits>>

\* With include-new on the lookup writes AUTO, whatever the row is by now, and follows
\* the placement the worker may still have; with it off the default order it is.
Adopt(w) ==
  /\ sess[w].pc = "adopt"
  /\ \E includeNew \in BOOLEAN :
       /\ rows' = IF includeNew THEN [rows EXCEPT ![w] = MeshAuto] ELSE rows
       /\ sess' = [sess EXCEPT ![w].pc = "apply",
                               ![w].plan = IF includeNew /\ placement[w] \in Coins THEN {placement[w]} ELSE {}]
  /\ UNCHANGED <<target, placement, cooling, api, bal, up, measured, choice, raced, edits, fleetEvents>>

\* authorize applies what it was told: a split sets the rotation only; one coin
\* is the home, and the active coin too if it serves.
Apply(w) ==
  /\ sess[w].pc = "apply"
  /\ LET plan == sess[w].plan
         c    == CHOOSE c \in plan : TRUE
     IN sess' = [sess EXCEPT ![w] =
          CASE plan = {} -> [@ EXCEPT !.pc = "on"]
            [] Split(plan) -> [@ EXCEPT !.pc = "on", !.rotation = plan, !.plan = {}]
            [] OTHER -> [@ EXCEPT !.pc = "on", !.home = c, !.plan = {},
                                  !.active = IF c \in up THEN c ELSE @]]
  /\ UNCHANGED <<rows, target, placement, cooling, api, bal, up, measured, choice, raced, edits, fleetEvents>>

\* The relay takes the session to its home or to a coin of its rotation.
Follow(w) ==
  /\ sess[w].pc = "on"
  /\ \E c \in up \cap (sess[w].rotation \cup {sess[w].home}) :
       c # sess[w].active /\ sess' = [sess EXCEPT ![w].active = c]
  /\ UNCHANGED <<rows, target, placement, cooling, api, bal, up, measured, choice, raced, edits, fleetEvents>>

\* A session ends.  The second write of a ReassignWorker that has begun goes to
\* the session that ended: nothing is left of it.
Disconnect(w) ==
  /\ Live(w) /\ fleetEvents < MaxFleetEvents
  /\ sess' = [sess EXCEPT ![w] = NoSession]
  /\ api' = IF api.pc = "home" /\ api.worker = w THEN NoRequest ELSE api
  /\ bal' = IF bal.halfway = w THEN Done(w) ELSE bal
  /\ fleetEvents' = fleetEvents + 1
  /\ UNCHANGED <<rows, target, placement, cooling, up, measured, choice, raced, edits>>

\* A coin fails, and the sessions on it fail over to one that serves.
CoinDown(c) ==
  /\ c \in up /\ up # {c} /\ fleetEvents < MaxFleetEvents
  /\ up' = up \ {c}
  /\ \E d \in up \ {c} :
       sess' = [w \in Workers |-> IF sess[w].active = c THEN [sess[w] EXCEPT !.active = d] ELSE sess[w]]
  /\ fleetEvents' = fleetEvents + 1
  /\ UNCHANGED <<rows, target, placement, cooling, api, bal, measured, choice, raced, edits>>

CoinUp(c) ==
  /\ c \notin up
  /\ up' = up \cup {c}
  /\ UNCHANGED <<rows, target, placement, cooling, sess, api, bal, measured, choice, raced, edits, fleetEvents>>

\* The scanner reads the miner, or the relay has measured enough shares.
Measure(w) ==
  /\ w \notin measured /\ Live(w)
  /\ measured' = measured \cup {w}
  /\ UNCHANGED <<rows, target, placement, cooling, sess, api, bal, up, choice, raced, edits, fleetEvents>>

-----------------------------------------------------------------------------
Misreads == IF fleetEvents < MaxFleetEvents THEN {{}} \cup {{w} : w \in Edited} ELSE {{}}

Balancer ==
  \/ \E misread \in Misreads : Gather(misread) \/ Decide(misread)
  \/ \E w \in Workers : BalReassign(w)

User ==
  \/ \E w \in Edited : Unassign(w) \/ \E alloc \in Allocations \cup {MeshAuto} : Assign(w, alloc)
  \/ \E t \in Targets : SetTarget(t)
  \/ SetRotation \/ SetHome

Session(w) ==
  \/ NewSession(w) \/ Adopt(w) \/ Apply(w) \/ Follow(w) \/ Disconnect(w) \/ Measure(w)
  \/ \E fails \in (IF fleetEvents < MaxFleetEvents THEN BOOLEAN ELSE {FALSE}) : Lookup(w, fails)

AssignNext ==
  \/ Balancer \/ User
  \/ \E w \in Workers : Cools(w)
  \/ \E w \in Edited : Session(w)
  \/ \E w \in Workers \ Edited : Follow(w)
  \/ \E c \in Coins : CoinDown(c) \/ CoinUp(c)

AssignSpec == AssignInit /\ [][AssignNext]_assignVars

\* The ticker starts rounds and the goroutine carries them through; time passes;
\* a handler that has started runs on.  Nothing says that the user, a miner or a
\* coin does anything.
FairAssignSpec ==
  /\ AssignSpec
  /\ WF_assignVars(Balancer)
  /\ WF_assignVars(SetRotation \/ SetHome)
  /\ \A w \in Workers : WF_assignVars(Cools(w))
  /\ \A w \in Edited : WF_assignVars(Lookup(w, FALSE) \/ Adopt(w) \/ Apply(w) \/ Measure(w))

-----------------------------------------------------------------------------
AssignTypeOK ==
  /\ rows \in [Workers -> Rows] /\ choice \in [Workers -> Rows]
  /\ target \in Targets
  /\ placement \in [Workers -> Coins \cup {Nowhere}]
  /\ cooling \subseteq Workers /\ raced \subseteq Workers /\ measured \subseteq Workers
  /\ sess \in [Workers -> [pc : {"off", "lookup", "adopt", "apply", "on"},
                           home : Coins \cup {Nowhere}, rotation : SUBSET Coins,
                           active : Coins \cup {Nowhere}, plan : SUBSET Coins, unread : BOOLEAN]]
  /\ api \in [pc : {"idle", "saved", "home"}, worker : Workers \cup {Nowhere}, alloc : Rows]
  /\ bal.pc \in {"idle", "gathered", "reassign"} /\ bal.moved \subseteq DOMAIN bal.coin
  /\ \A w \in bal.moved : bal.coin[w] \in Coins   \* nobody is sent nowhere
  /\ up \in SUBSET Coins \ {{}}
  /\ edits \in 0..MaxEdits /\ fleetEvents \in 0..MaxFleetEvents

\* Where the session stands is what the user asked for: a pinned worker has that
\* coin as its home and no rotation, a split one rotates and has no home.
Stands(w, alloc) ==
  IF Split(alloc) THEN sess[w].rotation = alloc /\ sess[w].home = Nowhere
  ELSE sess[w].rotation = {} /\ {sess[w].home} = alloc

\* When no two of the user, the balancer and the session's authorize worked on a
\* worker at the same time, what the user chose is what the store keeps and what
\* the session does: the balancer takes no pinned or split miner, a store too
\* busy to answer hands none to the System Mesh, and rotation and home exclude
\* each other.
ChoiceHeld ==
  \A w \in Workers \ raced :
    ~UserOn(w) /\ ~BalOn(w) /\ ~AuthOn(w) =>
      /\ rows[w] = choice[w] \/ (choice[w] = NoRow /\ rows[w] = MeshAuto)
      /\ rows[w] \in Allocations /\ Live(w) /\ ~sess[w].unread => Stands(w, rows[w])

\* The balancer settles: once the user, the miners and the coins are quiet it
\* stops moving hardware about.
PlacementSettles == <>[][placement' = placement]_assignVars

\* What no single move betters.
Converged ==
  LET miners == {w \in Workers : Live(w) /\ rows[w] = MeshAuto}
      here   == Round([w \in miners |-> placement[w]], miners)
  IN /\ \A w \in miners : placement[w] # Nowhere
     /\ ScoreOf(here).settled \/ \A o \in Moves(here) : ScoreOf(o).sq >= ScoreOf(here).sq

\* And where it settles is within the tolerance of the target, or no move of one
\* miner would bring the fleet closer to it.
FleetConverges == <>[](InTarget(target) = {} \/ Converged)

\* "a miner the user has pinned or split keeps its own allocation"
\* (balancer.go:12): nobody but the user takes it off what he chose.
PinHonoured ==
  \A w \in Workers :
    ~UserOn(w) /\ ~BalOn(w) /\ ~AuthOn(w) /\ sess[w].pc = "on" /\ ~sess[w].unread
      /\ rows[w] \in Allocations => Stands(w, rows[w])
=============================================================================
