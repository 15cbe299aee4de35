------------------------------ MODULE CoinFiles ------------------------------
(***************************************************************************)
(* pkg/coinapi and pkg/engine: the files of one coin app.  The settings page, *)
(* the RPC credentials page, "regenerate SV2 key" and the start of a coin's   *)
(* runner read, change and rewrite the app's .env, the coin's JSON            *)
(* configuration and the SV2 authority key, with no lock between them and     *)
(* with os.WriteFile, which empties a file before it fills it.  A file that   *)
(* is empty or cut short reads as no settings at all.                         *)
(*                                                                          *)
(* A setting is the number of the request that set it, 0 when the file has    *)
(* none.  Of a request's settings there are three kinds: those of the pool    *)
(* (in both files), the node's own (prune, network: in .env) and the RPC      *)
(* credentials (in both).  The node's container keeps the environment it was  *)
(* made with; ForgeNX makes it again when it restarts the app.                *)
(***************************************************************************)
EXTENDS Integers, FiniteSets

CONSTANTS
  MaxPosts,     \* bound: settings, credentials and key requests
  MaxReloads,   \* bound: starts of the runner other than a key request's
  MaxRecreates, \* bound: new containers
  MaxCrashes    \* bound: ends of the engine between two steps, and failed writes

ASSUME FilesAssumption ==
  /\ MaxPosts \in Nat /\ MaxReloads \in Nat /\ MaxRecreates \in Nat /\ MaxCrashes \in Nat

Files == {"env", "cfg", "key"}
Keys == {"pool", "node", "rpc", "pubkey"}
\* Two calls that start the coin may be under way at once: a reload, the watcher, the retry loop.
Starters == {"start", "again"}
Actors == {"settings", "credentials", "regenerate"} \cup Starters
NoSettings == [k \in Keys |-> 0]

VARIABLES
  file,      \* each file's settings; the key file's key is under "pubkey"
  cut,       \* files emptied and not yet written
  posts, reloads, recreates, crashes,   \* bounded counters
  act,       \* per actor: its step, what it sets, what it read, the number of its request
  runner,    \* authority key of the running SV2 server, 0 while the coin is stopped
  container, \* the environment the node runs with
  saved,     \* per file: what the requests have set so far
  raced,     \* files of which two updates overlapped, or one failed or was cut off
  told,      \* the settings page's last list of what waits for a restart: "pending", or empty
             \* as the node's container is up to date ("applied") or cannot be asked ("unknown")
  crossed,   \* a start of the coin has begun while another was under way
  stayed     \* the last reload for a new key failed before it stopped the runner

counters == <<posts, reloads, recreates, crashes>>
starts == <<crossed, stayed>>
filesVars == <<file, cut, counters, act, runner, container, saved, raced, told, starts>>

Idle == [pc |-> "idle", f |-> "none", sets |-> {}, read |-> NoSettings, wrote |-> NoSettings, n |-> 0]

\* An app as its installer leaves it, its SV2 key generated.
FilesInit ==
  /\ file = [f \in Files |-> [k \in Keys |-> IF f = "key" THEN 1 ELSE IF k = "pubkey" THEN 0 ELSE 1]]
  /\ cut = {}
  /\ posts = 1 /\ reloads = 0 /\ recreates = 0 /\ crashes = 0
  /\ act = [a \in Actors |-> Idle]
  /\ runner = 0
  /\ container = file["env"]
  /\ saved = file
  /\ raced = {}
  /\ told = "unanswered"
  /\ crossed = FALSE /\ stayed = FALSE

Quiet == \A a \in Actors : act[a].pc = "idle"

-----------------------------------------------------------------------------
(* Reading and writing a file *)

\* a is between its reading of f and the end of its writing.
AtWork(a, f) == act[a].f = f /\ act[a].pc \in {"cut", "put"}

\* readEnvFile, readJSONFile: a file that cannot be read has no settings.
ReadFile(f) == IF f \in cut THEN NoSettings ELSE file[f]

Races(a, f) == raced' = IF \E b \in Actors \ {a} : AtWork(b, f) THEN raced \cup {f} ELSE raced

At(a, pc, f) == act[a].pc = pc /\ act[a].f = f

\* Mutant: the file is made of the request alone.
EditedAnew(x) == [k \in Keys |-> IF k \in x.sets THEN x.n ELSE 0]

\* What was read, with the request's settings in place.
Edited(x) == [k \in Keys |-> IF k \in x.sets THEN x.n ELSE x.read[k]]

\* os.WriteFile: the file is emptied,
CutFile(a, f) ==
  /\ At(a, "cut", f)
  /\ cut' = cut \cup {f}
  /\ Races(a, f)
  /\ act' = [act EXCEPT ![a].pc = "put"]
  /\ UNCHANGED <<file, counters, runner, container, saved, told, starts>>

\* and filled.
PutFile(a, f, pc, next) ==
  /\ At(a, "put", f)
  /\ file' = [file EXCEPT ![f] = Edited(act[a])]
  /\ cut' = cut \ {f}
  /\ saved' = [saved EXCEPT ![f] = [k \in Keys |-> IF k \in act[a].sets THEN act[a].n ELSE @[k]]]
  /\ Races(a, f)
  /\ act' = [act EXCEPT ![a].pc = pc, ![a].f = next, ![a].read = NoSettings,
                          ![a].wrote = IF a = "settings" /\ f = "env" THEN file'[f] ELSE @]
  /\ UNCHANGED <<counters, runner, container, told, starts>>

\* A write that fails, before or after the file was emptied, ends the handler; a start
\* goes on without SV2 when it is the key's, and as it is when it is the page's.
WriteFails(a, f) ==
  /\ AtWork(a, f) /\ crashes < MaxCrashes
  /\ crashes' = crashes + 1
  /\ raced' = raced \cup {f}
  /\ act' = [act EXCEPT ![a] = IF a \in Starters /\ f = "cfg" THEN [@ EXCEPT !.pc = "serve"] ELSE Idle]
  /\ UNCHANGED <<file, cut, posts, reloads, recreates, runner, container, saved, told, starts>>

-----------------------------------------------------------------------------
(* HandleSettingsPost, HandleRPCCredentialsPost *)

\* A request with some settings of the pool or of the node.
HandleSettingsPost ==
  /\ act["settings"].pc = "idle" /\ posts < MaxPosts
  /\ posts' = posts + 1
  /\ \E k \in {"pool", "node"} :
       act' = [act EXCEPT !["settings"] = [Idle EXCEPT !.pc = "read", !.f = "env", !.sets = {k}, !.n = posts']]
  /\ told' = "unanswered"
  /\ UNCHANGED <<file, cut, reloads, recreates, crashes, runner, container, saved, raced, starts>>

HandleRPCCredentialsPost ==
  /\ act["credentials"].pc = "idle" /\ posts < MaxPosts
  /\ posts' = posts + 1
  /\ act' = [act EXCEPT !["credentials"] = [Idle EXCEPT !.pc = "read", !.f = "env", !.sets = {"rpc"}, !.n = posts']]
  /\ UNCHANGED <<file, cut, reloads, recreates, crashes, runner, container, saved, raced, told, starts>>

\* Either page reads the .env, and later the coin's configuration.
ReadSettings(a, f) ==
  /\ a \in {"settings", "credentials"} /\ At(a, "read", f)
  /\ act' = [act EXCEPT ![a].pc = "cut", ![a].read = ReadFile(f)]
  /\ Races(a, f)
  /\ UNCHANGED <<file, cut, counters, runner, container, saved, told, starts>>

\* Of the node's own settings only the .env has a copy.
PutEnv(a) ==
  a \in {"settings", "credentials"} /\ PutFile(a, "env", "read", "cfg")
PutCfg(a) ==
  a \in {"settings", "credentials"} /\ PutFile(a, "cfg", IF a = "settings" THEN "answer" ELSE "docker", "none")

\* Mutant: the saved settings are compared with those of the .env.
PendingOfEnv(env) == env["node"] # file["env"]["node"]

\* nodeRestartPending: the environment of the container against the saved one.
NodeRestartPending(env) == env["node"] # container["node"]

\* An empty list is also what the page is given when Docker cannot be asked.
Tell(env) ==
  \/ told' = IF NodeRestartPending(env) THEN "pending" ELSE "applied"
  \/ told' = "unknown"

\* The answer of HandleSettingsPost is about the .env as it wrote it,
Answer ==
  /\ act["settings"].pc = "answer"
  /\ Tell(act["settings"].wrote)
  /\ act' = [act EXCEPT !["settings"] = Idle]
  /\ UNCHANGED <<file, cut, counters, runner, container, saved, raced, starts>>

\* that of HandleSettingsGet about the .env as it reads it.
HandleSettingsGet ==
  /\ told # "unanswered" /\ act["settings"].pc = "idle"
  /\ Tell(ReadFile("env"))
  /\ raced' = raced \cup ({"env"} \cap cut)
  /\ UNCHANGED <<file, cut, counters, act, runner, container, saved, starts>>

\* dockerRestartContainer stops and starts the node's container, which keeps its
\* environment; HandleAction does the same with the app's.
DockerRestartContainer ==
  /\ act["credentials"].pc = "docker"
  /\ act' = [act EXCEPT !["credentials"] = Idle]
  /\ UNCHANGED <<file, cut, counters, runner, container, saved, raced, told, starts>>

\* ForgeNX restarts the app: its containers are made from the .env.
RestartApp ==
  /\ recreates < MaxRecreates
  /\ recreates' = recreates + 1
  /\ container' = ReadFile("env")
  /\ raced' = raced \cup ({"env"} \cap cut)
  /\ UNCHANGED <<file, cut, posts, reloads, crashes, act, runner, saved, told, starts>>

-----------------------------------------------------------------------------
(* The SV2 authority key *)

\* HandleRegenerateSV2: a new key is written over the old one and the coin is reloaded.
HandleRegenerateSV2 ==
  /\ act["regenerate"].pc = "idle" /\ posts < MaxPosts
  /\ posts' = posts + 1
  /\ act' = [act EXCEPT !["regenerate"] = [Idle EXCEPT !.pc = "put", !.f = "key", !.sets = Keys, !.n = posts']]
  /\ cut' = cut \cup {"key"}
  /\ Races("regenerate", "key")
  /\ UNCHANGED <<file, reloads, recreates, crashes, runner, container, saved, told, starts>>

RegeneratePut == PutFile("regenerate", "key", "reload", "none")

Starting(t) == act[t].pc # "idle"

\* StopCoin, and the two seconds until StartCoin.
StopCoin(t, after) ==
  /\ ~Starting(t) /\ (t = "again" => Starting("start"))
  /\ runner' = 0 /\ stayed' = FALSE
  /\ crossed' = (crossed \/ \E u \in Starters \ {t} : Starting(u))
  /\ act' = [after EXCEPT ![t] = [Idle EXCEPT !.pc = "check"]]

\* ReloadCoinBySymbol reads the coin's configuration first: where it cannot, the runner
\* and any start under way go on with the key they have.
ReloadForKey ==
  /\ act["regenerate"].pc = "reload"
  /\ \/ /\ act' = [act EXCEPT !["regenerate"] = Idle]
        /\ stayed' = TRUE
        /\ UNCHANGED <<runner, crossed>>
     \/ \E t \in Starters : StopCoin(t, [act EXCEPT !["regenerate"] = Idle])
  /\ UNCHANGED <<file, cut, counters, container, saved, raced, told>>

\* The watcher, the retry loop or an edited configuration starts the coin again.
ReloadCoin(t) ==
  /\ reloads < MaxReloads
  /\ reloads' = reloads + 1
  /\ StopCoin(t, act)
  /\ UNCHANGED <<file, cut, posts, recreates, crashes, container, saved, raced, told>>

\* StartCoin: not of a coin that runs by now; a configuration may be refused too.
StartCoin(t) ==
  /\ act[t].pc = "check"
  /\ \/ act' = [act EXCEPT ![t] = Idle]
     \/ runner = 0 /\ act' = [act EXCEPT ![t] = [Idle EXCEPT !.pc = "read", !.f = "key"]]
  /\ UNCHANGED <<file, cut, counters, runner, container, saved, raced, told, starts>>

\* loadOrGenerateAuthorityKey: a key file that cannot be read is replaced.
LoadAuthorityKey(t) ==
  /\ At(t, "read", "key")
  /\ Races(t, "key")
  /\ IF ReadFile("key") # NoSettings
     THEN /\ act' = [act EXCEPT ![t].f = "cfg", ![t].n = file["key"]["pubkey"], ![t].sets = {"pubkey"}]
          /\ UNCHANGED posts
     ELSE /\ posts' = posts + 1
          /\ act' = [act EXCEPT ![t].pc = "cut", ![t].n = posts', ![t].sets = Keys]
  /\ UNCHANGED <<file, cut, reloads, recreates, crashes, runner, container, saved, told, starts>>

GeneratedPut(t) == PutFile(t, "key", "read", "cfg")

\* Mutant: a public key that is there is left alone.
PersistOnce(t) ==
  /\ At(t, "read", "cfg")
  /\ Races(t, "cfg")
  /\ act' = [act EXCEPT ![t] = IF "cfg" \in cut \/ file["cfg"]["pubkey"] # 0 THEN [@ EXCEPT !.pc = "serve"]
                                ELSE [@ EXCEPT !.pc = "cut", !.sets = {"pubkey"}, !.read = file["cfg"]]]
  /\ UNCHANGED <<file, cut, counters, runner, container, saved, told, starts>>

\* persistSV2AuthPubkey: the public key for the page; not into a file it cannot read.
PersistSV2AuthPubkey(t) ==
  /\ At(t, "read", "cfg")
  /\ Races(t, "cfg")
  /\ act' = [act EXCEPT ![t] = IF "cfg" \in cut THEN [@ EXCEPT !.pc = "serve"]
                                ELSE [@ EXCEPT !.pc = "cut", !.sets = {"pubkey"}, !.read = file["cfg"]]]
  /\ UNCHANGED <<file, cut, counters, runner, container, saved, told, starts>>

PersistPut(t) == PutFile(t, "cfg", "serve", "none")

\* CoinRunner.Start: the SV2 server listens with the key.  Where the node or the coin's
\* port fails it all stays as it was; where the SV2 port does, the coin runs without SV2.
Serve(t) ==
  /\ act[t].pc = "serve"
  /\ runner' \in {runner, 0, act[t].n}
  /\ act' = [act EXCEPT ![t] = Idle]
  /\ UNCHANGED <<file, cut, counters, container, saved, raced, told, starts>>

\* The engine ends, whatever it was doing; a file it had emptied stays empty.
Crash ==
  /\ crashes < MaxCrashes /\ ~Quiet
  /\ crashes' = crashes + 1
  /\ act' = [a \in Actors |-> Idle]
  /\ raced' = raced \cup {f \in Files : \E a \in Actors : AtWork(a, f)}
  /\ runner' = 0 /\ told' = "unanswered"
  /\ UNCHANGED <<file, cut, posts, reloads, recreates, container, saved, starts>>

FilesNext ==
  \/ HandleSettingsPost \/ HandleRPCCredentialsPost \/ Answer \/ HandleSettingsGet \/ DockerRestartContainer
  \/ \E a \in Actors : \/ \E f \in {"env", "cfg"} : ReadSettings(a, f)
                       \/ PutEnv(a) \/ PutCfg(a)
                       \/ \E f \in Files : CutFile(a, f) \/ WriteFails(a, f)
  \/ RestartApp
  \/ HandleRegenerateSV2 \/ RegeneratePut \/ ReloadForKey
  \/ \E t \in Starters : \/ ReloadCoin(t) \/ StartCoin(t) \/ LoadAuthorityKey(t) \/ GeneratedPut(t)
                         \/ PersistSV2AuthPubkey(t) \/ PersistPut(t) \/ Serve(t)
  \/ Crash

FilesSpec == FilesInit /\ [][FilesNext]_filesVars

-----------------------------------------------------------------------------
(* Properties *)

\* A file whose updates did not overlap, and of which none was cut off, holds
\* everything that was ever saved to it, whichever handlers rewrote it since.
SavedStays ==
  \A f \in Files \ raced : (\A a \in Actors : ~AtWork(a, f)) => file[f] = saved[f] /\ f \notin cut

\* The page shows the authority key miners meet: a running SV2 server signs with
\* the key whose public half is in the configuration, and that is the key on disk
\* unless the last key request was answered that its reload failed, through key
\* requests, reloads, failed starts and crashes, while no two starts overlap.
PubkeyShown ==
  Quiet /\ runner # 0 /\ ~crossed /\ raced \cap {"cfg", "key"} = {} =>
    runner = file["cfg"]["pubkey"] /\ (stayed \/ runner = file["key"]["pubkey"])

\* A page that could ask Docker never says "nothing waits for a restart" of a node that
\* runs without the saved settings, nor does that become false later.
RestartNotForgotten ==
  told = "applied" /\ "env" \notin raced => container["node"] = file["env"]["node"]

\* dockerRestartContainer: "This forces .env re-interpolation on start" (violated).
CredentialsReachNode ==
  Quiet /\ raced = {} => container["rpc"] = file["env"]["rpc"]
=============================================================================
