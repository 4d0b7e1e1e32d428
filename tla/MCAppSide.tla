------------------------------ MODULE MCAppSide ------------------------------
(***************************************************************************)
(* What an application has around the calls of the client, for TLC: its    *)
(* reads, the React hooks, its lifecycle hooks, wallet adapters and the    *)
(* stores behind the cache, which share no state.  A behaviour is one of a *)
(* single part, named by `part`, with the others left in one initial       *)
(* state; the query and the wallet of the React hooks, and the calls and   *)
(* the watcher of the Freighter adapter, are parts of their own, and the   *)
(* entries of the tracker age in a part without the reads that it never    *)
(* tracks, those with a signal.                                            *)
(***************************************************************************)
EXTENDS CachedReads, FreighterSession, WalletConnectSession, ReactHooks,
        HookManager, WalletAdapters, CacheStores, TLC

CONSTANTS
  c1, c2, c3, c4, one, list, w1, w2, short, long,
  f1, f2, a1, a2, n1, n2, s1, s2, s3, t1, t2, t3, i1, i2, m1, m2,
  h1, h2, g1, g2, o1, o2, o3, e1, e2

(* Two equal calls for a list, one with other options, one for a will. *)
MCQueryOf == [c \in Calls |-> IF c = c4 THEN one ELSE list]
MCOptionsOf == [c \in Calls |-> IF c = c3 THEN long ELSE short]
MCCovers == [q \in Queries |-> IF q = one THEN {w1} ELSE {w1, w2}]
Symmetry == Permutations({c1, c2})

VARIABLE part

walletVars == <<frVars, wcVars, waVars>>
appVars == <<part, vars, rhVars, hmVars, walletVars, stVars>>

AppInit ==
  /\ part \in {"reads", "ageing", "query", "wallet", "hooks", "freighter",
              "watcher", "walletconnect", "adapters", "stores"}
  /\ Init /\ ReactInit /\ HooksInit /\ FreighterInit /\ WalletConnectInit
  /\ WalletAdaptersInit /\ CacheStoresInit
  /\ part # "query" => rhInput = RhNone /\ ~rhStrict
  /\ part \notin {"freighter", "watcher"} => frAccount = a1 /\ frNetwork = n1
  /\ part # "adapters" => waKind = "albedo" /\ waWallet = a1
  /\ part # "stores" => stKind = "memory"

Reads ==
  \/ part = "reads" /\ ReadsNext
  \/ part = "ageing" /\ Next /\ \A c \in WithSignal : call'[c] = "idle"

Wallets ==
  \/ part = "freighter" /\ (FreighterUserNext \/ FreighterCallsNext) /\ UNCHANGED <<wcVars, waVars>>
  \/ part = "watcher" /\ (FreighterUserNext \/ WatcherNext) /\ UNCHANGED <<wcVars, waVars>>
  \/ part = "walletconnect" /\ WalletConnectNext /\ UNCHANGED <<frVars, waVars>>
  \/ part = "adapters" /\ WalletAdaptersNext /\ UNCHANGED <<frVars, wcVars>>

(* One part moves, the others stay as they began. *)
AppNext ==
  /\ UNCHANGED part
  /\ \/ Reads /\ UNCHANGED <<rhVars, hmVars, walletVars, stVars>>
     \/ part = "query" /\ QueryNext /\ UNCHANGED <<vars, hmVars, walletVars, stVars>>
     \/ part = "wallet" /\ WalletNext /\ UNCHANGED <<vars, hmVars, walletVars, stVars>>
     \/ part = "hooks" /\ HooksNext /\ UNCHANGED <<vars, rhVars, walletVars, stVars>>
     \/ Wallets /\ UNCHANGED <<vars, rhVars, hmVars, stVars>>
     \/ part = "stores" /\ CacheStoresNext /\ UNCHANGED <<vars, rhVars, hmVars, walletVars>>

AppSpec == AppInit /\ [][AppNext]_appVars
=============================================================================
