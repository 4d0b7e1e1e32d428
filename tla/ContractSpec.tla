----------------------------- MODULE ContractSpec -----------------------------
(***************************************************************************)
(* The contract spec a client keeps: getSpec() with its expiry, shared by  *)
(* the calls that wait for it, refreshSpec(), and the fetches of the wasm, *)
(* of which several run at a time after a refresh.                         *)
(*                                                                         *)
(* External: the deployed contract, which is upgraded, and the nodes.  The *)
(* signal and timeout of a fetch are those of the call that started it.    *)
(***************************************************************************)
EXTENDS Naturals

CONSTANTS
  Callers,     (* Methods of the client that need the spec.                *)
  Fetches,     (* Bound: fetches of the wasm, 1..n in the order of start.  *)
  MaxVersion,  (* Bound: versions of the deployed contract.                *)
  SpecTtl      (* specCacheTtlMs in steps of Tick.                         *)

ASSUME ContractSpecAssumption ==
  /\ 0 \notin Fetches /\ Fetches \subseteq Nat
  /\ MaxVersion \in Nat \ {0}
  /\ SpecTtl \in Nat

Unset == SpecTtl + 2

VARIABLES
  deployed,       (* External: the version of the contract.                *)
  fetch,          (* "new", "running", "answered", "resolved", "rejected". *)
  wasm,           (* The version each fetch got.                           *)
  specPromise,    (* The fetch the promise is of, 0 for undefined.         *)
  specAge,        (* Steps since specResolvedAt, Unset for undefined.      *)
  specVersion,    (* The version recordSpecVersion() noted, 0 for none.    *)
  waitsFor        (* The fetch each caller waits for, 0 for none.          *)

csVars == <<deployed, fetch, wasm, specPromise, specAge, specVersion, waitsFor>>

ContractSpecInit ==
  /\ deployed = 1
  /\ fetch = [f \in Fetches |-> "new"]
  /\ wasm = [f \in Fetches |-> 0]
  /\ specPromise = 0
  /\ specAge = Unset
  /\ specVersion = 0
  /\ waitsFor = [c \in Callers |-> 0]

Settled(f) == fetch[f] \in {"resolved", "rejected"}

(* A promise is there, it has resolved, and its time is up. *)
SpecExpired == specPromise # 0 /\ specAge # Unset /\ specAge > SpecTtl

(* The fetch of the wasm starts, and is what the client keeps. *)
StartFetch(f) ==
  /\ fetch[f] = "new"
  /\ \A g \in Fetches : g < f => fetch[g] # "new"
  /\ fetch' = [fetch EXCEPT ![f] = "running"]
  /\ specPromise' = f

(* getSpec() of caller c when there is a promise: at once if it resolved. *)
UseSpec(c) ==
  /\ waitsFor[c] = 0
  /\ specPromise # 0 /\ ~SpecExpired
  /\ waitsFor' = [waitsFor EXCEPT ![c] = IF Settled(specPromise) THEN 0 ELSE specPromise]
  /\ UNCHANGED <<deployed, fetch, wasm, specPromise, specAge, specVersion>>

(* There is none, or it has expired. *)
FetchSpec(c, f) ==
  /\ waitsFor[c] = 0
  /\ specPromise = 0 \/ SpecExpired
  /\ StartFetch(f)
  /\ specAge' = IF SpecExpired THEN Unset ELSE specAge
  /\ waitsFor' = [waitsFor EXCEPT ![c] = f]
  /\ UNCHANGED <<deployed, wasm, specVersion>>

(* refreshSpec(): what is kept is forgotten, running fetches run on. *)
RefreshSpec(c, f) ==
  /\ waitsFor[c] = 0
  /\ StartFetch(f)
  /\ specAge' = Unset
  /\ waitsFor' = [waitsFor EXCEPT ![c] = f]
  /\ UNCHANGED <<deployed, wasm, specVersion>>
-----------------------------------------------------------------------------
NobodyWaitsFor(f) == waitsFor' = [c \in Callers |-> IF waitsFor[c] = f THEN 0 ELSE waitsFor[c]]

(* A node reads the wasm. *)
NodeAnswers(f) ==
  /\ fetch[f] = "running"
  /\ fetch' = [fetch EXCEPT ![f] = "answered"]
  /\ wasm' = [wasm EXCEPT ![f] = deployed]
  /\ UNCHANGED <<deployed, specPromise, specAge, specVersion, waitsFor>>

(* The time and the version are noted, whichever fetch is kept by now. *)
FetchResolves(f) ==
  /\ fetch[f] = "answered"
  /\ fetch' = [fetch EXCEPT ![f] = "resolved"]
  /\ specAge' = 0
  /\ specVersion' = wasm[f]
  /\ NobodyWaitsFor(f)
  /\ UNCHANGED <<deployed, wasm, specPromise>>

(* Mutant: only the time is forgotten. *)
RejectKeeps(f) ==
  /\ fetch[f] \in {"running", "answered"}
  /\ fetch' = [fetch EXCEPT ![f] = "rejected"]
  /\ specAge' = Unset
  /\ NobodyWaitsFor(f)
  /\ UNCHANGED <<deployed, wasm, specPromise, specVersion>>

(* A node's error, a wasm without spec, the timeout or the signal of the    *)
(* caller that started it: what is kept is forgotten, whoever's it is.     *)
FetchRejects(f) ==
  /\ fetch[f] \in {"running", "answered"}
  /\ fetch' = [fetch EXCEPT ![f] = "rejected"]
  /\ specPromise' = 0
  /\ specAge' = Unset
  /\ NobodyWaitsFor(f)
  /\ UNCHANGED <<deployed, wasm, specVersion>>

Upgrade ==
  /\ deployed < MaxVersion
  /\ deployed' = deployed + 1
  /\ UNCHANGED <<fetch, wasm, specPromise, specAge, specVersion, waitsFor>>

SpecTick ==
  /\ specAge <= SpecTtl
  /\ specAge' = specAge + 1
  /\ UNCHANGED <<deployed, fetch, wasm, specPromise, specVersion, waitsFor>>
-----------------------------------------------------------------------------
ContractSpecNext ==
  \/ \E c \in Callers :
       \/ UseSpec(c)
       \/ \E f \in Fetches : FetchSpec(c, f) \/ RefreshSpec(c, f)
  \/ \E f \in Fetches : NodeAnswers(f) \/ FetchResolves(f) \/ FetchRejects(f)
  \/ Upgrade \/ SpecTick

ContractSpecSpec == ContractSpecInit /\ [][ContractSpecNext]_csVars
-----------------------------------------------------------------------------
(* Types: every variable has the shape its comment says. *)
ContractSpecTypeOK ==
  /\ deployed \in 1..MaxVersion
  /\ fetch \in [Fetches -> {"new", "running", "answered", "resolved", "rejected"}]
  /\ wasm \in [Fetches -> 0..MaxVersion]
  /\ specPromise \in Fetches \cup {0}
  /\ specAge \in 0..Unset
  /\ specVersion \in 0..MaxVersion
  /\ waitsFor \in [Callers -> Fetches \cup {0}]

(* "A rejected spec fetch must not stay cached forever", and a resolved one *)
(* is kept only with the time it can expire by (#502), whatever other      *)
(* fetches resolve or reject after a refresh; nobody waits for a fetch     *)
(* that has ended.                                                         *)
SpecCanBeReplaced ==
  /\ specPromise # 0 =>
       /\ fetch[specPromise] \notin {"new", "rejected"}
       /\ fetch[specPromise] = "resolved" => specAge # Unset
  /\ \A c \in Callers : waitsFor[c] # 0 => fetch[waitsFor[c]] \in {"running", "answered"}
-----------------------------------------------------------------------------
(* What the documentation says and the code does not do.                   *)

(* getContractSpecVersion() returns the version of the spec that is kept.  *)
VersionOfTheSpec ==
  specPromise # 0 /\ fetch[specPromise] = "resolved" => specVersion = wasm[specPromise]

(* Only the client's own fetch fails a spec that has been fetched.         *)
ResolvedStays ==
  [][\A f \in Fetches : specPromise = f /\ fetch[f] = "resolved" /\ specPromise' = 0
       => SpecExpired]_csVars
=============================================================================
