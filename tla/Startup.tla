------------------------------- MODULE Startup --------------------------------
(***************************************************************************)
(* How a process of hashguard comes up, after main() of agent.py: the      *)
(* configuration, the device key and the activation entry are read, or     *)
(* made and written where they are missing, one file access at a time, by  *)
(* the agent and by commands like --statement, and by each of them again   *)
(* after it was killed on the way.                                         *)
(*                                                                         *)
(* What the files hold besides the token, the secret and the farm is left  *)
(* out, and so is a console that changes the configuration (Console).      *)
(***************************************************************************)
EXTENDS Naturals, FiniteSets, PythonNone

CONSTANTS
  Processes,
  Torn,        \* a file that was truncated and not yet, or never, written
  MaxMinted    \* bound: random numbers drawn

ASSUME ProcessesAssumption == IsFiniteSet(Processes)
ASSUME MintedAssumption == MaxMinted \in Nat
ASSUME ContentsAssumption ==
  /\ Null # Torn
  /\ \A x \in {Null, Torn} : x \notin Nat /\ x \notin [secret : Nat, farm : Nat \cup {Null}]

VARIABLES
  disk,        \* what each file holds; Null when there is none
  proc,        \* each process: the file it is at, and what it does with it
  minted,      \* the random numbers drawn so far; the last one
  overlapped,  \* auxiliary: two processes were once starting together
  ran          \* auxiliary: what was on the disk when one first came up

vars == <<disk, proc, minted, overlapped, ran>>

Files == {"config", "key", "activation"}
After == [config |-> "key", key |-> "activation", activation |-> "running"]

Gone == [at |-> "none", does |-> "", token |-> 0, key |-> Null]

\* The key of version 2.0.0 has a secret and no farm.
LegacySecret == 0
LegacyKey == [secret |-> LegacySecret, farm |-> Null]

Init ==
  /\ \E key \in {Null, LegacyKey} : disk = [config |-> Null, key |-> key, activation |-> Null]
  /\ proc = [p \in Processes |-> Gone]
  /\ minted = 0 /\ overlapped = FALSE /\ ran = Null

Starting(state) == {p \in Processes : state[p].at \in Files}

\* A process takes the next state; the auxiliary variables follow.
Becomes(p, state) ==
  /\ proc' = [proc EXCEPT ![p] = state]
  /\ overlapped' = (overlapped \/ Cardinality(Starting(proc')) > 1)
  /\ ran' = IF ran = Null /\ state.at = "running" THEN disk' ELSE ran

Launch(p) ==
  /\ proc[p] = Gone
  /\ Becomes(p, [Gone EXCEPT !.at = "config", !.does = "read"])
  /\ UNCHANGED <<disk, minted>>

At(p, file, does) == proc[p].at = file /\ proc[p].does = does

\* What is read is used and the next file is next.
Uses(p, state) ==
  Becomes(p, [state EXCEPT !.at = After[state.at], !.does = "read"]) /\ UNCHANGED <<disk, minted>>

\* What is made is written before it is used.
Makes(p, state, count) ==
  /\ minted + count <= MaxMinted /\ minted' = minted + count
  /\ Becomes(p, [state EXCEPT !.does = "truncate"])
  /\ UNCHANGED disk

\* Mutation: what cannot be read counts as missing.
AbsentOrTorn(file) == disk[file] \in {Null, Torn}

Absent(file) == disk[file] = Null

-----------------------------------------------------------------------------
(* load(), load_or_create() and _load_or_write_activation().  A file that  *)
(* cannot be parsed ends the process, as another farm's activation does.   *)

LoadConfig(p) ==
  /\ At(p, "config", "read")
  /\ \/ Absent("config") /\ Makes(p, [proc[p] EXCEPT !.token = minted + 1], 1)
     \/ ~ Absent("config") /\ disk.config # Torn /\ Uses(p, [proc[p] EXCEPT !.token = disk.config])

\* Mutation: a farm is minted at every start.
NamesNoFarm(key) == TRUE

Legacy(key) == key.farm = Null

LoadKey(p) ==
  /\ At(p, "key", "read")
  /\ \/ /\ Absent("key")
        /\ Makes(p, [proc[p] EXCEPT !.key = [secret |-> minted + 1, farm |-> minted + 2]], 2)
     \/ /\ ~ Absent("key") /\ disk.key # Torn /\ Legacy(disk.key)
        /\ Makes(p, [proc[p] EXCEPT !.key = [disk.key EXCEPT !.farm = minted + 1]], 1)
     \/ /\ ~ Absent("key") /\ disk.key # Torn /\ ~ Legacy(disk.key)
        /\ Uses(p, [proc[p] EXCEPT !.key = disk.key])

LoadActivation(p) ==
  /\ At(p, "activation", "read")
  /\ \/ Absent("activation") /\ Makes(p, proc[p], 0)
     \/ ~ Absent("activation") /\ disk.activation = proc[p].key.farm /\ Uses(p, proc[p])

Refused(p) ==
  /\ proc[p].does = "read" /\ proc[p].at \in Files /\ ~ Absent(proc[p].at)
  /\ \/ disk[proc[p].at] = Torn
     \/ proc[p].at = "activation" /\ disk.activation # proc[p].key.farm
  /\ Becomes(p, Gone)
  /\ UNCHANGED <<disk, minted>>

Content(state) ==
  CASE state.at = "config" -> state.token
    [] state.at = "key" -> state.key
    [] state.at = "activation" -> state.key.farm

\* save() and _write_private(): O_TRUNC, then the bytes.
Truncate(p) ==
  /\ proc[p].does = "truncate"
  /\ disk' = [disk EXCEPT ![proc[p].at] = Torn]
  /\ Becomes(p, [proc[p] EXCEPT !.does = "write"])
  /\ UNCHANGED minted

Write(p) ==
  /\ proc[p].does = "write"
  /\ disk' = [disk EXCEPT ![proc[p].at] = Content(proc[p])]
  /\ Becomes(p, [proc[p] EXCEPT !.at = After[proc[p].at], !.does = "read"])
  /\ UNCHANGED minted

\* Killed, a write that fails, or the end of the command.
End(p) == proc[p] # Gone /\ Becomes(p, Gone) /\ UNCHANGED <<disk, minted>>

Next ==
  \E p \in Processes :
    \/ Launch(p) \/ LoadConfig(p) \/ LoadKey(p) \/ LoadActivation(p) \/ Refused(p)
    \/ Truncate(p) \/ Write(p) \/ End(p)

Spec == Init /\ [][Next]_vars
=============================================================================
