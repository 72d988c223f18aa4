----------------------------- MODULE StartupProofs -----------------------------
(***************************************************************************)
(* Key, farm and ledger stay together, for any number of processes, starts *)
(* and interruptions.                                                      *)
(***************************************************************************)
EXTENDS StartupProperties, FiniteSetTheorems, TLAPS

Keys == [secret : Nat, farm : Nat]
OldKeys == [secret : Nat, farm : {Null}]

States == [at : Files \cup {"none", "running"}, does : {"", "read", "truncate", "write"},
           token : Nat, key : Keys \cup {Null}]

DiskOK ==
  /\ DOMAIN disk = Files
  /\ disk["config"] \in Nat \cup {Null, Torn}
  /\ disk["key"] \in Keys \cup OldKeys \cup {Null, Torn}
  /\ disk["activation"] \in Nat \cup {Null, Torn}

\* A process makes files on its way up only, and has a key with a farm once it made or
\* passed the key's.
Carries(q) ==
  /\ q.at \notin Files => q.does \in {"", "read"}
  /\ q.at = "key" /\ q.does # "read" => q.key \in Keys
  /\ q.at \in {"activation", "running"} => q.key \in Keys

StartupTypeOK ==
  /\ DiskOK
  /\ proc \in [Processes -> States] /\ \A p \in Processes : Carries(proc[p])
  /\ minted \in Nat /\ overlapped \in BOOLEAN

\* The files a process has passed are those it runs with.
Passed(q) ==
  /\ q.at \in {"key", "activation", "running"} => disk["config"] = q.token
  /\ q.at \in {"activation", "running"} => disk["key"] = q.key
  /\ q.at = "running" => disk["activation"] = q.key.farm

\* It only writes over what is missing, or over a key without a farm.
WritesOver(q) ==
  /\ q.at \in Files /\ q.does = "truncate" =>
       disk[q.at] = Null \/ (q.at = "key" /\ disk["key"] \in OldKeys)
  /\ q.at \in Files /\ q.does = "write" => disk[q.at] = Torn

OneStarts == \A p, q \in Starting(proc) : p = q

RanComplete ==
  ran # Null =>
    /\ ran = disk /\ disk["config"] \in Nat /\ disk["key"] \in Keys
    /\ disk["activation"] = disk["key"].farm

StartInv ==
  ~ overlapped =>
    /\ OneStarts /\ RanComplete
    /\ \A p \in Processes : Passed(proc[p]) /\ WritesOver(proc[p])

-----------------------------------------------------------------------------
LEMMA AtMostOne ==
  ASSUME NEW S, IsFiniteSet(S), ~ (Cardinality(S) > 1), NEW x \in S, NEW y \in S
  PROVE  x = y
<1> SUFFICES ASSUME x # y PROVE FALSE
  OBVIOUS
<1>1. IsFiniteSet({x}) /\ Cardinality({x}) = 1
  BY FS_Singleton
<1> DEFINE T == {x}
<1>2. IsFiniteSet(T \cup {y}) /\ Cardinality(T \cup {y}) = 2
  <2>1. y \notin T
    OBVIOUS
  <2> HIDE DEF T
  <2>2. Cardinality(T \cup {y}) = Cardinality(T) + 1 /\ IsFiniteSet(T \cup {y})
    BY <1>1, <2>1, FS_AddElement DEF T
  <2> QED BY <1>1, <2>2 DEF T
<1>3. Cardinality(T \cup {y}) <= Cardinality(S)
  BY <1>2, FS_Subset
<1>4. Cardinality(S) \in Nat
  BY FS_CardinalityType
<1> QED BY <1>2, <1>3, <1>4

\* What every step has in common.
LEMMA BecomesFacts ==
  ASSUME StartupTypeOK, NEW p \in Processes, NEW state \in States, Becomes(p, state)
  PROVE  /\ proc' \in [Processes -> States] /\ proc'[p] = state
         /\ \A q \in Processes \ {p} : proc'[q] = proc[q]
         /\ overlapped' \in BOOLEAN
         /\ ~ overlapped' => ~ overlapped /\ OneStarts'
         /\ ran' = IF ran = Null /\ state.at = "running" THEN disk' ELSE ran
<1>1. IsFiniteSet(Starting(proc'))
  BY ProcessesAssumption, FS_Subset DEF Starting
<1>2. overlapped' = (overlapped \/ Cardinality(Starting(proc')) > 1)
  BY DEF Becomes
<1>3. ~ overlapped' => ~ overlapped /\ OneStarts'
  BY <1>1, <1>2, AtMostOne DEF OneStarts
<1>4. overlapped' \in BOOLEAN
  BY <1>2, Zenon
<1> QED BY <1>3, <1>4 DEF Becomes, StartupTypeOK

LEMMA ContentsDiffer ==
  /\ Null # Torn
  /\ \A k \in Keys \cup OldKeys : k # Null /\ k # Torn
  /\ \A n \in Nat : n # Null /\ n # Torn
  /\ \A k \in Keys : k \notin OldKeys
BY ContentsAssumption DEF Keys, OldKeys

LEMMA TypeFrame ==
  ASSUME StartupTypeOK, NEW p \in Processes, NEW state \in States, Becomes(p, state),
         Carries(state), DiskOK', minted' \in Nat
  PROVE  StartupTypeOK'
BY BecomesFacts DEF StartupTypeOK

\* A step that leaves the files as they are.
LEMMA ReadKeeps ==
  ASSUME StartupTypeOK, StartInv, NEW p \in Processes, NEW state \in States, Becomes(p, state),
         UNCHANGED disk, Carries(state), minted' \in Nat,
         ~ overlapped => Passed(state) /\ WritesOver(state)
  PROVE  StartupTypeOK' /\ StartInv'
<1>1. StartupTypeOK'
  BY TypeFrame DEF StartupTypeOK, DiskOK
<1> SUFFICES ASSUME ~ overlapped' PROVE StartInv'
  BY <1>1 DEF StartInv
<1>2. ~ overlapped /\ OneStarts' /\ proc'[p] = state /\ \A q \in Processes \ {p} : proc'[q] = proc[q]
  BY BecomesFacts
<1>3. \A q \in Processes : Passed(proc[q])' /\ WritesOver(proc[q])'
  BY <1>2 DEF StartInv, Passed, WritesOver
<1>4. RanComplete'
  <2>1. CASE ran = Null /\ state.at = "running"
    <3>1. state.key \in Keys /\ state.token \in Nat
      BY <2>1 DEF Carries, States
    <3>2. disk["config"] = state.token /\ disk["key"] = state.key /\ disk["activation"] = state.key.farm
      BY <1>2, <2>1 DEF Passed
    <3> QED BY <2>1, <3>1, <3>2, BecomesFacts DEF RanComplete
  <2>2. CASE ~ (ran = Null /\ state.at = "running")
    BY <1>2, <2>2, BecomesFacts DEF StartInv, RanComplete
  <2> QED BY <2>1, <2>2
<1> QED BY <1>2, <1>3, <1>4 DEF StartInv

\* Whoever is about to write is alone, and no process runs on what it writes over.
LEMMA WriterIsAlone ==
  ASSUME StartupTypeOK, StartInv, ~ overlapped, NEW p \in Processes,
         proc[p].does \in {"truncate", "write"}
  PROVE  /\ proc[p].at \in Files /\ ran = Null
         /\ \A q \in Processes \ {p} : proc[q].at = "none"
         /\ disk["key"] \notin Keys \/ proc[p].at # "key"
<1>0. proc[p].at \in Files
  BY DEF StartupTypeOK, Carries
<1>1. /\ OneStarts /\ RanComplete /\ WritesOver(proc[p])
      /\ \A q \in Processes : Passed(proc[q]) /\ proc[q] \in States /\ Carries(proc[q])
  BY DEF StartInv, StartupTypeOK
<1>2. \/ disk[proc[p].at] \in {Null, Torn}
      \/ proc[p].at = "key" /\ disk["key"] \in OldKeys
  BY <1>0, <1>1 DEF WritesOver
<1>3. ~ (disk["config"] \in Nat /\ disk["key"] \in Keys /\ disk["activation"] \in Nat)
  BY <1>0, <1>2, ContentsDiffer DEF Files
<1>4. ran = Null
  <2>1. \A k \in Keys : k.farm \in Nat
    BY DEF Keys
  <2> QED BY <1>1, <1>3, <2>1 DEF RanComplete
<1>5. ASSUME NEW q \in Processes \ {p} PROVE proc[q].at = "none"
  <2>1. proc[q].at \notin Files
    BY <1>0, <1>1 DEF OneStarts, Starting
  <2>2. proc[q].at # "running"
    <3> SUFFICES ASSUME proc[q].at = "running" PROVE FALSE
      OBVIOUS
    <3>1. /\ disk["config"] = proc[q].token /\ disk["key"] = proc[q].key
          /\ disk["activation"] = proc[q].key.farm
      BY <1>1 DEF Passed
    <3>2. proc[q].token \in Nat /\ proc[q].key \in Keys /\ proc[q].key.farm \in Nat
      BY <1>1 DEF States, Carries, Keys
    <3> QED BY <1>3, <3>1, <3>2
  <2> QED BY <1>1, <2>1, <2>2 DEF States
<1>6. disk["key"] \notin Keys \/ proc[p].at # "key"
  BY <1>2, ContentsDiffer
<1> QED BY <1>0, <1>4, <1>5, <1>6

\* A step of the only process on its way up, whatever it does to the files.
LEMMA AloneKeeps ==
  ASSUME StartupTypeOK, StartInv, NEW p \in Processes, proc[p].does \in {"truncate", "write"},
         NEW state \in States, Becomes(p, state), Carries(state), DiskOK', UNCHANGED minted,
         Passed(proc[p]) => Passed(state)', WritesOver(state)'
  PROVE  StartupTypeOK' /\ StartInv'
<1>1. StartupTypeOK'
  BY TypeFrame DEF StartupTypeOK
<1> SUFFICES ASSUME ~ overlapped' PROVE StartInv'
  BY <1>1 DEF StartInv
<1>2. /\ ~ overlapped /\ OneStarts' /\ proc'[p] = state
      /\ \A q \in Processes \ {p} : proc'[q] = proc[q]
      /\ ran' = IF ran = Null /\ state.at = "running" THEN disk' ELSE ran
  BY BecomesFacts
<1>3. ran = Null /\ \A q \in Processes \ {p} : proc[q].at = "none"
  BY <1>2, WriterIsAlone
<1>4. Passed(state)' /\ WritesOver(state)'
  BY <1>2 DEF StartInv
<1>5. RanComplete'
  <2> SUFFICES ASSUME state.at = "running" PROVE RanComplete'
    BY <1>2, <1>3 DEF RanComplete
  <2>1. state.key \in Keys /\ state.token \in Nat
    BY DEF Carries, States
  <2>2. disk'["config"] = state.token /\ disk'["key"] = state.key /\ disk'["activation"] = state.key.farm
    BY <1>4 DEF Passed
  <2> QED BY <1>2, <1>3, <2>1, <2>2 DEF RanComplete
<1>6. ASSUME NEW q \in Processes PROVE Passed(proc[q])' /\ WritesOver(proc[q])'
  <2>1. CASE q = p
    BY <1>2, <1>4, <2>1 DEF Passed, WritesOver
  <2>2. CASE q # p
    BY <1>2, <1>3, <2>2 DEF Passed, WritesOver, Files
  <2> QED BY <2>1, <2>2
<1> QED BY <1>2, <1>5, <1>6 DEF StartInv

LEMMA TruncateKeeps ==
  ASSUME StartupTypeOK, StartInv, NEW p \in Processes, Truncate(p)
  PROVE  StartupTypeOK' /\ StartInv'
<1>1. /\ proc[p].at \in Files /\ proc[p] \in States /\ Carries(proc[p]) /\ proc[p].does = "truncate"
      /\ disk' = [disk EXCEPT ![proc[p].at] = Torn] /\ minted' = minted
      /\ Becomes(p, [proc[p] EXCEPT !.does = "write"])
  BY DEF StartupTypeOK, Carries, Truncate
<1>2. PICK f \in Files : f = proc[p].at
  BY <1>1
<1>3. PICK state \in States : state = [proc[p] EXCEPT !.does = "write"]
  BY <1>1 DEF States
<1>4. state.at = f /\ state.does = "write" /\ state.key = proc[p].key /\ state.token = proc[p].token
  BY <1>1, <1>2, <1>3 DEF States
<1>5. DOMAIN disk' = Files /\ disk'[f] = Torn /\ \A g \in Files \ {f} : disk'[g] = disk[g]
  BY <1>1, <1>2 DEF StartupTypeOK, DiskOK
<1>6. DiskOK'
  BY <1>5 DEF StartupTypeOK, DiskOK, Files
<1>7. Carries(state)
  BY <1>1, <1>2, <1>4 DEF Carries
<1>8. WritesOver(state)'
  BY <1>4, <1>5 DEF WritesOver
<1>9. Passed(proc[p]) => Passed(state)'
  BY <1>2, <1>4, <1>5 DEF Passed, Files
<1> QED BY <1>1, <1>3, <1>6, <1>7, <1>8, <1>9, AloneKeeps

\* What is written is what the process goes on with.
LEMMA WriteKeeps ==
  ASSUME StartupTypeOK, StartInv, NEW p \in Processes, Write(p)
  PROVE  StartupTypeOK' /\ StartInv'
<1>1. /\ proc[p].at \in Files /\ proc[p] \in States /\ Carries(proc[p]) /\ proc[p].does = "write"
      /\ disk' = [disk EXCEPT ![proc[p].at] = Content(proc[p])] /\ minted' = minted
      /\ Becomes(p, [proc[p] EXCEPT !.at = After[proc[p].at], !.does = "read"])
  BY DEF StartupTypeOK, Carries, Write
<1>2. PICK f \in Files : f = proc[p].at
  BY <1>1
<1>3. /\ After[f] \in Files \cup {"running"} /\ After[f] # "config"
      /\ After[f] = "key" <=> f = "config"
      /\ After[f] = "activation" <=> f = "key"
      /\ After[f] = "running" <=> f = "activation"
  BY DEF After, Files
<1>4. PICK state \in States : state = [proc[p] EXCEPT !.at = After[f], !.does = "read"]
  BY <1>1, <1>3 DEF States
<1>5. state.at = After[f] /\ state.does = "read" /\ state.key = proc[p].key /\ state.token = proc[p].token
  BY <1>1, <1>3, <1>4 DEF States
<1>6. PICK content :
        /\ content = Content(proc[p])
        /\ f = "config" => content = proc[p].token
        /\ f = "key" => content = proc[p].key /\ proc[p].key \in Keys
        /\ f = "activation" => content = proc[p].key.farm /\ proc[p].key \in Keys
  BY <1>1, <1>2 DEF Content, Carries
<1>7. DOMAIN disk' = Files /\ disk'[f] = content /\ \A g \in Files \ {f} : disk'[g] = disk[g]
  BY <1>1, <1>2, <1>6 DEF StartupTypeOK, DiskOK
<1>8. DiskOK'
  <2>1. proc[p].token \in Nat /\ \A k \in Keys : k.farm \in Nat
    BY <1>1 DEF States, Keys
  <2> QED BY <1>6, <1>7, <2>1 DEF StartupTypeOK, DiskOK, Files
<1>9. Carries(state)
  BY <1>3, <1>5, <1>6 DEF Carries
<1>10. WritesOver(state)'
  BY <1>5 DEF WritesOver
<1>11. Passed(proc[p]) => Passed(state)'
  BY <1>2, <1>3, <1>5, <1>6, <1>7 DEF Passed, Files
<1> QED BY <1>1, <1>2, <1>4, <1>8, <1>9, <1>10, <1>11, AloneKeeps

LEMMA StartupInit == Init => StartupTypeOK /\ StartInv
<1> SUFFICES ASSUME Init PROVE StartupTypeOK /\ StartInv
  OBVIOUS
<1>1. LegacyKey \in OldKeys
  BY DEF LegacyKey, LegacySecret, OldKeys
<1>2. DiskOK
  BY <1>1 DEF Init, DiskOK, Files
<1>3. Gone \in States /\ Carries(Gone) /\ Passed(Gone) /\ WritesOver(Gone) /\ Gone.at = "none"
  BY DEF Gone, States, Carries, Passed, WritesOver, Files
<1>4. \A p \in Processes : proc[p] = Gone
  BY DEF Init
<1>5. Starting(proc) = {}
  BY <1>3, <1>4 DEF Starting, Files
<1> QED BY <1>2, <1>3, <1>4, <1>5 DEF Init, StartupTypeOK, StartInv, OneStarts, RanComplete

\* What is read is carried on, and what was read or made is what the next step works with.
LEMMA UsesKeeps ==
  ASSUME StartupTypeOK, StartInv, NEW p \in Processes, NEW state \in States, state.at \in Files,
         Uses(p, state), state.at \in {"key", "activation"} => state.key \in Keys,
         ~ overlapped =>
           /\ disk["config"] = state.token
           /\ state.at \in {"key", "activation"} => disk["key"] = state.key
           /\ state.at = "activation" => disk["activation"] = state.key.farm
  PROVE  StartupTypeOK' /\ StartInv'
<1> DEFINE next == [state EXCEPT !.at = After[state.at], !.does = "read"]
<1>1. /\ After[state.at] \in Files \cup {"running"} /\ After[state.at] # "config"
      /\ After[state.at] = "key" <=> state.at = "config"
      /\ After[state.at] = "activation" <=> state.at = "key"
      /\ After[state.at] = "running" <=> state.at = "activation"
  BY DEF After, Files
<1>2. /\ next \in States /\ next.at = After[state.at] /\ next.does = "read"
      /\ next.key = state.key /\ next.token = state.token
  BY <1>1 DEF States
<1>3. Becomes(p, next) /\ UNCHANGED disk /\ minted' \in Nat
  BY DEF Uses, StartupTypeOK
<1> HIDE DEF next
<1>4. Carries(next)
  BY <1>1, <1>2 DEF Carries
<1>5. ~ overlapped => Passed(next) /\ WritesOver(next)
  BY <1>1, <1>2 DEF Passed, WritesOver
<1> QED BY <1>2, <1>3, <1>4, <1>5, ReadKeeps

\* What is made is for a file that is missing, or for a key without a farm.
LEMMA MakesKeeps ==
  ASSUME StartupTypeOK, StartInv, NEW p \in Processes, NEW state \in States, NEW count \in Nat,
         Makes(p, state, count), state.at \in Files, Absent(state.at) \/ (state.at = "key" /\ disk["key"] \in OldKeys),
         state.at \in {"key", "activation"} => state.key \in Keys,
         ~ overlapped =>
           /\ state.at \in {"key", "activation"} => disk["config"] = state.token
           /\ state.at = "activation" => disk["key"] = state.key
  PROVE  StartupTypeOK' /\ StartInv'
<1> DEFINE next == [state EXCEPT !.does = "truncate"]
<1>1. /\ next \in States /\ next.at = state.at /\ next.does = "truncate"
      /\ next.key = state.key /\ next.token = state.token
  BY DEF States
<1>2. Becomes(p, next) /\ UNCHANGED disk /\ minted' \in Nat
  BY DEF Makes, StartupTypeOK
<1> HIDE DEF next
<1>3. Carries(next)
  BY <1>1 DEF Carries, Files
<1>4. ~ overlapped => Passed(next) /\ WritesOver(next)
  BY <1>1 DEF Passed, WritesOver, Absent, Files
<1> QED BY <1>1, <1>2, <1>3, <1>4, ReadKeeps

\* A process that ends or is killed.
LEMMA GoneKeeps ==
  ASSUME StartupTypeOK, StartInv, NEW p \in Processes, Becomes(p, Gone), UNCHANGED <<disk, minted>>
  PROVE  StartupTypeOK' /\ StartInv'
<1>1. Gone \in States /\ Carries(Gone) /\ Passed(Gone) /\ WritesOver(Gone)
  BY DEF Gone, States, Carries, Passed, WritesOver, Files
<1>2. minted' \in Nat
  BY DEF StartupTypeOK
<1> QED BY <1>1, <1>2, ReadKeeps

LEMMA LoadConfigKeeps ==
  ASSUME StartupTypeOK, StartInv, NEW p \in Processes, LoadConfig(p)
  PROVE  StartupTypeOK' /\ StartInv'
<1>1. proc[p] \in States /\ proc[p].at = "config" /\ "config" \in Files /\ minted + 1 \in Nat
  BY DEF StartupTypeOK, LoadConfig, At, Files
<1>2. CASE Absent("config") /\ Makes(p, [proc[p] EXCEPT !.token = minted + 1], 1)
  <2> DEFINE state == [proc[p] EXCEPT !.token = minted + 1]
  <2>1. state \in States /\ state.at = "config"
    BY <1>1 DEF States
  <2> HIDE DEF state
  <2>2. Makes(p, state, 1)
    BY <1>2 DEF state
  <2> QED BY <1>1, <1>2, <2>1, <2>2, MakesKeeps
<1>3. CASE ~ Absent("config") /\ disk.config # Torn /\ Uses(p, [proc[p] EXCEPT !.token = disk.config])
  <2> DEFINE state == [proc[p] EXCEPT !.token = disk.config]
  <2>1. disk["config"] \in Nat
    BY <1>3 DEF StartupTypeOK, DiskOK, Absent
  <2>2. state \in States /\ state.at = "config" /\ state.token = disk["config"]
    BY <1>1, <2>1 DEF States
  <2> HIDE DEF state
  <2>3. Uses(p, state)
    BY <1>3 DEF state
  <2> QED BY <1>1, <2>2, <2>3, UsesKeeps
<1> QED BY <1>2, <1>3 DEF LoadConfig

LEMMA LoadKeyKeeps ==
  ASSUME StartupTypeOK, StartInv, NEW p \in Processes, LoadKey(p)
  PROVE  StartupTypeOK' /\ StartInv'
<1>1. /\ proc[p] \in States /\ proc[p].at = "key" /\ "key" \in Files
      /\ minted + 1 \in Nat /\ minted + 2 \in Nat
  BY DEF StartupTypeOK, LoadKey, At, Files
<1>2. ~ overlapped => disk["config"] = proc[p].token
  BY <1>1 DEF StartInv, Passed
<1>3. ASSUME NEW key \in Keys
      PROVE  LET state == [proc[p] EXCEPT !.key = key]
             IN  state \in States /\ state.at = "key" /\ state.key = key /\ state.token = proc[p].token
  BY <1>1 DEF States
<1>4. ASSUME NEW key \in Keys, NEW count \in Nat, Absent("key") \/ disk["key"] \in OldKeys,
             Makes(p, [proc[p] EXCEPT !.key = key], count)
      PROVE  StartupTypeOK' /\ StartInv'
  <2> DEFINE state == [proc[p] EXCEPT !.key = key]
  <2>1. state \in States /\ state.at = "key" /\ state.key = key /\ state.token = proc[p].token
    BY <1>3
  <2> HIDE DEF state
  <2>2. Makes(p, state, count)
    BY <1>4 DEF state
  <2> QED BY <1>1, <1>2, <1>4, <2>1, <2>2, MakesKeeps
<1>5. CASE /\ Absent("key")
           /\ Makes(p, [proc[p] EXCEPT !.key = [secret |-> minted + 1, farm |-> minted + 2]], 2)
  <2>1. [secret |-> minted + 1, farm |-> minted + 2] \in Keys
    BY <1>1 DEF Keys
  <2> QED BY <1>4, <1>5, <2>1
<1>6. CASE /\ ~ Absent("key") /\ disk.key # Torn /\ Legacy(disk.key)
           /\ Makes(p, [proc[p] EXCEPT !.key = [disk.key EXCEPT !.farm = minted + 1]], 1)
  <2>1. disk["key"] \in Keys \cup OldKeys
    BY <1>6 DEF StartupTypeOK, DiskOK, Absent
  <2>2. disk["key"] \in OldKeys
    BY <1>6, <2>1, ContentsDiffer DEF Legacy, Keys, OldKeys
  <2>3. [disk["key"] EXCEPT !.farm = minted + 1] \in Keys
    BY <1>1, <2>2 DEF Keys, OldKeys
  <2> QED BY <1>4, <1>6, <2>2, <2>3
<1>7. CASE /\ ~ Absent("key") /\ disk.key # Torn /\ ~ Legacy(disk.key)
           /\ Uses(p, [proc[p] EXCEPT !.key = disk.key])
  <2> DEFINE state == [proc[p] EXCEPT !.key = disk.key]
  <2>1. disk["key"] \in Keys
    BY <1>7 DEF StartupTypeOK, DiskOK, Absent, Legacy, OldKeys
  <2>2. state \in States /\ state.at = "key" /\ state.key = disk["key"] /\ state.token = proc[p].token
    BY <1>3, <2>1
  <2> HIDE DEF state
  <2>3. Uses(p, state)
    BY <1>7 DEF state
  <2> QED BY <1>1, <1>2, <2>1, <2>2, <2>3, UsesKeeps
<1> QED BY <1>5, <1>6, <1>7 DEF LoadKey

LEMMA LoadActivationKeeps ==
  ASSUME StartupTypeOK, StartInv, NEW p \in Processes, LoadActivation(p)
  PROVE  StartupTypeOK' /\ StartInv'
<1>1. proc[p] \in States /\ Carries(proc[p]) /\ proc[p].at = "activation" /\ "activation" \in Files
  BY DEF StartupTypeOK, LoadActivation, At, Files
<1>2. proc[p].key \in Keys /\ (~ overlapped => disk["config"] = proc[p].token /\ disk["key"] = proc[p].key)
  BY <1>1 DEF Carries, StartInv, Passed
<1>3. CASE Absent("activation") /\ Makes(p, proc[p], 0)
  BY <1>1, <1>2, <1>3, MakesKeeps
<1>4. CASE ~ Absent("activation") /\ disk.activation = proc[p].key.farm /\ Uses(p, proc[p])
  BY <1>1, <1>2, <1>4, UsesKeeps
<1> QED BY <1>3, <1>4 DEF LoadActivation

LEMMA StartupStep == StartupTypeOK /\ StartInv /\ [Next]_vars => StartupTypeOK' /\ StartInv'
<1> SUFFICES ASSUME StartupTypeOK, StartInv, [Next]_vars PROVE StartupTypeOK' /\ StartInv'
  OBVIOUS
<1>1. ASSUME NEW p \in Processes, Launch(p) PROVE StartupTypeOK' /\ StartInv'
  <2> DEFINE state == [Gone EXCEPT !.at = "config", !.does = "read"]
  <2>1. state \in States /\ Carries(state) /\ Passed(state) /\ WritesOver(state)
    BY DEF Gone, States, Carries, Passed, WritesOver, Files
  <2> HIDE DEF state
  <2>2. Becomes(p, state) /\ UNCHANGED disk /\ minted' \in Nat
    BY <1>1 DEF Launch, state, StartupTypeOK
  <2> QED BY <2>1, <2>2, ReadKeeps
<1>2. ASSUME NEW p \in Processes, Refused(p) \/ End(p) PROVE StartupTypeOK' /\ StartInv'
  BY <1>2, GoneKeeps DEF Refused, End
<1>3. CASE UNCHANGED vars
  BY <1>3 DEF vars, StartupTypeOK, DiskOK, StartInv, OneStarts, Starting, RanComplete, Passed, WritesOver
<1> QED BY <1>1, <1>2, <1>3, LoadConfigKeeps, LoadKeyKeeps, LoadActivationKeeps, TruncateKeeps,
       WriteKeeps DEF Next

LEMMA StartupInvariant == Spec => [](StartupTypeOK /\ StartInv)
BY StartupInit, StartupStep, PTL DEF Spec

\* What the first process that came up found or left on the disk is what every later one
\* runs with, for any number of processes, however often each of them is started or killed.
THEOREM FirstRunStays == Spec => []FirstRunIsForGood
<1>1. StartInv => FirstRunIsForGood
  <2> SUFFICES ASSUME StartInv, ~ overlapped, ran # Null
               PROVE  /\ disk = ran
                      /\ \A p \in Processes : proc[p].at = "running" =>
                           disk.config = proc[p].token /\ disk.key = proc[p].key
                             /\ disk.activation = proc[p].key.farm
    BY DEF FirstRunIsForGood
  <2> QED BY DEF StartInv, RanComplete, Passed
<1> QED BY <1>1, StartupInvariant, PTL

\* A key that names its farm is written again by no later start, unless two processes once
\* started at the same time.
THEOREM KeyStays == Spec => KeyIsKept
<1>1. StartupTypeOK /\ StartInv /\ [Next]_vars =>
        [~ overlapped' /\ disk.key \notin {Null, Torn} /\ disk.key.farm # Null
           => disk'.key = disk.key]_vars
  <2> SUFFICES ASSUME StartupTypeOK, StartInv, Next, ~ overlapped',
                      disk.key \notin {Null, Torn}, disk.key.farm # Null
               PROVE  disk'.key = disk.key
    BY DEF vars
  <2>1. disk["key"] \in Keys /\ DOMAIN disk = Files
    BY DEF StartupTypeOK, DiskOK, OldKeys
  <2>2. ASSUME NEW p \in Processes, NEW state, Becomes(p, state),
               proc[p].does \in {"truncate", "write"}
        PROVE  proc[p].at # "key"
    <3>1. ~ overlapped
      BY <2>2 DEF Becomes
    <3> QED BY <2>1, <2>2, <3>1, WriterIsAlone
  <2>3. PICK p \in Processes :
          \/ UNCHANGED disk
          \/ Truncate(p) \/ Write(p)
    BY DEF Next, Launch, LoadConfig, LoadKey, LoadActivation, Refused, End, Uses, Makes
  <2>4. CASE UNCHANGED disk
    BY <2>4
  <2>5. CASE Truncate(p) \/ Write(p)
    <3>1. proc[p].at # "key"
      BY <2>2, <2>5 DEF Truncate, Write
    <3> QED BY <2>1, <2>5, <3>1 DEF Truncate, Write, Files
  <2> QED BY <2>3, <2>4, <2>5
<1> QED BY <1>1, StartupInvariant, PTL DEF Spec, KeyIsKept

\* The old secret is on the disk, or nothing that can be read is, and no other is on its way.
HasOldSecret ==
  /\ disk["key"] = Torn \/ (disk["key"] # Null /\ disk["key"].secret = LegacySecret)
  /\ \A p \in Processes :
       proc[p].at = "key" /\ proc[p].does # "read" => proc[p].key.secret = LegacySecret

\* A step of one process, whatever it does to the key's file.
LEMMA OldSecretFrame ==
  ASSUME StartupTypeOK, HasOldSecret, NEW p \in Processes, NEW state \in States, Becomes(p, state),
         state.at = "key" /\ state.does # "read" => state.key.secret = LegacySecret,
         \/ disk'["key"] = disk["key"] \/ disk'["key"] = Torn
         \/ disk'["key"] # Null /\ disk'["key"].secret = LegacySecret
  PROVE  HasOldSecret'
<1>1. proc'[p] = state /\ \A q \in Processes \ {p} : proc'[q] = proc[q]
  BY BecomesFacts
<1> QED BY <1>1 DEF HasOldSecret

LEMMA OldSecretStep == StartupTypeOK /\ HasOldSecret /\ [Next]_vars => HasOldSecret'
<1> SUFFICES ASSUME StartupTypeOK, HasOldSecret, [Next]_vars PROVE HasOldSecret'
  OBVIOUS
<1> DEFINE Keeps(state) == state.at = "key" /\ state.does # "read" => state.key.secret = LegacySecret
<1>1. ASSUME NEW p \in Processes, NEW state \in States, Becomes(p, state), UNCHANGED disk, Keeps(state)
      PROVE  HasOldSecret'
  BY <1>1, OldSecretFrame
<1>2. ASSUME NEW p \in Processes, Launch(p) PROVE HasOldSecret'
  <2>1. [Gone EXCEPT !.at = "config", !.does = "read"] \in States
    BY DEF Gone, States, Files
  <2>2. Keeps([Gone EXCEPT !.at = "config", !.does = "read"])
    BY DEF Gone
  <2> QED BY <1>1, <1>2, <2>1, <2>2 DEF Launch
<1>3. ASSUME NEW p \in Processes, Refused(p) \/ End(p) PROVE HasOldSecret'
  <2>1. Gone \in States /\ Keeps(Gone)
    BY DEF Gone, States
  <2> QED BY <1>1, <1>3, <2>1 DEF Refused, End
<1>4. ASSUME NEW p \in Processes, NEW state \in States, state.at \in Files, Uses(p, state)
      PROVE  HasOldSecret'
  <2> DEFINE next == [state EXCEPT !.at = After[state.at], !.does = "read"]
  <2>1. After[state.at] \in Files \cup {"running"}
    BY <1>4 DEF After, Files
  <2>2. next \in States /\ Keeps(next)
    BY <2>1 DEF States
  <2>3. Becomes(p, next) /\ UNCHANGED disk
    BY <1>4 DEF Uses
  <2> HIDE DEF next
  <2> QED BY <1>1, <2>2, <2>3
<1>5. ASSUME NEW p \in Processes, NEW state \in States, NEW count \in Nat, Makes(p, state, count),
             state.at = "key" => state.key.secret = LegacySecret
      PROVE  HasOldSecret'
  <2> DEFINE next == [state EXCEPT !.does = "truncate"]
  <2>1. next \in States /\ Keeps(next)
    BY <1>5 DEF States
  <2>2. Becomes(p, next) /\ UNCHANGED disk
    BY <1>5 DEF Makes
  <2> HIDE DEF next
  <2> QED BY <1>1, <2>1, <2>2
<1>6. ASSUME NEW p \in Processes, LoadConfig(p) PROVE HasOldSecret'
  <2>1. proc[p] \in States /\ proc[p].at = "config" /\ "config" \in Files /\ minted + 1 \in Nat
    BY <1>6 DEF StartupTypeOK, LoadConfig, At, Files
  <2>2. \A n \in Nat : LET state == [proc[p] EXCEPT !.token = n]
                       IN  state \in States /\ state.at = "config"
    BY <2>1 DEF States
  <2>3. CASE Makes(p, [proc[p] EXCEPT !.token = minted + 1], 1)
    BY <1>5, <2>1, <2>2, <2>3
  <2>4. CASE ~ Absent("config") /\ disk.config # Torn /\ Uses(p, [proc[p] EXCEPT !.token = disk.config])
    <3>1. disk["config"] \in Nat
      BY <2>4 DEF StartupTypeOK, DiskOK, Absent
    <3> QED BY <1>4, <2>1, <2>2, <2>4, <3>1
  <2> QED BY <1>6, <2>3, <2>4 DEF LoadConfig
<1>7. ASSUME NEW p \in Processes, LoadKey(p) PROVE HasOldSecret'
  <2>1. proc[p] \in States /\ proc[p].at = "key" /\ "key" \in Files /\ minted + 1 \in Nat
    BY <1>7 DEF StartupTypeOK, LoadKey, At, Files
  <2>2. \A key \in Keys : LET state == [proc[p] EXCEPT !.key = key]
                          IN  state \in States /\ state.at = "key" /\ state.key = key
    BY <2>1 DEF States
  <2>3. ~ Absent("key")
    BY ContentsDiffer DEF HasOldSecret, Absent
  <2>4. disk["key"] # Torn /\ disk["key"] \in Keys \cup OldKeys /\ disk["key"].secret = LegacySecret
    BY <1>7, <2>3 DEF LoadKey, StartupTypeOK, DiskOK, HasOldSecret, Absent
  <2>5. CASE /\ Legacy(disk.key)
             /\ Makes(p, [proc[p] EXCEPT !.key = [disk.key EXCEPT !.farm = minted + 1]], 1)
    <3> DEFINE key == [disk["key"] EXCEPT !.farm = minted + 1]
    <3>1. key \in Keys /\ key.secret = LegacySecret
      BY <2>1, <2>4 DEF Keys, OldKeys
    <3> HIDE DEF key
    <3>2. Makes(p, [proc[p] EXCEPT !.key = key], 1)
      BY <2>5 DEF key
    <3> QED BY <1>5, <2>2, <3>1, <3>2
  <2>6. CASE ~ Legacy(disk.key) /\ Uses(p, [proc[p] EXCEPT !.key = disk.key])
    <3>1. disk["key"] \in Keys
      BY <2>4, <2>6 DEF Legacy, OldKeys
    <3> QED BY <1>4, <2>1, <2>2, <2>6, <3>1
  <2> QED BY <1>7, <2>3, <2>5, <2>6 DEF LoadKey
<1>8. ASSUME NEW p \in Processes, LoadActivation(p) PROVE HasOldSecret'
  <2>1. proc[p] \in States /\ proc[p].at = "activation" /\ "activation" \in Files
    BY <1>8 DEF StartupTypeOK, LoadActivation, At, Files
  <2> QED BY <1>4, <1>5, <1>8, <2>1 DEF LoadActivation
<1>9. ASSUME NEW p \in Processes, Truncate(p) PROVE HasOldSecret'
  <2>1. PICK state \in States : state = [proc[p] EXCEPT !.does = "write"]
    BY DEF StartupTypeOK, States
  <2>2. proc[p].at \in Files /\ proc[p].does = "truncate" /\ DOMAIN disk = Files
    BY <1>9 DEF StartupTypeOK, Carries, Truncate, DiskOK
  <2>3. Keeps(state)
    BY <2>1, <2>2 DEF HasOldSecret, StartupTypeOK, States
  <2>4. disk'["key"] \in {disk["key"], Torn}
    BY <1>9, <2>2 DEF Truncate, Files
  <2> QED BY <1>9, <2>1, <2>3, <2>4, OldSecretFrame DEF Truncate
<1>10. ASSUME NEW p \in Processes, Write(p) PROVE HasOldSecret'
  <2>1. /\ proc[p].at \in Files /\ proc[p] \in States /\ Carries(proc[p]) /\ proc[p].does = "write"
        /\ DOMAIN disk = Files
    BY <1>10 DEF StartupTypeOK, Carries, Write, DiskOK
  <2>2. After[proc[p].at] \in Files \cup {"running"}
    BY <2>1 DEF After, Files
  <2>3. PICK state \in States : state = [proc[p] EXCEPT !.at = After[proc[p].at], !.does = "read"]
    BY <2>1, <2>2 DEF States
  <2>4. Keeps(state)
    BY <2>1, <2>3 DEF States
  <2>5. \/ disk'["key"] = disk["key"]
        \/ proc[p].at = "key" /\ disk'["key"] = proc[p].key
    BY <1>10, <2>1 DEF Write, Content, Files
  <2>6. proc[p].at = "key" => proc[p].key # Null /\ proc[p].key.secret = LegacySecret
    BY <2>1, ContentsDiffer DEF Carries, HasOldSecret
  <2> QED BY <1>10, <2>3, <2>4, <2>5, <2>6, OldSecretFrame DEF Write
<1>11. CASE UNCHANGED vars
  BY <1>11 DEF vars, HasOldSecret
<1> QED BY <1>2, <1>3, <1>6, <1>7, <1>8, <1>9, <1>10, <1>11 DEF Next

\* Where there was a key of version 2.0.0, its secret is the only one a key file ever holds,
\* for any number of processes and also when they start at the same time.
THEOREM OldSecretStays == Spec => SecretOutlivesUpgrade
<1>1. Init /\ disk.key = LegacyKey => HasOldSecret
  <2> SUFFICES ASSUME Init, disk.key = LegacyKey PROVE HasOldSecret
    OBVIOUS
  <2>1. LegacyKey \in OldKeys /\ LegacyKey.secret = LegacySecret
    BY DEF LegacyKey, LegacySecret, OldKeys
  <2>2. \A p \in Processes : proc[p].at = "none"
    BY DEF Init, Gone
  <2> QED BY <2>1, <2>2, ContentsDiffer DEF HasOldSecret
<1>2. HasOldSecret => disk.key \in {Null, Torn} \/ disk.key.secret = LegacySecret
  BY DEF HasOldSecret
<1> QED BY <1>1, <1>2, StartupInvariant, OldSecretStep, PTL DEF Spec, SecretOutlivesUpgrade
=============================================================================
